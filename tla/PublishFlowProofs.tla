------------------------- MODULE PublishFlowProofs -------------------------
(* Proofs about PublishFlow and the page on top of it, for every number of *)
(* services, APIs, clusters, releases, flows and concurrent requests.      *)
EXTENDS PublishPage, TLAPS

\* The tables and requests are well typed in the initial state.
LEMMA TypeInit == Init => TypeOK
BY DEF Init, TypeOK, NoFlow, Offline, NoRequest, FlowRow, Router, Request, Status, PCs

\* Finish, Goto and OnError keep the requests well typed.
LEMMA FinishType ==
  ASSUME TypeOK, NEW h \in Handlers, Finish(h)
  PROVE  pc' \in [Handlers -> PCs] /\ req' \in [Handlers -> Request]
BY DEF TypeOK, Finish, NoRequest, Request, Status, PCs

\* A request that fails, cleaning up or not, is left well typed.
LEMMA OnErrorType ==
  ASSUME TypeOK, NEW h \in Handlers, OnError(h)
  PROVE  pc' \in [Handlers -> PCs] /\ req' \in [Handlers -> Request]
<1>1. CASE Finish(h) BY <1>1, FinishType
<1>2. CASE Goto(h, "cleanup") /\ UNCHANGED req BY <1>2 DEF TypeOK, Goto, PCs
<1> QED BY <1>1, <1>2 DEF OnError

\* The updates the steps of Publish and ReleaseDo make to what a request remembers.
LEMMA RequestUpdate ==
  ASSUME NEW q \in Request
  PROVE  /\ NoRequest \in Request
         /\ \A f \in Flows : [q EXCEPT !.flow = f] \in Request
         /\ \A A \in SUBSET Apis : [q EXCEPT !.apis = A, !.todo = Clusters] \in Request
         /\ \A st \in Status : [q EXCEPT !.status = st] \in Request
         /\ \A t \in SUBSET Clusters :
              [q EXCEPT !.todo = t, !.failed = TRUE, !.unsaid = TRUE] \in Request
         /\ \A t \in SUBSET Clusters, st \in Status, b, u \in BOOLEAN :
              [q EXCEPT !.todo = t, !.failed = b, !.status = st, !.unsaid = u] \in Request
BY DEF Request, NoRequest, Status

\* What publish() remembers of one cluster, done, failed or refused, is a request again.
LEMMA ClusterRequest ==
  ASSUME TypeOK, NEW h \in Handlers, NEW c \in Clusters
  PROVE  /\ \A st \in {"done", "error"}, b \in BOOLEAN :
              ClusterEnds(h, c, st, b) => req' \in [Handlers -> Request]
         /\ RowRefused(h, c) => req' \in [Handlers -> Request]
<1>1. /\ req[h] \in Request /\ req[h].todo \ {c} \in SUBSET Clusters
      /\ req[h].failed \in BOOLEAN /\ req[h].unsaid \in BOOLEAN
      BY DEF TypeOK, Request
<1>2. ASSUME NEW st \in {"done", "error"}, NEW b \in BOOLEAN, ClusterEnds(h, c, st, b)
      PROVE  req' \in [Handlers -> Request]
  <2>1. PICK said \in BOOLEAN :
          req' = [req EXCEPT ![h].todo = @ \ {c}, ![h].failed = @ \/ b,
                             ![h].status = IF said THEN st ELSE "publishing",
                             ![h].unsaid = @ \/ ~ said]
        BY <1>2 DEF ClusterEnds
  <2> DEFINE new == [req[h] EXCEPT !.todo = req[h].todo \ {c}, !.failed = req[h].failed \/ b,
                                   !.status = IF said THEN st ELSE "publishing",
                                   !.unsaid = req[h].unsaid \/ ~ said]
  <2>2. (IF said THEN st ELSE "publishing") \in Status BY DEF Status
  <2>3. (req[h].failed \/ b) \in BOOLEAN /\ (req[h].unsaid \/ ~ said) \in BOOLEAN OBVIOUS
  <2>4. new \in Request BY <1>1, <2>2, <2>3, RequestUpdate
  <2>5. req' = [req EXCEPT ![h] = new] BY <2>1
  <2> HIDE DEF new
  <2> QED BY <2>4, <2>5 DEF TypeOK
<1>3. ASSUME RowRefused(h, c) PROVE req' \in [Handlers -> Request]
  <2> DEFINE new == [req[h] EXCEPT !.todo = req[h].todo \ {c}, !.failed = TRUE, !.unsaid = TRUE]
  <2>1. new \in Request BY <1>1, RequestUpdate
  <2>2. req' = [req EXCEPT ![h] = new] BY <1>3 DEF RowRefused
  <2> HIDE DEF new
  <2> QED BY <2>1, <2>2 DEF TypeOK
<1> QED BY <1>2, <1>3

\* One cluster's answer, or its refused row, changes of the request only what is still to do
\* and the outcome, and nothing of the others.
LEMMA ClusterStep ==
  ASSUME TypeOK, NEW h \in Handlers, NEW c \in Clusters, NEW st, NEW b \in BOOLEAN,
         ClusterEnds(h, c, st, b) \/ RowRefused(h, c)
  PROVE  /\ UNCHANGED store /\ c \in req[h].todo
         /\ pc[h] \in {"publishWait", "publishCluster"}
         /\ pc'[h] \in {"publishWait", "publishCluster"}
         /\ req'[h].flow = req[h].flow /\ req'[h].service = req[h].service
         /\ req'[h].release = req[h].release /\ req'[h].apis = req[h].apis
         /\ req'[h].todo = req[h].todo \ {c}
         /\ \A k \in Handlers \ {h} : pc'[k] = pc[k] /\ req'[k] = req[k]
<1>1. CASE ClusterEnds(h, c, st, b)
  <2>1. PICK said \in BOOLEAN :
          req' = [req EXCEPT ![h].todo = @ \ {c}, ![h].failed = @ \/ b,
                             ![h].status = IF said THEN st ELSE "publishing",
                             ![h].unsaid = @ \/ ~ said]
        BY <1>1 DEF ClusterEnds
  <2>2. pc' = pc /\ pc[h] = "publishCluster" /\ UNCHANGED store /\ c \in req[h].todo
        BY <1>1 DEF ClusterEnds
  <2>3. /\ req'[h].flow = req[h].flow /\ req'[h].service = req[h].service
        /\ req'[h].release = req[h].release /\ req'[h].apis = req[h].apis
        /\ req'[h].todo = req[h].todo \ {c}
        /\ \A k \in Handlers \ {h} : req'[k] = req[k]
        BY <2>1 DEF TypeOK, Request
  <2> QED BY <2>2, <2>3
<1>2. CASE RowRefused(h, c)
  <2>1. /\ req'[h].flow = req[h].flow /\ req'[h].service = req[h].service
        /\ req'[h].release = req[h].release /\ req'[h].apis = req[h].apis
        /\ req'[h].todo = req[h].todo \ {c}
        /\ \A k \in Handlers \ {h} : req'[k] = req[k]
        BY <1>2 DEF RowRefused, TypeOK, Request
  <2>2. /\ pc[h] \in {"publishWait", "publishCluster"}
        /\ pc'[h] \in {"publishWait", "publishCluster"}
        /\ \A k \in Handlers \ {h} : pc'[k] = pc[k]
        BY <1>2 DEF RowRefused, TypeOK
  <2> QED BY <1>2, <2>1, <2>2 DEF RowRefused
<1> QED BY <1>1, <1>2

\* Every step keeps the tables, the gateway and the requests well typed.
LEMMA TypeNext == TypeOK /\ Provenance /\ [Next]_vars => TypeOK'
<1> SUFFICES ASSUME TypeOK, Provenance, [Next]_vars PROVE TypeOK' OBVIOUS
<1>1. CASE UNCHANGED vars BY <1>1 DEF vars, store, TypeOK
<1>2. ASSUME NEW s \in Services, NEW r \in Releases, NEW A \in SUBSET Apis, InsertRelease(s, r, A)
      PROVE  /\ release' \in [Releases -> Services \cup {None}]
             /\ commits' \in [Releases -> SUBSET Apis]
             /\ minted' \in SUBSET Releases
             /\ UNCHANGED <<flow, latest, publishStatus, running, accepted, unsaid, gateway>>
      BY <1>2 DEF InsertRelease, TypeOK
<1>3. ASSUME NEW s \in Services, NEW f \in Flows, NEW st \in Status, SetAction(s, f, st)
      PROVE  /\ flow' \in [Flows -> FlowRow]
             /\ accepted' \in SUBSET Flows
             /\ UNCHANGED <<release, commits, minted, latest, publishStatus, running, unsaid, gateway>>
      BY <1>3 DEF SetAction, TypeOK, FlowRow
<1>4. CASE ShortRequest
  <2>1. ASSUME NEW s \in Services, NEW r \in Releases, NEW A \in SUBSET Apis, CreateRelease(s, r, A)
        PROVE TypeOK'
        BY <1>2, <2>1 DEF CreateRelease, TypeOK
  <2>2. ASSUME NEW s \in Services, NEW r \in Releases, DeleteRelease(s, r) PROVE TypeOK'
        BY <2>2 DEF DeleteRelease, RemoveRelease, TypeOK
  <2>3. ASSUME NEW s \in Services, NEW f \in Flows, Accept(s, f) \/ Refuse(s, f) PROVE TypeOK'
        BY <1>3, <2>3 DEF Accept, Refuse, Status, TypeOK
  <2> QED BY <1>4, <2>1, <2>2, <2>3 DEF ShortRequest
<1>5. ASSUME NEW h \in Handlers, Begin(h) PROVE TypeOK'
  <2>1. ASSUME NEW s \in Services, NEW r \in Releases, ApplyStart(h, s, r) PROVE TypeOK'
        BY <2>1 DEF ApplyStart, Goto, store, TypeOK, Request, NoRequest, Status, PCs
  <2>2. ASSUME NEW s \in Services, NEW r \in Releases, NEW A \in SUBSET Apis,
               NEW op \in {"apply", "do"}, CreateAndApply(h, s, r, A, op)
        PROVE TypeOK'
        BY <1>2, <2>2 DEF CreateAndApply, Goto, TypeOK, Request, NoRequest, Status, PCs
  <2>3. ASSUME NEW s \in Services, NEW f \in Flows, StopRead(h, s, f) PROVE TypeOK'
        BY <2>3 DEF StopRead, Goto, store, TypeOK, Request, NoRequest, Status, PCs
  <2>4. ASSUME NEW s \in Services, NEW f \in Flows, PublishStart(h, s, f) PROVE TypeOK'
        BY <2>4 DEF PublishStart, Goto, store, TypeOK, Request, NoRequest, Status, PCs, FlowRow
  <2> QED BY <1>5, <2>1, <2>2, <2>3, <2>4 DEF Begin
<1>6. ASSUME NEW h \in Handlers, Continue(h) PROVE TypeOK'
  <2>1. CASE ApplyCheck(h)
        BY <2>1, FinishType DEF ApplyCheck, Goto, store, TypeOK, PCs
  <2>2. CASE ApplyRead(h)
        BY <2>2, FinishType DEF ApplyRead, Goto, store, TypeOK, PCs
  <2>3. ASSUME NEW f \in Flows, ApplyCreate(h, f) PROVE TypeOK'
    <3>1. flow' \in [Flows -> FlowRow] /\ latest' \in [Releases -> Flows \cup {None}]
      <4>1. req[h].service \in Services \cup {None} /\ req[h].release \in Releases \cup {None}
            BY DEF TypeOK, Request
      <4> QED BY <2>3, <4>1 DEF ApplyCreate, TypeOK, FlowRow, Status
    <3>2. CASE Finish(h) BY <2>3, <3>1, <3>2, FinishType DEF ApplyCreate, TypeOK
    <3>3. CASE Goto(h, "accept") /\ req' = [req EXCEPT ![h].flow = f]
      <4>1. [req[h] EXCEPT !.flow = f] \in Request BY RequestUpdate DEF TypeOK
      <4>2. req' \in [Handlers -> Request] BY <3>3, <4>1 DEF TypeOK
      <4>3. pc' \in [Handlers -> PCs] BY <3>3 DEF Goto, TypeOK, PCs
      <4> QED BY <2>3, <3>1, <4>2, <4>3 DEF ApplyCreate, TypeOK
    <3> QED BY <2>3, <3>2, <3>3 DEF ApplyCreate
  <2>4. CASE AcceptStep(h)
    <3>1. flow' \in [Flows -> FlowRow] BY <2>4 DEF AcceptStep, SetAction, TypeOK, FlowRow, Status
    <3>2. accepted' \in SUBSET Flows
      <4>1. req[h].flow \in Flows BY <2>4 DEF AcceptStep, Provenance, RequestProvenance
      <4> QED BY <2>4, <4>1 DEF AcceptStep, SetAction, TypeOK
    <3>3. pc' \in [Handlers -> PCs] BY <2>4 DEF AcceptStep, Goto, TypeOK, PCs
    <3> QED BY <2>4, <3>1, <3>2, <3>3 DEF AcceptStep, SetAction, TypeOK
  <2>5. CASE StopWrite(h)
    <3>1. req[h].status \in Status BY DEF TypeOK, Request
    <3>2. flow' \in [Flows -> FlowRow]
          BY <2>5, <3>1 DEF StopWrite, SetStatus, TypeOK, FlowRow
    <3> QED BY <2>5, <3>2, FinishType DEF StopWrite, TypeOK
  <2>6. CASE PublishRead(h)
        BY <2>6, OnErrorType DEF PublishRead, Goto, store, TypeOK, PCs
  <2>7. CASE PublishInfo(h)
    <3>1. ReleaseApis(req[h].release) \in SUBSET Apis
      <4>1. req[h].release \in Releases BY <2>7 DEF PublishInfo, Provenance, RequestProvenance, FlowProvenance
      <4> QED BY <4>1 DEF ReleaseApis, TypeOK
    <3>2. [req[h] EXCEPT !.apis = ReleaseApis(req[h].release), !.todo = Clusters] \in Request
          BY <3>1, RequestUpdate DEF TypeOK
    <3>3. req' \in [Handlers -> Request] BY <2>7, <3>2 DEF PublishInfo, TypeOK
    <3> QED BY <2>7, <3>3 DEF PublishInfo, Goto, store, TypeOK, PCs
  <2>8. CASE PublishBegin(h)
    <3>1. [req[h] EXCEPT !.status = "publishing"] \in Request
          BY RequestUpdate DEF TypeOK, Status
    <3>2. req' \in [Handlers -> Request] BY <2>8, <3>1 DEF PublishBegin, TypeOK
    <3> QED BY <2>8, <3>2 DEF PublishBegin, Goto, store, TypeOK, PCs
  <2>9. ASSUME NEW c \in Clusters, ClusterOnline(h, c) PROVE TypeOK'
    <3>1. req' \in [Handlers -> Request]
          BY <2>9, ClusterRequest DEF ClusterOnline, ClusterDone
    <3>2. Online(gateway[c], req[h].service, req[h].release, req[h].apis) \in [Apis -> Router]
      <4>1. req[h].service \in Services \cup {None} /\ req[h].release \in Releases \cup {None}
            BY DEF TypeOK, Request
      <4> QED BY <4>1 DEF TypeOK, Online, Router, Offline
    <3>3. gateway' \in [Clusters -> [Apis -> Router]]
          BY <2>9, <3>2 DEF ClusterOnline, TypeOK
    <3> QED BY <2>9, <3>1, <3>3 DEF ClusterOnline, ClusterDone, ClusterEnds, store, TypeOK
  <2>10. CASE PublishCommit(h)
    <3>1. flow' \in [Flows -> FlowRow]
      <4> DEFINE st == IF req[h].failed THEN "error" ELSE "done"
      <4>1. flow' = [flow EXCEPT ![req[h].flow].status = st] BY <2>10 DEF PublishCommit, SetStatus
      <4>2. st \in Status BY DEF Status
      <4> HIDE DEF st
      <4> QED BY <4>1, <4>2 DEF TypeOK, FlowRow
    <3>2. running' \in [Services -> Releases \cup {None}] /\ publishStatus' \in [Flows -> Status]
      <4>1. req[h].release \in Releases \cup {None} /\ req[h].status \in Status
            BY DEF TypeOK, Request
      <4> DEFINE row == IF req[h].status = "none" THEN publishStatus[req[h].flow] ELSE req[h].status
      <4>2. publishStatus' = [publishStatus EXCEPT ![req[h].flow] = row]
            BY <2>10 DEF PublishCommit
      <4>3. req[h].flow \in Flows BY <2>10 DEF PublishCommit, Provenance, RequestProvenance
      <4>4. row \in Status BY <4>1, <4>3 DEF TypeOK
      <4>5. running' \in [Services -> Releases \cup {None}]
            BY <2>10, <4>1 DEF PublishCommit, TypeOK
      <4> HIDE DEF row
      <4> QED BY <4>2, <4>4, <4>5 DEF TypeOK
    <3>3. unsaid' \in SUBSET Flows
      <4>1. req[h].flow \in Flows BY <2>10 DEF PublishCommit, Provenance, RequestProvenance
      <4> QED BY <2>10, <4>1 DEF PublishCommit, TypeOK
    <3> QED BY <2>10, <3>1, <3>2, <3>3, FinishType DEF PublishCommit, TypeOK
  <2>11. CASE Cleanup(h)
        BY <2>11, FinishType DEF Cleanup, RemoveRelease, store, TypeOK
  <2>12. CASE Fail(h)
        BY <2>12, OnErrorType DEF Fail, store, TypeOK
  <2> QED BY <1>6, <2>1, <2>2, <2>3, <2>4, <2>5, <2>6, <2>7, <2>8, <2>9, <2>10, <2>11, <2>12 DEF Continue, Proceed
<1>7. ASSUME NEW h \in Handlers, GoWrong(h) PROVE TypeOK'
  <2>1. ASSUME NEW c \in Clusters, ClusterCommitLost(h, c) PROVE TypeOK'
    <3>1. req' \in [Handlers -> Request]
          BY <2>1, ClusterRequest DEF ClusterCommitLost, ClusterDone
    <3> QED BY <2>1, <3>1 DEF ClusterCommitLost, ClusterDone, ClusterEnds, store, TypeOK
  <2>2. ASSUME NEW c \in Clusters, ClusterFailed(h, c) PROVE TypeOK'
    <3>1. req' \in [Handlers -> Request] BY <2>2, ClusterRequest DEF ClusterFailed
    <3> QED BY <2>2, <3>1 DEF ClusterFailed, ClusterEnds, store, TypeOK
  <2>4. ASSUME NEW c \in Clusters, RowRefused(h, c) PROVE TypeOK'
    <3>1. req' \in [Handlers -> Request] BY <2>4, ClusterRequest
    <3>2. pc' \in [Handlers -> PCs] BY <2>4 DEF RowRefused, TypeOK, PCs
    <3> QED BY <2>4, <3>1, <3>2 DEF RowRefused, store, TypeOK
  <2>3. CASE PublishAbort(h)
        BY <2>3, OnErrorType DEF PublishAbort, store, TypeOK
  <2> QED BY <1>7, <2>1, <2>2, <2>3, <2>4 DEF GoWrong
<1>8. CASE Restart
      BY <1>8 DEF Restart, store, TypeOK, Request, NoRequest, Status, PCs
<1> QED BY <1>1, <1>4, <1>5, <1>6, <1>7, <1>8 DEF Next

\* In the initial state nothing has been applied for, accepted or begun.
LEMMA ProvenanceInit == Init => Provenance
<1> SUFFICES ASSUME Init PROVE Provenance OBVIOUS
<1>1. \A f \in Flows : flow[f] = NoFlow BY DEF Init
<1>2. NoFlow.status = "none" BY DEF NoFlow
<1>3. FlowProvenance BY <1>1, <1>2 DEF Init, FlowProvenance
<1>4. \A h \in Handlers : RequestProvenance(h) BY DEF Init, RequestProvenance
<1> QED BY <1>3, <1>4 DEF Provenance

\* No flow is rewritten and no acceptance forgotten.
FlowsKept ==
  /\ \A f \in Flows : flow[f] # NoFlow =>
       flow'[f] # NoFlow /\ flow'[f].service = flow[f].service /\ flow'[f].release = flow[f].release
  /\ accepted \subseteq accepted'

ProvenanceKept == Provenance' /\ FlowsKept

\* A step of h that keeps the flows does not disturb the other requests.
LEMMA OthersKept ==
  ASSUME Provenance, FlowsKept, FlowProvenance', NEW h \in Handlers, RequestProvenance(h)',
         \A k \in Handlers \ {h} : pc'[k] = pc[k] /\ req'[k] = req[k]
  PROVE  ProvenanceKept
<1>1. ASSUME NEW k \in Handlers \ {h} PROVE RequestProvenance(k)'
      BY <1>1 DEF Provenance, FlowsKept, RequestProvenance
<1> QED BY <1>1 DEF Provenance, ProvenanceKept

\* Most steps write no flow.
LEMMA SameFlows ==
  ASSUME Provenance, UNCHANGED <<flow, accepted>>
  PROVE  FlowProvenance' /\ FlowsKept
BY DEF Provenance, FlowProvenance, FlowsKept

\* Writing the status of an existing flow, when that status is backed by Accept.
LEMMA StatusWritten ==
  ASSUME TypeOK, Provenance, NEW f \in Flows, flow[f] # NoFlow, NEW st \in Status,
         flow' = [flow EXCEPT ![f].status = st],
         accepted \subseteq accepted', accepted' \subseteq accepted \cup {f},
         st \in {"accept", "done", "error", "stop"} => f \in accepted'
  PROVE  FlowProvenance' /\ FlowsKept
<1>1. \A g \in Flows \ {f} : flow'[g] = flow[g] BY DEF TypeOK
<1>2. flow'[f] = [flow[f] EXCEPT !.status = st] /\ flow[f] \in FlowRow BY DEF TypeOK
<1>3. flow'[f].status = st /\ flow'[f].service = flow[f].service /\ flow'[f].release = flow[f].release
      BY <1>2 DEF FlowRow
<1>4. flow[f].service \in Services /\ flow[f].release \in Releases
      BY DEF Provenance, FlowProvenance
<1>5. flow'[f] # NoFlow BY <1>3, <1>4, NoneAssumption DEF NoFlow
<1>6. FlowsKept BY <1>1, <1>3, <1>5 DEF FlowsKept
<1>7. FlowProvenance' BY <1>1, <1>3, <1>4, <1>5 DEF Provenance, FlowProvenance
<1> QED BY <1>6, <1>7

\* setAction finds the flow by its service, so the flow exists.
LEMMA ActionWritten ==
  ASSUME TypeOK, Provenance, NEW s \in Services, NEW f \in Flows, NEW st \in {"accept", "refuse"},
         SetAction(s, f, st)
  PROVE  FlowProvenance' /\ FlowsKept /\ flow[f] # NoFlow /\ (st = "accept" => f \in accepted')
<1>1. flow[f] # NoFlow BY NoneAssumption DEF SetAction, NoFlow
<1>2. flow' = [flow EXCEPT ![f].status = st] BY DEF SetAction
<1>3. accepted \subseteq accepted' /\ accepted' \subseteq accepted \cup {f} BY DEF SetAction
<1>4. st \in {"accept", "done", "error", "stop"} => f \in accepted' BY DEF SetAction
<1>5. st \in Status BY DEF Status
<1> QED BY <1>1, <1>2, <1>3, <1>4, <1>5, StatusWritten

\* A finished or failed request has nothing left to account for.
LEMMA Answered ==
  ASSUME TypeOK, NEW h \in Handlers, Finish(h) \/ OnError(h)
  PROVE  /\ RequestProvenance(h)'
         /\ \A k \in Handlers \ {h} : pc'[k] = pc[k] /\ req'[k] = req[k]
<1>1. pc'[h] \in {"idle", "cleanup"} BY DEF Finish, OnError, Goto, TypeOK
<1>2. \A k \in Handlers \ {h} : pc'[k] = pc[k] /\ req'[k] = req[k]
      BY DEF Finish, OnError, Goto, TypeOK
<1> QED BY <1>1, <1>2 DEF RequestProvenance

\* What a cluster answers does not touch the flows.
LEMMA ClusterProvenance ==
  ASSUME TypeOK, Provenance, NEW h \in Handlers, NEW c \in Clusters,
         ClusterDone(h, c) \/ ClusterFailed(h, c) \/ RowRefused(h, c)
  PROVE  ProvenanceKept
<1>1. PICK st \in {"done", "error"}, b \in BOOLEAN : ClusterEnds(h, c, st, b) \/ RowRefused(h, c)
      BY DEF ClusterDone, ClusterFailed
<1>2. FlowProvenance' /\ FlowsKept BY <1>1, ClusterStep, SameFlows DEF store
<1>3. /\ pc[h] \in {"publishWait", "publishCluster"} /\ pc'[h] \in {"publishWait", "publishCluster"}
      /\ req'[h].flow = req[h].flow
      /\ req'[h].service = req[h].service /\ req'[h].release = req[h].release
      /\ \A k \in Handlers \ {h} : pc'[k] = pc[k] /\ req'[k] = req[k]
      BY <1>1, ClusterStep
<1>4. RequestProvenance(h)' BY <1>2, <1>3 DEF Provenance, RequestProvenance, FlowsKept
<1> QED BY <1>2, <1>3, <1>4, OthersKept

\* Every step keeps the approval behind flows and requests on record.
LEMMA ProvenanceNext == TypeOK /\ Provenance /\ [Next]_vars => ProvenanceKept
<1> SUFFICES ASSUME TypeOK, Provenance, [Next]_vars PROVE ProvenanceKept OBVIOUS
<1>0. \A h \in Handlers : RequestProvenance(h) BY DEF Provenance
<1>1. CASE UNCHANGED vars
      BY <1>1 DEF vars, store, Provenance, FlowProvenance, RequestProvenance, FlowsKept, ProvenanceKept
<1>2. ASSUME FlowProvenance', FlowsKept, UNCHANGED <<pc, req>> PROVE ProvenanceKept
      BY <1>2 DEF Provenance, FlowsKept, RequestProvenance, ProvenanceKept
<1>3. CASE ShortRequest
  <2>1. ASSUME NEW s \in Services, NEW r \in Releases, NEW A \in SUBSET Apis,
               CreateRelease(s, r, A)
        PROVE ProvenanceKept
        BY <1>2, <2>1, SameFlows DEF CreateRelease, InsertRelease
  <2>2. ASSUME NEW s \in Services, NEW f \in Flows, Accept(s, f) \/ Refuse(s, f) PROVE ProvenanceKept
        BY <1>2, <2>2, ActionWritten DEF Accept, Refuse
  <2>3. ASSUME NEW s \in Services, NEW r \in Releases, DeleteRelease(s, r) PROVE ProvenanceKept
        BY <1>2, <2>3, SameFlows DEF DeleteRelease, RemoveRelease
  <2> QED BY <1>3, <2>1, <2>2, <2>3 DEF ShortRequest
<1>4. ASSUME NEW h \in Handlers, Begin(h) PROVE ProvenanceKept
  <2>1. ASSUME NEW s \in Services, NEW r \in Releases, ApplyStart(h, s, r) PROVE ProvenanceKept
    <3>1. FlowProvenance' /\ FlowsKept BY <2>1, SameFlows DEF ApplyStart, store
    <3>2. pc'[h] = "applyRead" /\ req'[h].service = s /\ req'[h].release = r
          BY <2>1 DEF ApplyStart, Goto, TypeOK, NoRequest
    <3>3. RequestProvenance(h)' BY <3>2 DEF RequestProvenance
    <3> QED BY <2>1, <3>1, <3>3, OthersKept DEF ApplyStart, Goto, TypeOK
  <2>2. ASSUME NEW s \in Services, NEW r \in Releases, NEW A \in SUBSET Apis,
               NEW op \in {"apply", "do"}, CreateAndApply(h, s, r, A, op)
        PROVE ProvenanceKept
    <3>1. FlowProvenance' /\ FlowsKept BY <2>2, SameFlows DEF CreateAndApply, InsertRelease
    <3>2. pc'[h] = "applyCheck" /\ req'[h].service = s /\ req'[h].release = r
          BY <2>2 DEF CreateAndApply, Goto, TypeOK, NoRequest
    <3>3. RequestProvenance(h)' BY <3>2 DEF RequestProvenance
    <3> QED BY <2>2, <3>1, <3>3, OthersKept DEF CreateAndApply, Goto, TypeOK
  <2>3. ASSUME NEW s \in Services, NEW f \in Flows, StopRead(h, s, f) PROVE ProvenanceKept
    <3>1. FlowProvenance' /\ FlowsKept BY <2>3, SameFlows DEF StopRead, store
    <3>2. /\ pc'[h] = "stopWrite" /\ req'[h].flow = f
          /\ req'[h].status = IF flow[f].status = "apply" THEN "close" ELSE "stop"
          BY <2>3 DEF StopRead, Goto, TypeOK, NoRequest
    <3>3. flow[f] # NoFlow /\ (req'[h].status = "stop" => f \in accepted)
          BY <2>3, <3>2, NoneAssumption DEF StopRead, Active, NoFlow, Provenance, FlowProvenance
    <3>4. RequestProvenance(h)' BY <3>1, <3>2, <3>3 DEF RequestProvenance, FlowsKept
    <3> QED BY <2>3, <3>1, <3>4, OthersKept DEF StopRead, Goto, TypeOK
  <2>4. ASSUME NEW s \in Services, NEW f \in Flows, PublishStart(h, s, f) PROVE ProvenanceKept
    <3>1. FlowProvenance' /\ FlowsKept BY <2>4, SameFlows DEF PublishStart, store
    <3>2. /\ pc'[h] = "publishInfo" /\ req'[h].flow = f
          /\ req'[h].service = s /\ req'[h].release = flow[f].release
          BY <2>4 DEF PublishStart, Goto, TypeOK, NoRequest
    <3>3. flow[f] # NoFlow /\ f \in accepted /\ flow[f].service = s
          BY <2>4, NoneAssumption DEF PublishStart, Publishable, NoFlow, Provenance, FlowProvenance
    <3>4. RequestProvenance(h)' BY <3>1, <3>2, <3>3 DEF RequestProvenance, FlowsKept
    <3> QED BY <2>4, <3>1, <3>4, OthersKept DEF PublishStart, Goto, TypeOK
  <2> QED BY <1>4, <2>1, <2>2, <2>3, <2>4 DEF Begin
<1>5. ASSUME NEW h \in Handlers, Continue(h) PROVE ProvenanceKept
  <2>0. ASSUME Finish(h) \/ OnError(h), FlowProvenance', FlowsKept PROVE ProvenanceKept
        BY <2>0, Answered, OthersKept
  <2>1. CASE ApplyCheck(h)
    <3>1. FlowProvenance' /\ FlowsKept BY <2>1, SameFlows DEF ApplyCheck, store
    <3>2. CASE Goto(h, "applyRead") /\ UNCHANGED req
      <4>1. RequestProvenance(h)' BY <1>0, <2>1, <3>2 DEF ApplyCheck, Goto, TypeOK, RequestProvenance
      <4> QED BY <3>1, <3>2, <4>1, OthersKept DEF Goto, TypeOK
    <3> QED BY <2>0, <2>1, <3>1, <3>2 DEF ApplyCheck
  <2>2. CASE ApplyRead(h)
    <3>1. FlowProvenance' /\ FlowsKept BY <2>2, SameFlows DEF ApplyRead, store
    <3>2. CASE Goto(h, "applyCreate") /\ UNCHANGED req
      <4>1. RequestProvenance(h)' BY <1>0, <2>2, <3>2 DEF ApplyRead, Goto, TypeOK, RequestProvenance
      <4> QED BY <3>1, <3>2, <4>1, OthersKept DEF Goto, TypeOK
    <3> QED BY <2>0, <2>2, <3>1, <3>2 DEF ApplyRead
  <2>3. ASSUME NEW f \in Flows, ApplyCreate(h, f) PROVE ProvenanceKept
    <3> DEFINE s == req[h].service
               r == req[h].release
    <3>1. s \in Services /\ r \in Releases BY <1>0, <2>3 DEF ApplyCreate, RequestProvenance
    <3>2. /\ flow[f] = NoFlow /\ accepted' = accepted
          /\ flow' = [flow EXCEPT ![f] = [status |-> "apply", service |-> s, release |-> r]]
          BY <2>3 DEF ApplyCreate
    <3> HIDE DEF s, r
    <3>3. /\ \A g \in Flows \ {f} : flow'[g] = flow[g]
          /\ flow'[f].status = "apply" /\ flow'[f].service = s /\ flow'[f].release = r
          /\ flow'[f] # NoFlow
          BY <3>1, <3>2, NoneAssumption DEF TypeOK, NoFlow
    <3>4. f \notin accepted BY <3>2 DEF Provenance, FlowProvenance
    <3>5. FlowProvenance' /\ FlowsKept
          BY <3>1, <3>2, <3>3, <3>4 DEF Provenance, FlowProvenance, FlowsKept
    <3>6. CASE Goto(h, "accept") /\ req' = [req EXCEPT ![h].flow = f]
      <4>1. /\ pc'[h] = "accept" /\ req'[h].flow = f
            /\ req'[h].service = s /\ req'[h].release = r
            BY <3>6 DEF Goto, TypeOK, Request, s, r
      <4>2. RequestProvenance(h)' BY <3>3, <4>1 DEF RequestProvenance
      <4> QED BY <3>5, <3>6, <4>2, OthersKept DEF Goto, TypeOK
    <3> QED BY <2>0, <2>3, <3>5, <3>6 DEF ApplyCreate
  <2>4. CASE AcceptStep(h)
    <3>1. /\ req[h].flow \in Flows /\ flow[req[h].flow].service = req[h].service
          /\ flow[req[h].flow] # NoFlow
          BY <1>0, <2>4 DEF AcceptStep, RequestProvenance
    <3>2. req[h].service \in Services BY <3>1 DEF Provenance, FlowProvenance
    <3>3. FlowProvenance' /\ FlowsKept /\ req[h].flow \in accepted'
          BY <2>4, <3>1, <3>2, ActionWritten DEF AcceptStep
    <3>4. RequestProvenance(h)'
          BY <1>0, <2>4, <3>3 DEF AcceptStep, Goto, TypeOK, RequestProvenance, FlowsKept
    <3> QED BY <2>4, <3>3, <3>4, OthersKept DEF AcceptStep, Goto, TypeOK
  <2>5. CASE StopWrite(h)
    <3>1. /\ req[h].flow \in Flows /\ flow[req[h].flow] # NoFlow
          /\ req[h].status \in {"stop", "close"}
          /\ req[h].status = "stop" => req[h].flow \in accepted
          BY <1>0, <2>5 DEF StopWrite, RequestProvenance
    <3>2. accepted' = accepted /\ flow' = [flow EXCEPT ![req[h].flow].status = req[h].status]
          BY <2>5 DEF StopWrite, SetStatus
    <3>3. FlowProvenance' /\ FlowsKept BY <3>1, <3>2, StatusWritten DEF Status
    <3> QED BY <2>0, <2>5, <3>3 DEF StopWrite
  <2>6. CASE PublishRead(h)
    <3>1. FlowProvenance' /\ FlowsKept BY <2>6, SameFlows DEF PublishRead, store
    <3>2. CASE flow[req[h].flow].status \in Publishable
      <4>1. Goto(h, "publishInfo") /\ UNCHANGED req BY <2>6, <3>2 DEF PublishRead
      <4>2. req[h].flow \in Flows BY <1>0, <2>6 DEF PublishRead, RequestProvenance
      <4>3. req[h].flow \in accepted
            BY <3>2, <4>2 DEF Publishable, Provenance, FlowProvenance
      <4>4. RequestProvenance(h)'
            BY <1>0, <2>6, <3>1, <4>1, <4>3 DEF PublishRead, Goto, TypeOK, RequestProvenance, FlowsKept
      <4> QED BY <3>1, <4>1, <4>4, OthersKept DEF Goto, TypeOK
    <3>3. CASE ~ (flow[req[h].flow].status \in Publishable)
          BY <2>0, <2>6, <3>1, <3>3 DEF PublishRead
    <3> QED BY <3>2, <3>3
  <2>7. CASE PublishInfo(h)
    <3>1. FlowProvenance' /\ FlowsKept BY <2>7, SameFlows DEF PublishInfo, store
    <3>2. /\ pc[h] = "publishInfo" /\ pc'[h] = "publishWait"
          /\ req'[h].flow = req[h].flow /\ req'[h].service = req[h].service
          /\ req'[h].release = req[h].release
          BY <2>7 DEF PublishInfo, Goto, TypeOK, Request
    <3>3. RequestProvenance(h)' BY <1>0, <3>1, <3>2 DEF RequestProvenance, FlowsKept
    <3> QED BY <2>7, <3>1, <3>3, OthersKept DEF PublishInfo, Goto, TypeOK
  <2>8. CASE PublishBegin(h)
    <3>1. FlowProvenance' /\ FlowsKept BY <2>8, SameFlows DEF PublishBegin, store
    <3>2. /\ pc[h] = "publishWait" /\ pc'[h] = "publishCluster"
          /\ req'[h].flow = req[h].flow /\ req'[h].service = req[h].service
          /\ req'[h].release = req[h].release
          BY <2>8 DEF PublishBegin, Goto, TypeOK, Request
    <3>3. RequestProvenance(h)' BY <1>0, <3>1, <3>2 DEF RequestProvenance, FlowsKept
    <3> QED BY <2>8, <3>1, <3>3, OthersKept DEF PublishBegin, Goto, TypeOK
  <2>9. ASSUME NEW c \in Clusters, ClusterOnline(h, c) PROVE ProvenanceKept
        BY <2>9, ClusterProvenance DEF ClusterOnline
  <2>10. CASE PublishCommit(h)
    <3>1. /\ req[h].flow \in Flows /\ flow[req[h].flow] # NoFlow /\ req[h].flow \in accepted
          BY <1>0, <2>10 DEF PublishCommit, RequestProvenance
    <3> DEFINE st == IF req[h].failed THEN "error" ELSE "done"
    <3>2. accepted' = accepted /\ flow' = [flow EXCEPT ![req[h].flow].status = st]
          BY <2>10 DEF PublishCommit, SetStatus
    <3>3. st \in Status BY DEF Status
    <3>4. FlowProvenance' /\ FlowsKept
      <4> HIDE DEF st
      <4> QED BY <3>1, <3>2, <3>3, StatusWritten
    <3> QED BY <2>0, <2>10, <3>4 DEF PublishCommit
  <2>11. CASE Cleanup(h)
    <3>1. FlowProvenance' /\ FlowsKept BY <2>11, SameFlows DEF Cleanup, RemoveRelease, store
    <3> QED BY <2>0, <2>11, <3>1 DEF Cleanup
  <2>12. CASE Fail(h)
    <3>1. FlowProvenance' /\ FlowsKept BY <2>12, SameFlows DEF Fail, store
    <3> QED BY <2>0, <2>12, <3>1 DEF Fail
  <2> QED BY <1>5, <2>1, <2>2, <2>3, <2>4, <2>5, <2>6, <2>7, <2>8, <2>9, <2>10, <2>11, <2>12 DEF Continue, Proceed
<1>6. ASSUME NEW h \in Handlers, GoWrong(h) PROVE ProvenanceKept
  <2>1. ASSUME NEW c \in Clusters, ClusterCommitLost(h, c) PROVE ProvenanceKept
        BY <2>1, ClusterProvenance DEF ClusterCommitLost
  <2>2. ASSUME NEW c \in Clusters, ClusterFailed(h, c) \/ RowRefused(h, c) PROVE ProvenanceKept
        BY <2>2, ClusterProvenance
  <2>3. CASE PublishAbort(h)
    <3>1. FlowProvenance' /\ FlowsKept BY <2>3, SameFlows DEF PublishAbort, store
    <3> QED BY <2>3, <3>1, Answered, OthersKept DEF PublishAbort
  <2> QED BY <1>6, <2>1, <2>2, <2>3 DEF GoWrong
<1>7. CASE Restart
  <2>1. FlowProvenance' /\ FlowsKept BY <1>7, SameFlows DEF Restart, store
  <2>2. \A h \in Handlers : RequestProvenance(h)' BY <1>7 DEF Restart, RequestProvenance
  <2> QED BY <2>1, <2>2 DEF Provenance, ProvenanceKept
<1> QED BY <1>1, <1>3, <1>4, <1>5, <1>6, <1>7 DEF Next

\* TypeOK and Provenance together are inductive.
THEOREM ProvenanceHolds == Spec => [](TypeOK /\ Provenance)
<1>1. Init => TypeOK /\ Provenance BY TypeInit, ProvenanceInit
<1>2. TypeOK /\ Provenance /\ [Next]_vars => (TypeOK /\ Provenance)'
      BY TypeNext, ProvenanceNext DEF ProvenanceKept
<1> QED BY <1>1, <1>2, PTL DEF Spec

\* Every reachable state of the workflow is well typed.
THEOREM TypeCorrect == Spec => []TypeOK
BY ProvenanceHolds, PTL

-----------------------------------------------------------------------------
(* PublishFlow implements ReleaseGate.                                     *)

\* As long as no acceptance is added the approved releases stay the same.
LEMMA ApprovedSame ==
  ASSUME Provenance, FlowsKept, accepted' = accepted, accepted \subseteq Flows
  PROVE  Approved' = Approved
<1>1. \A f \in accepted : flow'[f].release = flow[f].release
      BY DEF Provenance, FlowProvenance, FlowsKept
<1> QED BY <1>1 DEF Approved

\* Accepting a flow approves its release and nothing else.
LEMMA ApprovedAccept ==
  ASSUME TypeOK, Provenance, FlowsKept, NEW s \in Services, NEW f \in Flows, SetAction(s, f, "accept")
  PROVE  flow[f].release \in Releases /\ Approved' = Approved \cup {flow[f].release}
<1>1. flow[f] # NoFlow BY NoneAssumption DEF SetAction, NoFlow
<1>2. \A g \in accepted \cup {f} : flow'[g].release = flow[g].release
      BY <1>1 DEF Provenance, FlowProvenance, FlowsKept, TypeOK
<1>3. accepted' = accepted \cup {f} BY DEF SetAction
<1>4. Approved' = {flow[g].release : g \in accepted \cup {f}} BY <1>2, <1>3 DEF Approved
<1>5. flow[f].release \in Releases BY <1>1 DEF Provenance, FlowProvenance
<1> QED BY <1>4, <1>5 DEF Approved

\* Nothing is approved, served or recorded at the start.
LEMMA GateInit == Init => Gate!Init
BY DEF Init, Gate!Init, Approved, Offline, Gate!Off

\* Every step of the workflow is one of the gate's, or none.
LEMMA GateNext ==
  ASSUME TypeOK, Provenance, ProvenanceKept, [Next]_vars
  PROVE  [Gate!Next]_(Gate!vars)
<1>0. FlowsKept /\ accepted \subseteq Flows BY DEF ProvenanceKept, TypeOK
<1>1. ASSUME UNCHANGED <<accepted, gateway, running>> PROVE UNCHANGED Gate!vars
      BY <1>0, <1>1, ApprovedSame DEF Gate!vars
<1>2. ASSUME NEW s \in Services, NEW f \in Flows, SetAction(s, f, "accept") PROVE Gate!Next
  <2>1. Gate!Approve(flow[f].release)
        BY <1>0, <1>2, ApprovedAccept DEF SetAction, Gate!Approve
  <2> QED BY <1>0, <1>2, <2>1, ApprovedAccept DEF Gate!Next
<1>3. CASE UNCHANGED vars BY <1>1, <1>3 DEF vars, store
<1>4. CASE ShortRequest
  <2>1. ASSUME NEW s \in Services, NEW r \in Releases, NEW A \in SUBSET Apis, CreateRelease(s, r, A)
        PROVE UNCHANGED Gate!vars
        BY <1>1, <2>1 DEF CreateRelease, InsertRelease
  <2>2. ASSUME NEW s \in Services, NEW r \in Releases, DeleteRelease(s, r) PROVE UNCHANGED Gate!vars
        BY <1>1, <2>2 DEF DeleteRelease, RemoveRelease
  <2>3. ASSUME NEW s \in Services, NEW f \in Flows, Accept(s, f) PROVE Gate!Next
        BY <1>2, <2>3 DEF Accept
  <2>4. ASSUME NEW s \in Services, NEW f \in Flows, Refuse(s, f) PROVE UNCHANGED Gate!vars
        BY <1>1, <2>4 DEF Refuse, SetAction
  <2> QED BY <1>4, <2>1, <2>2, <2>3, <2>4 DEF ShortRequest
<1>5. ASSUME NEW h \in Handlers, Begin(h) PROVE UNCHANGED Gate!vars
      BY <1>1, <1>5 DEF Begin, ApplyStart, CreateAndApply, InsertRelease, StopRead, PublishStart, store
<1>6. ASSUME NEW h \in Handlers, NEW c \in Clusters, ClusterOnline(h, c) PROVE Gate!Next
  <2>1. /\ req[h].flow \in accepted /\ req[h].flow \in Flows
        /\ flow[req[h].flow] # NoFlow
        /\ flow[req[h].flow].service = req[h].service /\ flow[req[h].flow].release = req[h].release
        BY <1>6 DEF ClusterOnline, ClusterDone, ClusterEnds, Provenance, RequestProvenance
  <2>2. req[h].service \in Services /\ req[h].release \in Releases /\ req[h].release \in Approved
        BY <2>1 DEF Provenance, FlowProvenance, Approved
  <2>3. req[h].apis \in SUBSET Apis BY DEF TypeOK, Request
  <2>4. gateway' = [gateway EXCEPT ![c] =
                      Online(gateway[c], req[h].service, req[h].release, req[h].apis)]
        BY <1>6 DEF ClusterOnline
  <2>5. UNCHANGED <<Approved, running>>
        BY <1>0, <1>6, ApprovedSame DEF ClusterOnline, ClusterDone, ClusterEnds, store
  <2>6. Gate!Deploy(c, req[h].service, req[h].release, req[h].apis)
        BY <2>2, <2>4, <2>5 DEF Gate!Deploy, Online, Offline, Gate!Off
  <2> QED BY <2>2, <2>3, <2>6 DEF Gate!Next
<1>7. ASSUME NEW h \in Handlers, PublishCommit(h) PROVE Gate!Next
  <2>1. /\ req[h].flow \in accepted /\ req[h].flow \in Flows
        /\ flow[req[h].flow] # NoFlow
        /\ flow[req[h].flow].service = req[h].service /\ flow[req[h].flow].release = req[h].release
        BY <1>7 DEF PublishCommit, Provenance, RequestProvenance
  <2>2. req[h].service \in Services /\ req[h].release \in Releases /\ req[h].release \in Approved
        BY <2>1 DEF Provenance, FlowProvenance, Approved
  <2>3. Approved' = Approved /\ gateway' = gateway
        BY <1>0, <1>7, ApprovedSame DEF PublishCommit
  <2>4. Gate!Record(req[h].service, req[h].release)
        BY <1>7, <2>2, <2>3 DEF PublishCommit, Gate!Record
  <2> QED BY <2>2, <2>4 DEF Gate!Next
<1>8. ASSUME NEW h \in Handlers, AcceptStep(h) PROVE Gate!Next
  <2>1. req[h].flow \in Flows /\ req[h].service \in Services
        BY <1>8 DEF AcceptStep, Provenance, RequestProvenance, FlowProvenance
  <2> QED BY <1>2, <1>8, <2>1 DEF AcceptStep
<1>9. ASSUME NEW h \in Handlers, Continue(h) PROVE [Gate!Next]_(Gate!vars)
  <2>1. CASE ApplyCheck(h) \/ ApplyRead(h) \/ (\E f \in Flows : ApplyCreate(h, f)) \/ StopWrite(h)
        BY <1>1, <2>1 DEF ApplyCheck, ApplyRead, ApplyCreate, StopWrite, store
  <2>2. CASE PublishRead(h) \/ PublishInfo(h) \/ PublishBegin(h) \/ Cleanup(h) \/ Fail(h)
        BY <1>1, <2>2 DEF PublishRead, PublishInfo, PublishBegin, Cleanup, RemoveRelease, Fail, store
  <2> QED BY <1>6, <1>7, <1>8, <1>9, <2>1, <2>2 DEF Continue, Proceed
<1>10. ASSUME NEW h \in Handlers, GoWrong(h) PROVE UNCHANGED Gate!vars
       BY <1>1, <1>10 DEF GoWrong, ClusterCommitLost, ClusterDone, ClusterFailed, ClusterEnds, RowRefused,
                          PublishAbort, store
<1>11. CASE Restart BY <1>1, <1>11 DEF Restart, store
<1> QED BY <1>3, <1>4, <1>5, <1>9, <1>10, <1>11 DEF Next

\* The workflow, its races, failures and restarts included, implements the
\* abstract gate: only approved releases go live, each cluster as a whole.
THEOREM GateImplemented == Spec => ImplementsGate
<1>1. TypeOK /\ Provenance /\ [Next]_vars => [Gate!Next]_(Gate!vars)
      BY ProvenanceNext, GateNext
<1> QED BY <1>1, GateInit, ProvenanceHolds, PTL DEF Spec, ImplementsGate, Gate!Spec

-----------------------------------------------------------------------------
(* The safety of what is served, by induction over the gate's steps.       *)

OfflineIsEmpty == \A c \in Clusters, a \in Apis :
  gateway[c][a].project = None => gateway[c][a].version = None

\* What the gate keeps on every cluster: approved releases only, one version per
\* project, and no version without a project.
ServedSafely == OnlyApprovedServed /\ OneVersionPerProject /\ OfflineIsEmpty

\* Nothing is served at the start.
LEMMA ServedInit == Init => ServedSafely
BY DEF Init, ServedSafely, OnlyApprovedServed, OneVersionPerProject, OfflineIsEmpty, Offline

\* Replacing the routers of one service as a whole keeps every service at one
\* version, and brings in only the version that is deployed.
LEMMA DeployKeeps ==
  ASSUME TypeOK, ServedSafely, NEW c \in Clusters, NEW s \in Services, NEW r \in Releases,
         NEW A \in SUBSET Apis, Gate!Deploy(c, s, r, A)
  PROVE  ServedSafely'
<1>1. /\ \A a \in A : gateway'[c][a] = [project |-> s, version |-> r]
      /\ \A a \in Apis \ A : gateway[c][a].project = s => gateway'[c][a] = [project |-> None, version |-> None]
      /\ \A a \in Apis \ A : gateway[c][a].project # s => gateway'[c][a] = gateway[c][a]
      BY DEF TypeOK, Gate!Deploy, Gate!Off
<1>2. \A d \in Clusters \ {c} : gateway'[d] = gateway[d] BY DEF TypeOK, Gate!Deploy
<1>3. r \in Approved /\ Approved' = Approved /\ running' = running BY DEF Gate!Deploy
<1>4. s # None BY NoneAssumption
<1>5. \A a \in Apis : \/ gateway'[c][a].project = s /\ gateway'[c][a].version = r
                      \/ gateway'[c][a].project = None /\ gateway'[c][a].version = None
                      \/ gateway'[c][a] = gateway[c][a] /\ gateway[c][a].project # s
      BY <1>1
<1>6. OfflineIsEmpty' BY <1>2, <1>4, <1>5 DEF ServedSafely, OfflineIsEmpty
<1>7. OnlyApprovedServed' BY <1>2, <1>3, <1>5 DEF ServedSafely, OnlyApprovedServed
<1>8. OneVersionPerProject'
  <2>1. ASSUME NEW d \in Clusters, NEW a \in Apis, NEW b \in Apis,
               gateway'[d][a].project = gateway'[d][b].project
        PROVE  gateway'[d][a].version = gateway'[d][b].version
    <3>1. CASE d # c BY <1>2, <2>1, <3>1 DEF ServedSafely, OneVersionPerProject
    <3>2. CASE d = c
          BY <1>4, <1>5, <2>1, <3>2 DEF ServedSafely, OneVersionPerProject, OfflineIsEmpty
    <3> QED BY <3>1, <3>2
  <2> QED BY <2>1 DEF OneVersionPerProject
<1> QED BY <1>6, <1>7, <1>8 DEF ServedSafely

\* Every step of the gate keeps what it promises.
LEMMA ServedNext ==
  ASSUME TypeOK, ServedSafely, [Gate!Next]_(Gate!vars)
  PROVE  ServedSafely'
<1>1. CASE UNCHANGED Gate!vars
      BY <1>1 DEF Gate!vars, ServedSafely, OnlyApprovedServed, OneVersionPerProject, OfflineIsEmpty
<1>2. ASSUME NEW r \in Releases, Gate!Approve(r) PROVE ServedSafely'
      BY <1>2 DEF Gate!Approve, ServedSafely, OnlyApprovedServed, OneVersionPerProject, OfflineIsEmpty
<1>3. ASSUME NEW s \in Services, NEW r \in Releases, Gate!Record(s, r) PROVE ServedSafely'
  <2>1. OnlyApprovedServed'
        BY <1>3 DEF Gate!Record, ServedSafely, OnlyApprovedServed, TypeOK
  <2> QED BY <1>3, <2>1 DEF Gate!Record, ServedSafely, OneVersionPerProject, OfflineIsEmpty
<1> QED BY <1>1, <1>2, <1>3, DeployKeeps DEF Gate!Next

\* Whatever the workflow does, through the gate, what is served stays safe.
LEMMA ServedHolds == Spec => []ServedSafely
<1>1. TypeOK /\ Provenance /\ ServedSafely /\ [Next]_vars => ServedSafely'
      BY ProvenanceNext, GateNext, ServedNext
<1> QED BY <1>1, ServedInit, ProvenanceHolds, PTL DEF Spec

\* Nothing is served or recorded as running that was never accepted.
THEOREM ApprovedOnly == Spec => []OnlyApprovedServed
<1>1. ServedSafely => OnlyApprovedServed BY DEF ServedSafely
<1> QED BY <1>1, ServedHolds, PTL

\* All routers a service has on a cluster belong to one release.
THEOREM OneVersion == Spec => []OneVersionPerProject
<1>1. ServedSafely => OneVersionPerProject BY DEF ServedSafely
<1> QED BY <1>1, ServedHolds, PTL
-----------------------------------------------------------------------------
(* What one request at a time leaves on the clusters, of one service and    *)
(* with a gateway that does not fail.                                       *)

Alone == (\A h, k \in Handlers : h = k) /\ (\A s, t \in Services : s = t)

\* The releases that flows, the record and the requests name have been drawn, so that no
\* snapshot takes their place.
Drawn ==
  /\ minted # {} => Apis # {}
  /\ \A r \in Releases : release[r] # None => r \in minted /\ commits[r] # {}
  /\ \A f \in Flows : flow[f] # NoFlow => flow[f].release \in minted
  /\ \A s \in Services : running[s] # None => running[s] \in minted
  /\ \A h \in Handlers : pc[h] = "applyCreate" => req[h].release \in minted

\* A request publishes the APIs of its release, or some when that has been deleted, and
\* begins with every cluster to do.
Prepared ==
  \A h \in Handlers :
    /\ pc[h] = "publishWait" => req[h].todo = Clusters
    /\ pc[h] \in {"publishWait", "publishCluster"} =>
         /\ req[h].apis # {}
         /\ release[req[h].release] # None => req[h].apis = commits[req[h].release]

\* A cluster serves a release of a service.
Serves(c, s, v) ==
  LET routers == {a \in Apis : gateway[c][a].project = s}
  IN /\ routers = {} <=> v = None
     /\ \A a \in routers : gateway[c][a].version = v
     /\ v # None /\ release[v] # None => routers = commits[v]

\* The publish in progress has reached a cluster.
Reached(h, c) == pc[h] = "publishCluster" /\ c \notin req[h].todo

\* Each cluster serves the release that is recorded, or the one that is being published.
Clustered ==
  \A c \in Clusters, s \in Services :
    /\ \A h \in Handlers : Reached(h, c) => Serves(c, s, req[h].release)
    /\ (\A h \in Handlers : ~ Reached(h, c)) => Serves(c, s, running[s])

ReliableInv == TypeOK /\ Provenance /\ Drawn /\ Prepared /\ Clustered

\* At the start no cluster serves anything.
LEMMA ReliableInit == Init => ReliableInv
<1> SUFFICES ASSUME Init PROVE ReliableInv OBVIOUS
<1>1. TypeOK /\ Provenance BY TypeInit, ProvenanceInit
<1>2. \A f \in Flows : flow[f] = NoFlow BY DEF Init
<1>3. Drawn BY <1>2 DEF Init, Drawn
<1>4. Prepared BY DEF Init, Prepared
<1>5. Clustered
  <2>1. ASSUME NEW c \in Clusters, NEW s \in Services PROVE Serves(c, s, running[s])
    <3>1. running[s] = None /\ \A a \in Apis : gateway[c][a].project # s
      BY NoneAssumption DEF Init, Offline
    <3> QED BY <3>1 DEF Serves
  <2>2. \A h \in Handlers, c \in Clusters : ~ Reached(h, c) BY DEF Init, Reached
  <2> QED BY <2>1, <2>2 DEF Clustered
<1> QED BY <1>1, <1>3, <1>4, <1>5 DEF ReliableInv

\* What a request publishes has been drawn.
LEMMA PublishedDrawn ==
  ASSUME TypeOK, Provenance, Drawn, NEW h \in Handlers,
         pc[h] \in {"publishInfo", "publishWait", "publishCluster"}
  PROVE  req[h].release \in minted /\ req[h].release \in Releases
<1>1. /\ req[h].flow \in Flows /\ flow[req[h].flow] # NoFlow
      /\ flow[req[h].flow].release = req[h].release
  BY DEF Provenance, RequestProvenance
<1> QED BY <1>1 DEF Drawn, TypeOK

\* The stored releases are those there were, or new.
ReleasesKept ==
  /\ minted \subseteq minted' /\ (minted' # {} => Apis # {})
  /\ \A r \in Releases : release'[r] # None =>
       /\ r \in minted' /\ commits'[r] # {}
       /\ r \in minted => release[r] # None /\ commits'[r] = commits[r]

\* A request does not take a release to the clusters.
RequestKept(k) ==
  \/ pc'[k] = pc[k] /\ req'[k] = req[k]
  \/ /\ pc[k] # "publishCluster"
     /\ pc'[k] = "applyCreate" => req'[k].release \in minted'
     /\ pc'[k] = "publishWait" =>
          /\ req'[k].apis # {} /\ req'[k].todo = Clusters
          /\ release'[req'[k].release] # None => req'[k].apis = commits'[req'[k].release]
     /\ pc'[k] = "publishCluster" =>
          /\ pc[k] = "publishWait" /\ req'[k].apis = req[k].apis /\ req'[k].release = req[k].release
          /\ req'[k].todo = Clusters

LEMMA ReliableKept ==
  ASSUME ReliableInv, TypeOK', Provenance', UNCHANGED <<running, gateway>>, ReleasesKept,
         \A f \in Flows : flow'[f] # NoFlow => flow'[f].release \in minted',
         \A k \in Handlers : RequestKept(k)
  PROVE  ReliableInv'
<1>0. TypeOK /\ Provenance /\ Drawn /\ Prepared /\ Clustered BY DEF ReliableInv
<1>1. Drawn' BY <1>0 DEF Drawn, ReleasesKept, RequestKept
<1>2. Prepared'
  <2>0. \A h \in Handlers : pc'[h] = "publishWait" => req'[h].todo = Clusters
    BY <1>0 DEF Prepared, RequestKept
  <2> SUFFICES ASSUME NEW h \in Handlers, pc'[h] \in {"publishWait", "publishCluster"}
               PROVE  /\ req'[h].apis # {}
                      /\ release'[req'[h].release] # None =>
                           req'[h].apis = commits'[req'[h].release]
    BY <2>0 DEF Prepared
  <2>1. CASE pc[h] \in {"publishWait", "publishCluster"} /\ req'[h].apis = req[h].apis
             /\ req'[h].release = req[h].release
    <3>1. req[h].release \in minted /\ req[h].release \in Releases
      BY <1>0, <2>1, PublishedDrawn
    <3> QED BY <1>0, <2>1, <3>1 DEF Prepared, ReleasesKept
  <2> QED BY <2>1 DEF RequestKept
<1>3. Clustered'
  <2>1. ASSUME NEW h \in Handlers, NEW c \in Clusters
        PROVE  /\ Reached(h, c)' <=> Reached(h, c)
               /\ Reached(h, c) => req'[h].release = req[h].release
    BY DEF RequestKept, Reached
  <2>2. ASSUME NEW c \in Clusters, NEW s \in Services, NEW v, v \in minted \/ v = None, Serves(c, s, v)
        PROVE  Serves(c, s, v)'
    <3>1. v # None /\ release'[v] # None => release[v] # None /\ commits'[v] = commits[v]
      BY <1>0, <2>2 DEF ReleasesKept, TypeOK
    <3> QED BY <2>2, <3>1 DEF Serves
  <2>3. ASSUME NEW c \in Clusters, NEW s \in Services, NEW h \in Handlers, Reached(h, c)'
        PROVE  Serves(c, s, req[h].release)'
    <3>1. Reached(h, c) /\ req'[h].release = req[h].release BY <2>1, <2>3
    <3>2. PICK v \in minted : v = req[h].release BY <1>0, <3>1, PublishedDrawn DEF Reached
    <3>3. Serves(c, s, v)' BY <1>0, <2>2, <3>1, <3>2 DEF Clustered
    <3> QED BY <3>1, <3>2, <3>3
  <2>4. ASSUME NEW c \in Clusters, NEW s \in Services, \A h \in Handlers : ~ Reached(h, c)'
        PROVE  Serves(c, s, running[s])'
    <3>1. PICK v : v = running[s] OBVIOUS
    <3>2. v \in minted \/ v = None BY <1>0, <3>1 DEF Drawn
    <3>3. Serves(c, s, v) BY <1>0, <2>1, <2>4, <3>1 DEF Clustered
    <3>4. Serves(c, s, v)' BY <2>2, <3>2, <3>3
    <3> QED BY <3>1, <3>4
  <2> QED BY <2>3, <2>4 DEF Clustered
<1> QED BY <1>1, <1>2, <1>3 DEF ReliableInv

\* A cluster is reached.
LEMMA ReliableOnline ==
  ASSUME Alone, ReliableInv, TypeOK', Provenance', NEW h \in Handlers, NEW c \in Clusters,
         ClusterOnline(h, c)
  PROVE  ReliableInv'
<1>0. TypeOK /\ Provenance /\ Drawn /\ Prepared /\ Clustered BY DEF ReliableInv
<1> DEFINE s == req[h].service
           r == req[h].release
           A == req[h].apis
<1>1. /\ pc[h] = "publishCluster" /\ c \in req[h].todo /\ pc' = pc
      /\ UNCHANGED <<release, commits, minted, flow, running>>
      /\ gateway' = [gateway EXCEPT ![c] = Online(gateway[c], s, r, A)]
  BY DEF ClusterOnline, ClusterDone, ClusterEnds, store
<1>2. /\ req'[h].release = r /\ req'[h].apis = A /\ req'[h].todo = req[h].todo \ {c}
      /\ \A k \in Handlers : k = h
  BY <1>0, ClusterStep DEF Alone, ClusterOnline, ClusterDone
<1>3. r \in minted /\ r \in Releases /\ A # {} /\ A \subseteq Apis
      /\ (release[r] # None => A = commits[r])
  BY <1>0, <1>1, PublishedDrawn DEF Prepared, TypeOK, Request
<1>4. \A t \in Services : t = s
  BY <1>0, <1>1 DEF Alone, Provenance, RequestProvenance, FlowProvenance
<1>5. Drawn' BY <1>0, <1>1, <1>2 DEF Drawn
<1>6. Prepared' BY <1>1, <1>2, <1>3 DEF Prepared
<1>7. Clustered'
  <2> SUFFICES ASSUME NEW d \in Clusters, NEW t \in Services
               PROVE  /\ Reached(h, d)' => Serves(d, t, req[h].release)'
                      /\ ~ Reached(h, d)' => Serves(d, t, running[t])'
    BY <1>2 DEF Clustered
  <2>1. PICK v \in Releases : v = r BY <1>3
  <2>2. CASE d = c
    <3>1. gateway'[c] = Online(gateway[c], t, v, A) BY <1>1, <1>4, <2>1, <1>0 DEF TypeOK
    <3>2. v # None BY NoneAssumption
    <3>3. {a \in Apis : gateway'[c][a].project = t} = A
      BY <1>3, <3>1, NoneAssumption DEF Online, Offline
    <3>4. \A a \in A : gateway'[c][a].version = v BY <1>3, <3>1 DEF Online
    <3>5. Serves(c, t, v)' BY <1>1, <1>3, <2>1, <3>2, <3>3, <3>4 DEF Serves
    <3>6. Reached(h, c)' BY <1>1, <1>2 DEF Reached
    <3> QED BY <1>2, <2>1, <2>2, <3>5, <3>6
  <2>3. CASE d # c
    <3>1. gateway'[d] = gateway[d] BY <1>1, <2>3, <1>0 DEF TypeOK
    <3>2. Reached(h, d)' <=> Reached(h, d) BY <1>1, <1>2, <2>3 DEF Reached
    <3>3. \A w : Serves(d, t, w) => Serves(d, t, w)' BY <1>1, <3>1 DEF Serves
    <3>4. PICK u : u = running[t] OBVIOUS
    <3>5. Reached(h, d) => Serves(d, t, v) BY <1>0, <2>1 DEF Clustered
    <3>6. ~ Reached(h, d) => Serves(d, t, u) BY <1>0, <1>2, <3>4 DEF Clustered
    <3> QED BY <1>1, <1>2, <2>1, <3>2, <3>3, <3>4, <3>5, <3>6
  <2> QED BY <2>2, <2>3
<1> QED BY <1>5, <1>6, <1>7 DEF ReliableInv

\* All clusters have been reached: what they serve is recorded.
LEMMA ReliableCommit ==
  ASSUME Alone, ReliableInv, TypeOK', Provenance', NEW h \in Handlers, PublishCommit(h)
  PROVE  ReliableInv'
<1>0. TypeOK /\ Provenance /\ Drawn /\ Prepared /\ Clustered BY DEF ReliableInv
<1> DEFINE s == req[h].service
           f == req[h].flow
           r == req[h].release
<1>1. /\ pc[h] = "publishCluster" /\ req[h].todo = {}
      /\ UNCHANGED <<release, commits, minted, gateway>>
      /\ running' = [running EXCEPT ![s] = r]
      /\ \E st : flow' = [flow EXCEPT ![f].status = st]
      /\ pc' = [pc EXCEPT ![h] = "idle"]
  BY DEF PublishCommit, SetStatus, Finish
<1>2. \A k \in Handlers : pc'[k] = "idle" /\ k = h BY <1>0, <1>1 DEF Alone, TypeOK
<1>3. r \in minted /\ r \in Releases BY <1>0, <1>1, PublishedDrawn
<1>4. f \in Flows /\ flow[f] # NoFlow /\ s \in Services /\ (\A t \in Services : t = s)
  BY <1>0, <1>1 DEF Alone, Provenance, RequestProvenance, FlowProvenance
<1>5. \A g \in Flows : flow'[g].release = flow[g].release /\ (flow'[g] # NoFlow => flow[g] # NoFlow)
  BY <1>0, <1>1, <1>4 DEF TypeOK, FlowRow
<1>6. \A t \in Services : running'[t] = r BY <1>0, <1>1, <1>4 DEF TypeOK
<1>7. Drawn' BY <1>0, <1>1, <1>2, <1>3, <1>5, <1>6 DEF Drawn
<1>8. Prepared' BY <1>2 DEF Prepared
<1>9. Clustered'
  <2> SUFFICES ASSUME NEW c \in Clusters, NEW t \in Services PROVE Serves(c, t, running[t])'
    BY <1>2 DEF Clustered, Reached
  <2>1. PICK v \in Releases : v = r BY <1>3
  <2>2. Reached(h, c) BY <1>1 DEF Reached
  <2>3. Serves(c, t, v) BY <1>0, <2>1, <2>2 DEF Clustered
  <2>4. Serves(c, t, v)' BY <1>1, <2>3 DEF Serves
  <2> QED BY <1>6, <2>1, <2>4
<1> QED BY <1>7, <1>8, <1>9 DEF ReliableInv

\* No release comes or goes.
LEMMA SameReleases ==
  ASSUME Drawn, UNCHANGED <<release, commits, minted>>
  PROVE  ReleasesKept
BY DEF Drawn, ReleasesKept

\* No flow comes, and those there are keep their releases.
LEMMA SameDrawn ==
  ASSUME ReliableInv, FlowsKept, \A f \in Flows : flow'[f] # NoFlow => flow[f] # NoFlow,
         minted \subseteq minted'
  PROVE  \A f \in Flows : flow'[f] # NoFlow => flow'[f].release \in minted'
BY DEF ReliableInv, Drawn, FlowsKept

\* A flow's status changes.
LEMMA StatusFlows ==
  ASSUME TypeOK, NEW f, flow[f] # NoFlow, NEW st, flow' = [flow EXCEPT ![f].status = st]
  PROVE  \A g \in Flows : flow'[g] # NoFlow => flow[g] # NoFlow
BY DEF TypeOK

LEMMA InsertKept ==
  ASSUME ReliableInv, NEW s \in Services, NEW r \in Releases, NEW A \in SUBSET Apis,
         InsertRelease(s, r, A)
  PROVE  ReleasesKept /\ UNCHANGED <<flow, running, gateway>>
<1>1. /\ r \notin minted /\ A # {} /\ minted' = minted \cup {r}
      /\ release' = [release EXCEPT ![r] = s] /\ commits' = [commits EXCEPT ![r] = A]
      /\ UNCHANGED <<flow, running, gateway>>
  BY DEF InsertRelease
<1>2. \A q \in Releases \ {r} : release'[q] = release[q] /\ commits'[q] = commits[q]
  BY <1>1 DEF ReliableInv, TypeOK
<1>3. commits'[r] = A BY <1>1 DEF ReliableInv, TypeOK
<1> QED BY <1>1, <1>2, <1>3 DEF ReliableInv, Drawn, ReleasesKept

LEMMA RemoveKept ==
  ASSUME ReliableInv, NEW r, RemoveRelease(r)
  PROVE  ReleasesKept /\ UNCHANGED <<flow, running, gateway>>
<1>1. /\ release' = [release EXCEPT ![r] = None] /\ commits' = [commits EXCEPT ![r] = {}]
      /\ UNCHANGED <<minted, flow, running, gateway>>
  BY DEF RemoveRelease
<1>2. \A q \in Releases \ {r} : release'[q] = release[q] /\ commits'[q] = commits[q]
  BY <1>1 DEF ReliableInv, TypeOK
<1>3. r \in Releases => release'[r] = None BY <1>1 DEF ReliableInv, TypeOK
<1> QED BY <1>1, <1>2, <1>3 DEF ReliableInv, Drawn, ReleasesKept

\* A request is over, or ends without having gone to the clusters.
LEMMA EndsKept ==
  ASSUME TypeOK, NEW h \in Handlers, pc[h] # "publishCluster", Finish(h) \/ OnError(h)
  PROVE  \A k \in Handlers : RequestKept(k)
BY DEF TypeOK, Finish, OnError, Goto, RequestKept

\* A request goes to a step before it publishes.
LEMMA GoesKept ==
  ASSUME TypeOK, NEW h \in Handlers, pc[h] # "publishCluster",
         NEW l \in PCs \ {"applyCreate", "publishWait", "publishCluster"}, Goto(h, l),
         \A k \in Handlers \ {h} : req'[k] = req[k]
  PROVE  \A k \in Handlers : RequestKept(k)
BY DEF TypeOK, Goto, RequestKept

LEMMA ReliableShort ==
  ASSUME ReliableInv, TypeOK', Provenance', FlowsKept, ShortRequest
  PROVE  ReliableInv'
<1>0. TypeOK /\ Provenance /\ Drawn BY DEF ReliableInv
<1>1. ASSUME NEW s \in Services, NEW r \in Releases, NEW A \in SUBSET Apis, CreateRelease(s, r, A)
      PROVE  ReliableInv'
  <2>1. \A k \in Handlers : RequestKept(k) BY <1>1 DEF CreateRelease, RequestKept
  <2>2. ReleasesKept /\ UNCHANGED <<flow, running, gateway>> BY <1>1, InsertKept DEF CreateRelease
  <2> QED BY <2>1, <2>2, SameDrawn, ReliableKept DEF ReleasesKept
<1>2. ASSUME NEW s \in Services, NEW r \in Releases, DeleteRelease(s, r)
      PROVE  ReliableInv'
  <2>1. \A k \in Handlers : RequestKept(k) BY <1>2 DEF DeleteRelease, RequestKept
  <2>2. ReleasesKept /\ UNCHANGED <<flow, running, gateway>> BY <1>2, RemoveKept DEF DeleteRelease
  <2> QED BY <2>1, <2>2, SameDrawn, ReliableKept DEF ReleasesKept
<1>3. ASSUME NEW s \in Services, NEW f \in Flows, Accept(s, f) \/ Refuse(s, f)
      PROVE  ReliableInv'
  <2>1. PICK st \in {"accept", "refuse"} : SetAction(s, f, st) BY <1>3 DEF Accept, Refuse
  <2>2. \A k \in Handlers : RequestKept(k) BY <1>3 DEF Accept, Refuse, RequestKept
  <2>3. /\ UNCHANGED <<release, commits, minted, running, gateway>>
        /\ flow' = [flow EXCEPT ![f].status = st]
    BY <2>1 DEF SetAction
  <2>4. flow[f] # NoFlow BY <1>0, <2>1, ActionWritten
  <2>5. ReleasesKept BY <1>0, <2>3, SameReleases
  <2>6. \A g \in Flows : flow'[g] # NoFlow => flow[g] # NoFlow BY <1>0, <2>3, <2>4, StatusFlows
  <2> QED BY <2>2, <2>3, <2>5, <2>6, SameDrawn, ReliableKept
<1> QED BY <1>1, <1>2, <1>3 DEF ShortRequest

LEMMA ReliableBegin ==
  ASSUME ReliableInv, TypeOK', Provenance', FlowsKept, NEW h \in Handlers, Begin(h)
  PROVE  ReliableInv'
<1>0. TypeOK /\ Provenance /\ Drawn BY DEF ReliableInv
<1>1. ASSUME NEW s \in Services, NEW r \in Releases, NEW A \in SUBSET Apis,
             NEW op \in {"apply", "do"}, CreateAndApply(h, s, r, A, op)
      PROVE  ReliableInv'
  <2>1. \A k \in Handlers : RequestKept(k) BY <1>0, <1>1, GoesKept DEF CreateAndApply, PCs, TypeOK
  <2>2. ReleasesKept /\ UNCHANGED <<flow, running, gateway>> BY <1>1, InsertKept DEF CreateAndApply
  <2> QED BY <2>1, <2>2, SameDrawn, ReliableKept DEF ReleasesKept
<1>2. ASSUME NEW s \in Services,
             \/ \E r \in Releases : ApplyStart(h, s, r)
             \/ \E f \in Flows : StopRead(h, s, f) \/ PublishStart(h, s, f)
      PROVE  ReliableInv'
  <2>1. UNCHANGED <<store, gateway>> /\ pc[h] = "idle" /\ \A k \in Handlers \ {h} : req'[k] = req[k]
    BY <1>0, <1>2 DEF ApplyStart, StopRead, PublishStart, TypeOK
  <2>2. PICK l \in {"applyRead", "stopWrite", "publishInfo"} : Goto(h, l)
    BY <1>2 DEF ApplyStart, StopRead, PublishStart
  <2>3. \A k \in Handlers : RequestKept(k) BY <1>0, <2>1, <2>2, GoesKept DEF PCs
  <2>4. ReleasesKept BY <1>0, <2>1, SameReleases DEF store
  <2> QED BY <2>1, <2>3, <2>4, SameDrawn, ReliableKept DEF store
<1> QED BY <1>1, <1>2 DEF Begin

LEMMA ReliableContinue ==
  ASSUME Alone, ReliableInv, TypeOK', Provenance', FlowsKept, NEW h \in Handlers, Continue(h)
  PROVE  ReliableInv'
<1>0. TypeOK /\ Provenance /\ Drawn /\ Prepared /\ RequestProvenance(h)
  BY DEF ReliableInv, Provenance
<1>1. ASSUME UNCHANGED <<release, commits, minted, flow, running, gateway>>,
             \A k \in Handlers : RequestKept(k)
      PROVE  ReliableInv'
  BY <1>0, <1>1, SameReleases, SameDrawn, ReliableKept
<1>2. CASE ApplyCheck(h) \/ PublishRead(h) \/ Fail(h)
  <2>1. UNCHANGED <<release, commits, minted, flow, running, gateway>> /\ pc[h] # "publishCluster"
    BY <1>2 DEF ApplyCheck, PublishRead, Fail, store
  <2>2. \/ Finish(h) \/ OnError(h)
        \/ (\E l \in {"applyRead", "publishInfo"} : Goto(h, l)) /\ UNCHANGED req
    BY <1>2 DEF ApplyCheck, PublishRead, Fail
  <2>3. \A k \in Handlers : RequestKept(k) BY <1>0, <2>1, <2>2, EndsKept, GoesKept DEF PCs
  <2> QED BY <1>1, <2>1, <2>3
<1>3. CASE ApplyRead(h)
  <2>1. UNCHANGED <<release, commits, minted, flow, running, gateway>> /\ pc[h] = "applyRead"
    BY <1>3 DEF ApplyRead, store
  <2>2. CASE Finish(h) BY <1>0, <1>1, <2>1, <2>2, EndsKept
  <2>3. CASE release[req[h].release] # None /\ Goto(h, "applyCreate") /\ UNCHANGED req
    <3>1. req[h].release \in Releases BY <1>0, <2>1 DEF RequestProvenance
    <3>2. req[h].release \in minted BY <1>0, <2>3, <3>1 DEF Drawn
    <3>3. \A k \in Handlers : RequestKept(k)
      BY <1>0, <2>1, <2>3, <3>2 DEF RequestKept, Goto, TypeOK
    <3> QED BY <1>1, <2>1, <3>3
  <2> QED BY <1>3, <2>2, <2>3 DEF ApplyRead
<1>4. ASSUME NEW f \in Flows, ApplyCreate(h, f) PROVE ReliableInv'
  <2>1. /\ pc[h] = "applyCreate" /\ UNCHANGED <<release, commits, minted, running, gateway>>
        /\ \E st, s : flow' = [flow EXCEPT ![f] = [status |-> st, service |-> s, release |-> req[h].release]]
    BY <1>4 DEF ApplyCreate
  <2>2. req[h].release \in minted BY <1>0, <2>1 DEF Drawn
  <2>3. \A g \in Flows : flow'[g] # NoFlow => flow'[g].release \in minted
    BY <1>0, <2>1, <2>2 DEF Drawn, TypeOK
  <2>4. CASE Finish(h)
    BY <1>0, <2>1, <2>3, <2>4, EndsKept, SameReleases, ReliableKept
  <2>5. CASE Goto(h, "accept") /\ req' = [req EXCEPT ![h].flow = f]
    <3>1. \A k \in Handlers : RequestKept(k) BY <1>0, <2>1, <2>5, GoesKept DEF TypeOK, PCs
    <3> QED BY <1>0, <2>1, <2>3, <3>1, SameReleases, ReliableKept
  <2> QED BY <1>4, <2>4, <2>5 DEF ApplyCreate
<1>5. CASE AcceptStep(h) \/ StopWrite(h)
  <2>1. /\ pc[h] # "publishCluster" /\ UNCHANGED <<release, commits, minted, running, gateway>>
        /\ flow[req[h].flow] # NoFlow
        /\ \E st : flow' = [flow EXCEPT ![req[h].flow].status = st]
    BY <1>0, <1>5 DEF AcceptStep, StopWrite, SetAction, SetStatus, RequestProvenance
  <2>2. \A g \in Flows : flow'[g] # NoFlow => flow[g] # NoFlow BY <1>0, <2>1, StatusFlows
  <2>3. Finish(h) \/ (Goto(h, "publishRead") /\ UNCHANGED req)
    BY <1>5 DEF AcceptStep, StopWrite
  <2>4. \A k \in Handlers : RequestKept(k) BY <1>0, <2>1, <2>3, EndsKept, GoesKept DEF PCs
  <2> QED BY <1>0, <2>1, <2>2, <2>4, SameReleases, SameDrawn, ReliableKept
<1>6. CASE PublishInfo(h)
  <2>1. /\ pc[h] = "publishInfo" /\ UNCHANGED <<release, commits, minted, flow, running, gateway>>
        /\ req' = [req EXCEPT ![h].apis = ReleaseApis(req[h].release), ![h].todo = Clusters]
        /\ pc' = [pc EXCEPT ![h] = "publishWait"]
    BY <1>6 DEF PublishInfo, store, Goto
  <2>2. PICK r \in Releases : r = req[h].release /\ r \in minted BY <1>0, <2>1, PublishedDrawn
  <2>3. ReleaseApis(r) # {} /\ (release[r] # None => ReleaseApis(r) = commits[r])
    BY <1>0, <2>2 DEF Drawn, ReleaseApis
  <2>4. req'[h].apis = ReleaseApis(r) /\ req'[h].release = r /\ req'[h].todo = Clusters
    BY <1>0, <2>1, <2>2 DEF TypeOK, Request
  <2>5. \A k \in Handlers : RequestKept(k)
    BY <1>0, <2>1, <2>3, <2>4 DEF RequestKept, TypeOK
  <2> QED BY <1>1, <2>1, <2>5
<1>7. CASE PublishBegin(h)
  <2>1. /\ pc[h] = "publishWait" /\ UNCHANGED <<release, commits, minted, flow, running, gateway>>
        /\ req' = [req EXCEPT ![h].status = "publishing"]
        /\ pc' = [pc EXCEPT ![h] = "publishCluster"]
    BY <1>7 DEF PublishBegin, store, Goto
  <2>2. /\ req'[h].apis = req[h].apis /\ req'[h].release = req[h].release
        /\ req'[h].todo = Clusters
    BY <1>0, <2>1 DEF TypeOK, Request, Prepared
  <2>3. \A k \in Handlers : RequestKept(k) BY <1>0, <2>1, <2>2 DEF RequestKept, TypeOK
  <2> QED BY <1>1, <2>1, <2>3
<1>8. CASE Cleanup(h)
  <2>1. pc[h] # "publishCluster" /\ Finish(h) BY <1>8 DEF Cleanup
  <2>2. \A k \in Handlers : RequestKept(k) BY <1>0, <2>1, EndsKept
  <2>3. CASE RemoveRelease(req[h].release)
    BY <2>2, <2>3, RemoveKept, SameDrawn, ReliableKept DEF ReleasesKept
  <2>4. CASE UNCHANGED <<store, gateway>> BY <1>1, <2>2, <2>4 DEF store
  <2> QED BY <1>8, <2>3, <2>4 DEF Cleanup
<1> QED
  BY <1>2, <1>3, <1>4, <1>5, <1>6, <1>7, <1>8, ReliableOnline, ReliableCommit DEF Continue, Proceed

LEMMA ReliableNext ==
  ASSUME Alone, ReliableInv, [NextReliable]_vars
  PROVE  ReliableInv'
<1>1. TypeOK' /\ Provenance' /\ FlowsKept
  BY TypeNext, ProvenanceNext DEF ReliableInv, NextReliable, Next, ProvenanceKept
<1>2. CASE UNCHANGED vars
  <2>1. \A k \in Handlers : RequestKept(k) BY <1>2 DEF vars, RequestKept
  <2> QED BY <1>1, <1>2, <2>1, SameReleases, SameDrawn, ReliableKept DEF vars, store, ReliableInv
<1>3. CASE NextReliable
  BY <1>1, <1>3, ReliableShort, ReliableBegin, ReliableContinue DEF NextReliable
<1> QED BY <1>2, <1>3

LEMMA ReliableMatches ==
  ASSUME ReliableInv
  PROVE  GatewayMatchesRunning
<1> SUFFICES ASSUME \A h \in Handlers : pc[h] = "idle", NEW c \in Clusters, NEW s \in Services
             PROVE  LET routers == {a \in Apis : gateway[c][a].project = s}
                    IN /\ {gateway[c][a].version : a \in routers} = {running[s]} \ {None}
                       /\ GetRunning(s) # None => routers = commits[running[s]]
  BY DEF GatewayMatchesRunning
<1> DEFINE routers == {a \in Apis : gateway[c][a].project = s}
<1>1. Serves(c, s, running[s]) BY DEF ReliableInv, Clustered, Reached
<1>2. {gateway[c][a].version : a \in routers} = {running[s]} \ {None} BY <1>1 DEF Serves
<1>3. GetRunning(s) # None => routers = commits[running[s]] BY <1>1 DEF Serves, GetRunning
<1> QED BY <1>2, <1>3

\* When requests come one at a time, of one service, and the gateway and the transactions
\* do not fail, all clusters serve the running release of the service between them.
THEOREM MatchesRunning ==
  ASSUME Alone
  PROVE  Init /\ [][NextReliable]_vars => []GatewayMatchesRunning
<1>1. ReliableInv /\ [NextReliable]_vars => ReliableInv' BY ReliableNext
<1>2. ReliableInv => GatewayMatchesRunning BY ReliableMatches
<1> QED BY <1>1, <1>2, ReliableInit, PTL

-----------------------------------------------------------------------------
(* The status row of a flow.                                               *)

\* What a request that publishes on one cluster has to write: before the cluster has
\* answered nothing failed, afterwards its answer, unless it could not be written.
Attempt(h) ==
  /\ pc[h] \notin {"publishCluster", "cleanup"} => ~ req[h].failed /\ ~ req[h].unsaid
  /\ pc[h] = "publishWait" => req[h].todo = Clusters
  /\ pc[h] = "publishCluster" =>
       \/ req[h].todo = Clusters /\ ~ req[h].failed /\ ~ req[h].unsaid
       \/ /\ req[h].todo = {}
          /\ req[h].unsaid \/ req[h].status = IF req[h].failed THEN "error" ELSE "done"

RowsInv == StatusRowAgrees /\ \A h \in Handlers : Attempt(h)

\* A step that writes neither published statuses nor their rows.
RowsSame ==
  /\ UNCHANGED <<publishStatus, unsaid>>
  /\ \A f \in Flows : flow'[f].status \in {"done", "error"} => flow'[f].status = flow[f].status

LEMMA SameRowsAgree == ASSUME StatusRowAgrees, RowsSame PROVE StatusRowAgrees'
BY DEF StatusRowAgrees, RowsSame

\* A request that ends, begins or goes on to another step than the transaction has no
\* failure on record, and the others are where they were.
LEMMA AttemptsKept ==
  ASSUME TypeOK, \A k \in Handlers : Attempt(k), NEW h \in Handlers, Attempt(h)',
         \A k \in Handlers \ {h} : pc'[k] = pc[k] /\ req'[k] = req[k]
  PROVE  \A k \in Handlers : Attempt(k)'
BY DEF Attempt

LEMMA EndsAttempt ==
  ASSUME TypeOK, \A k \in Handlers : Attempt(k), NEW h \in Handlers, Finish(h) \/ OnError(h)
  PROVE  \A k \in Handlers : Attempt(k)'
<1>1. \A k \in Handlers \ {h} : pc'[k] = pc[k] /\ req'[k] = req[k]
  BY DEF Finish, OnError, Goto, TypeOK
<1>2. pc'[h] = "cleanup" \/ (pc'[h] = "idle" /\ req'[h] = NoRequest)
  BY DEF Finish, OnError, Goto, TypeOK
<1>3. NoRequest.failed = FALSE /\ NoRequest.unsaid = FALSE BY DEF NoRequest
<1>4. Attempt(h)' BY <1>2, <1>3 DEF Attempt
<1> QED BY <1>1, <1>4, AttemptsKept

LEMMA GoesAttempt ==
  ASSUME TypeOK, \A k \in Handlers : Attempt(k), NEW h \in Handlers,
         pc[h] \notin {"publishCluster", "cleanup"}, NEW l \in PCs \ {"publishCluster"}, Goto(h, l),
         req'[h].failed = req[h].failed, req'[h].unsaid = req[h].unsaid,
         l = "publishWait" => req'[h].todo = Clusters, \A k \in Handlers \ {h} : req'[k] = req[k]
  PROVE  \A k \in Handlers : Attempt(k)'
<1>1. pc'[h] = l /\ \A k \in Handlers \ {h} : pc'[k] = pc[k] BY DEF Goto, TypeOK
<1>2. Attempt(h)' BY <1>1 DEF Attempt
<1> QED BY <1>1, <1>2, AttemptsKept

\* The first step of a request.
LEMMA BeginsAttempt ==
  ASSUME TypeOK, \A k \in Handlers : Attempt(k), NEW h \in Handlers, Begin(h)
  PROVE  \A k \in Handlers : Attempt(k)'
<1>1. \A k \in Handlers \ {h} : pc'[k] = pc[k] /\ req'[k] = req[k]
  BY DEF Begin, ApplyStart, CreateAndApply, StopRead, PublishStart, Goto, TypeOK
<1>2. pc'[h] \in {"applyRead", "applyCheck", "stopWrite", "publishInfo"}
  BY DEF Begin, ApplyStart, CreateAndApply, StopRead, PublishStart, Goto, TypeOK
<1>3. req'[h].failed = FALSE /\ req'[h].unsaid = FALSE
  <2>1. ASSUME NEW s, NEW r, ApplyStart(h, s, r) PROVE req'[h].failed = FALSE /\ req'[h].unsaid = FALSE
    BY <2>1 DEF ApplyStart, TypeOK, NoRequest
  <2>2. ASSUME NEW s, NEW r, NEW A, NEW op, CreateAndApply(h, s, r, A, op)
        PROVE  req'[h].failed = FALSE /\ req'[h].unsaid = FALSE
    BY <2>2 DEF CreateAndApply, TypeOK, NoRequest
  <2>3. ASSUME NEW s, NEW f, StopRead(h, s, f) PROVE req'[h].failed = FALSE /\ req'[h].unsaid = FALSE
    BY <2>3 DEF StopRead, TypeOK, NoRequest
  <2>4. ASSUME NEW s, NEW f, PublishStart(h, s, f) PROVE req'[h].failed = FALSE /\ req'[h].unsaid = FALSE
    BY <2>4 DEF PublishStart, TypeOK, NoRequest
  <2> QED BY <2>1, <2>2, <2>3, <2>4 DEF Begin
<1>4. Attempt(h)' BY <1>2, <1>3 DEF Attempt
<1> QED BY <1>1, <1>4, AttemptsKept

\* A cluster answers, or its row is refused: it is the only one.
LEMMA ClusterAttempt ==
  ASSUME TypeOK, \A k \in Handlers : Attempt(k), NEW h \in Handlers, NEW c, Clusters = {c},
         ClusterDone(h, c) \/ ClusterFailed(h, c) \/ RowRefused(h, c)
  PROVE  \A k \in Handlers : Attempt(k)'
<1>1. PICK st \in {"done", "error"}, b \in BOOLEAN :
        /\ ClusterEnds(h, c, st, b) \/ RowRefused(h, c)
        /\ st = IF b THEN "error" ELSE "done"
  BY DEF ClusterDone, ClusterFailed
<1>2. /\ c \in req[h].todo /\ req'[h].todo = req[h].todo \ {c}
      /\ pc[h] \in {"publishWait", "publishCluster"}
      /\ \A k \in Handlers \ {h} : pc'[k] = pc[k] /\ req'[k] = req[k]
  BY <1>1, ClusterStep
<1>3. req[h].todo = Clusters /\ ~ req[h].failed /\ ~ req[h].unsaid BY <1>2 DEF Attempt
<1>4. req'[h].todo = {} BY <1>2, <1>3
<1>5. CASE ClusterEnds(h, c, st, b)
  <2>1. PICK said \in BOOLEAN :
          req' = [req EXCEPT ![h].todo = @ \ {c}, ![h].failed = @ \/ b,
                             ![h].status = IF said THEN st ELSE "publishing",
                             ![h].unsaid = @ \/ ~ said]
    BY <1>5 DEF ClusterEnds
  <2>2. /\ req'[h].failed = (req[h].failed \/ b) /\ req'[h].unsaid = (req[h].unsaid \/ ~ said)
        /\ req'[h].status = IF said THEN st ELSE "publishing"
    BY <2>1 DEF TypeOK, Request
  <2>3. pc'[h] = "publishCluster" BY <1>5 DEF ClusterEnds
  <2>4. Attempt(h)'
    <3>1. CASE said BY <1>1, <1>3, <1>4, <2>2, <2>3, <3>1 DEF Attempt
    <3>2. CASE ~ said BY <1>4, <2>2, <2>3, <3>2 DEF Attempt
    <3> QED BY <3>1, <3>2
  <2> QED BY <1>2, <2>4, AttemptsKept
<1>6. CASE RowRefused(h, c)
  <2>1. req'[h].unsaid = TRUE BY <1>6 DEF RowRefused, TypeOK, Request
  <2>2. pc'[h] = "publishCluster" BY <1>3, <1>6 DEF RowRefused, TypeOK
  <2>3. Attempt(h)' BY <1>4, <2>1, <2>2 DEF Attempt
  <2> QED BY <1>2, <2>3, AttemptsKept
<1> QED BY <1>1, <1>5, <1>6

\* Writing a status that is not a published one.
LEMMA OtherStatus ==
  ASSUME TypeOK, NEW g \in Flows, NEW st, st \notin {"done", "error"},
         flow' = [flow EXCEPT ![g].status = st], UNCHANGED <<publishStatus, unsaid>>
  PROVE  RowsSame
<1>1. flow'[g].status = st BY DEF TypeOK, FlowRow
<1>2. \A f \in Flows \ {g} : flow'[f] = flow[f] BY DEF TypeOK
<1> QED BY <1>1, <1>2 DEF RowsSame

LEMMA RowsInit == Init => RowsInv
<1> SUFFICES ASSUME Init PROVE RowsInv OBVIOUS
<1>1. \A f \in Flows : flow[f].status = "none" /\ publishStatus[f] = "none" BY DEF Init, NoFlow
<1>2. \A h \in Handlers : pc[h] = "idle" /\ req[h].failed = FALSE /\ req[h].unsaid = FALSE
  BY DEF Init, NoRequest
<1> QED BY <1>1, <1>2 DEF RowsInv, StatusRowAgrees, Attempt

LEMMA CommitRows ==
  ASSUME TypeOK, Provenance, RowsInv, NEW h \in Handlers, NEW c, Clusters = {c}, PublishCommit(h)
  PROVE  RowsInv'
<1> DEFINE f == req[h].flow
           st == IF req[h].failed THEN "error" ELSE "done"
<1>1. pc[h] = "publishCluster" /\ req[h].todo = {} BY DEF PublishCommit
<1>2. f \in Flows BY <1>1 DEF Provenance, RequestProvenance
<1>3. req[h].unsaid \/ req[h].status = st BY <1>1, <1>2 DEF RowsInv, Attempt
<1>4. st \in {"done", "error"} OBVIOUS
<1> DEFINE row == IF req[h].status = "none" THEN publishStatus[f] ELSE req[h].status
<1>5. /\ flow' = [flow EXCEPT ![f].status = st] /\ publishStatus' = [publishStatus EXCEPT ![f] = row]
      /\ unsaid' = IF req[h].unsaid THEN unsaid \cup {f} ELSE unsaid \ {f}
  BY DEF PublishCommit, SetStatus
<1>6. \A k \in Handlers : Attempt(k)' BY EndsAttempt DEF PublishCommit, RowsInv
<1>7. ~ req[h].unsaid => row = st BY <1>3, <1>4
<1> HIDE DEF st, f, row
<1>8. /\ flow'[f].status = st /\ publishStatus'[f] = row
      /\ \A g \in Flows \ {f} : flow'[g] = flow[g] /\ publishStatus'[g] = publishStatus[g]
  BY <1>2, <1>5 DEF TypeOK, FlowRow
<1>9. StatusRowAgrees'
  <2> SUFFICES ASSUME NEW g \in Flows \ unsaid'
               PROVE  /\ flow'[g].status \in {"done", "error"} => publishStatus'[g] = flow'[g].status
                      /\ publishStatus'[g] # "publishing"
    BY DEF StatusRowAgrees
  <2>1. CASE g = f BY <1>4, <1>5, <1>7, <1>8, <2>1
  <2>2. CASE g # f BY <1>5, <1>8, <2>2 DEF RowsInv, StatusRowAgrees
  <2> QED BY <2>1, <2>2
<1> QED BY <1>6, <1>9 DEF RowsInv

LEMMA RowsNext ==
  ASSUME TypeOK, Provenance, RowsInv, NEW c, Clusters = {c}, [Next]_vars
  PROVE  RowsInv'
<1>0. (\A k \in Handlers : Attempt(k)) /\ StatusRowAgrees BY DEF RowsInv
<1>1. CASE UNCHANGED vars BY <1>0, <1>1 DEF vars, store, RowsInv, StatusRowAgrees, Attempt
<1>2. ASSUME RowsSame, \A k \in Handlers : Attempt(k)' PROVE RowsInv'
  BY <1>0, <1>2, SameRowsAgree DEF RowsInv
<1>3. ASSUME NEW s, NEW f \in Flows, NEW st \in {"accept", "refuse"}, SetAction(s, f, st) PROVE RowsSame
  BY <1>3, OtherStatus DEF SetAction
<1>4. CASE ShortRequest
  <2>1. \A k \in Handlers : Attempt(k)'
    BY <1>0, <1>4 DEF ShortRequest, CreateRelease, DeleteRelease, Accept, Refuse, Attempt
  <2>2. RowsSame
    BY <1>3, <1>4 DEF ShortRequest, CreateRelease, InsertRelease, DeleteRelease, RemoveRelease,
                      Accept, Refuse, RowsSame
  <2> QED BY <1>2, <2>1, <2>2
<1>5. ASSUME NEW h \in Handlers, Begin(h) PROVE RowsInv'
  <2>1. RowsSame
    BY <1>5 DEF Begin, ApplyStart, CreateAndApply, InsertRelease, StopRead, PublishStart, store, RowsSame
  <2> QED BY <1>0, <1>2, <1>5, <2>1, BeginsAttempt
<1>6. ASSUME NEW h \in Handlers, UNCHANGED <<flow, publishStatus, unsaid>>, Finish(h) \/ OnError(h)
      PROVE  RowsInv'
  BY <1>0, <1>2, <1>6, EndsAttempt DEF RowsSame
<1>7. ASSUME NEW h \in Handlers, UNCHANGED <<flow, publishStatus, unsaid>>,
             pc[h] \notin {"publishCluster", "cleanup"}, NEW l \in PCs \ {"publishCluster"}, Goto(h, l),
             req'[h].failed = req[h].failed, req'[h].unsaid = req[h].unsaid,
             l = "publishWait" => req'[h].todo = Clusters, \A k \in Handlers \ {h} : req'[k] = req[k]
      PROVE  RowsInv'
  BY <1>0, <1>2, <1>7, GoesAttempt DEF RowsSame
<1>8. ASSUME NEW h \in Handlers, Continue(h) PROVE RowsInv'
  <2>1. CASE ApplyCheck(h) BY <1>6, <1>7, <2>1 DEF ApplyCheck, store, PCs
  <2>2. CASE ApplyRead(h) BY <1>6, <1>7, <2>2 DEF ApplyRead, store, PCs
  <2>3. ASSUME NEW f \in Flows, ApplyCreate(h, f) PROVE RowsInv'
    <3>1. RowsSame
      <4>1. flow'[f].status = "apply" /\ (\A g \in Flows \ {f} : flow'[g] = flow[g])
            /\ UNCHANGED <<publishStatus, unsaid>>
        BY <2>3 DEF ApplyCreate, TypeOK
      <4> QED BY <4>1 DEF RowsSame
    <3>2. CASE Finish(h) BY <1>0, <1>2, <3>1, <3>2, EndsAttempt
    <3>3. CASE Goto(h, "accept") /\ req' = [req EXCEPT ![h].flow = f]
      <4>1. req'[h].failed = req[h].failed /\ req'[h].unsaid = req[h].unsaid /\ \A k \in Handlers \ {h} : req'[k] = req[k]
        BY <3>3 DEF TypeOK, Request
      <4>2. pc[h] \notin {"publishCluster", "cleanup"} BY <2>3 DEF ApplyCreate
      <4>3. "accept" \in PCs \ {"publishCluster"} BY DEF PCs
      <4> QED BY <1>0, <1>2, <3>1, <3>3, <4>1, <4>2, <4>3, GoesAttempt
    <3> QED BY <2>3, <3>2, <3>3 DEF ApplyCreate
  <2>4. CASE AcceptStep(h)
    <3>1. req[h].flow \in Flows BY <2>4 DEF AcceptStep, Provenance, RequestProvenance
    <3>2. RowsSame BY <1>3, <2>4, <3>1 DEF AcceptStep
    <3>3. \A k \in Handlers : Attempt(k)' BY <1>0, <2>4, GoesAttempt DEF AcceptStep, PCs
    <3> QED BY <1>2, <3>2, <3>3
  <2>5. CASE StopWrite(h)
    <3>1. req[h].flow \in Flows /\ req[h].status \in {"stop", "close"}
      BY <2>5 DEF StopWrite, Provenance, RequestProvenance
    <3>2. RowsSame BY <2>5, <3>1, OtherStatus DEF StopWrite, SetStatus
    <3> QED BY <1>0, <1>2, <2>5, <3>2, EndsAttempt DEF StopWrite
  <2>6. CASE PublishRead(h) BY <1>6, <1>7, <2>6 DEF PublishRead, store, PCs
  <2>7. CASE PublishInfo(h)
    <3>1. /\ req'[h].failed = req[h].failed /\ req'[h].unsaid = req[h].unsaid
          /\ req'[h].todo = Clusters /\ \A k \in Handlers \ {h} : req'[k] = req[k]
      BY <2>7 DEF PublishInfo, TypeOK, Request
    <3> QED BY <1>7, <2>7, <3>1 DEF PublishInfo, store, PCs
  <2>8. CASE PublishBegin(h)
    <3>1. /\ pc[h] = "publishWait" /\ pc'[h] = "publishCluster" /\ req'[h].todo = req[h].todo
          /\ req'[h].failed = req[h].failed /\ req'[h].unsaid = req[h].unsaid
          /\ \A k \in Handlers \ {h} : pc'[k] = pc[k] /\ req'[k] = req[k]
      BY <2>8 DEF PublishBegin, Goto, TypeOK, Request
    <3>2. Attempt(h)' BY <1>0, <3>1 DEF Attempt
    <3>3. RowsSame BY <2>8 DEF PublishBegin, store, RowsSame
    <3> QED BY <1>0, <1>2, <3>1, <3>2, <3>3, AttemptsKept
  <2>9. ASSUME NEW d \in Clusters, ClusterOnline(h, d) PROVE RowsInv'
    BY <1>0, <1>2, <2>9, ClusterAttempt DEF ClusterOnline, ClusterDone, ClusterEnds, store, RowsSame
  <2>10. CASE PublishCommit(h) BY <2>10, CommitRows
  <2>11. CASE Cleanup(h) BY <1>6, <2>11 DEF Cleanup, RemoveRelease, store
  <2>12. CASE Fail(h) BY <1>6, <2>12 DEF Fail, store
  <2> QED BY <1>8, <2>1, <2>2, <2>3, <2>4, <2>5, <2>6, <2>7, <2>8, <2>9, <2>10, <2>11, <2>12
          DEF Continue, Proceed
<1>9. ASSUME NEW h \in Handlers, GoWrong(h) PROVE RowsInv'
  <2>1. ASSUME NEW d \in Clusters,
               ClusterCommitLost(h, d) \/ ClusterFailed(h, d) \/ RowRefused(h, d)
        PROVE  RowsInv'
    <3>1. UNCHANGED store
      BY <2>1 DEF ClusterCommitLost, ClusterDone, ClusterFailed, ClusterEnds, RowRefused
    <3> QED BY <1>0, <1>2, <2>1, <3>1, ClusterAttempt DEF ClusterCommitLost, store, RowsSame
  <2>2. CASE PublishAbort(h) BY <1>6, <2>2 DEF PublishAbort, store
  <2> QED BY <1>9, <2>1, <2>2 DEF GoWrong
<1>10. CASE Restart
  <2>1. \A k \in Handlers : Attempt(k)' BY <1>10 DEF Restart, Attempt, NoRequest
  <2> QED BY <1>2, <1>10, <2>1 DEF Restart, store, RowsSame
<1> QED BY <1>1, <1>4, <1>5, <1>8, <1>9, <1>10 DEF Next

\* With one cluster a published flow and its status row agree, whatever publishes, stops
\* and failures overlap, and the row is never left at "publishing", unless a write of the
\* row failed in the last attempt that was committed.
THEOREM StatusRows ==
  ASSUME NEW c, Clusters = {c}
  PROVE  Spec => []StatusRowAgrees
<1>1. RowsInv /\ TypeOK /\ Provenance /\ [Next]_vars => RowsInv' BY RowsNext
<1>2. RowsInv => StatusRowAgrees BY DEF RowsInv
<1> QED BY <1>1, <1>2, RowsInit, ProvenanceHolds, PTL DEF Spec

-----------------------------------------------------------------------------
(* The publish page.                                                       *)

Applying == {"applyCheck", "applyRead", "applyCreate"}

\* On the page a release is applied for once, by the request that created it.
AppliesOnce(h) ==
  pc[h] \in Applying => /\ req[h].service = Visited
                        /\ req[h].release \in minted
                        /\ \A f \in Flows : flow[f] # NoFlow => flow[f].release # req[h].release

\* All is the visited service's, and a flow and its release know each other.
Visiting ==
  /\ \A r \in Releases : release[r] \in {Visited, None}
  /\ \A s \in Services : running[s] # None => s = Visited
  /\ \A f \in Flows : flow[f] # NoFlow =>
       flow[f].service = Visited /\ flow[f].release \in minted /\ latest[flow[f].release] = f
  /\ \A r \in Releases : latest[r] # None =>
       flow[latest[r]] # NoFlow /\ flow[latest[r]].release = r
  /\ \A h \in Handlers : AppliesOnce(h)
  /\ \A h, k \in Handlers :
       pc[h] \in Applying /\ pc[k] \in Applying /\ h # k => req[h].release # req[k].release

\* A row that offers to stop or to withdraw names a flow.
RowsNameFlows == \A r \in Releases : shown[r].status \in Active => shown[r].flow \in Flows

PageInv == TypeOK /\ Provenance /\ Visiting /\ RowsNameFlows

\* Most steps create nothing and apply for nothing.
Quiet ==
  /\ \A r \in Releases : release'[r] \in {release[r], None}
  /\ UNCHANGED <<minted, latest>>
  /\ \A f \in Flows : flow[f] = NoFlow => flow'[f] = NoFlow
  /\ \A h \in Handlers :
       pc'[h] \in Applying => pc[h] \in Applying /\ req'[h].service = req[h].service
                                                 /\ req'[h].release = req[h].release
  /\ \A s \in Services : running'[s] # None => running[s] # None \/ s = Visited

LEMMA QuietKeeps ==
  ASSUME TypeOK, Provenance, Visiting, FlowsKept, Quiet
  PROVE  Visiting'
<1>1. \A f \in Flows : flow'[f] # NoFlow =>
        flow[f] # NoFlow /\ flow'[f].service = flow[f].service /\ flow'[f].release = flow[f].release
  BY DEF FlowsKept, Quiet
<1>2. \A r \in Releases : release'[r] \in {Visited, None} BY DEF Visiting, Quiet
<1>3. \A s \in Services : running'[s] # None => s = Visited BY DEF Visiting, Quiet
<1>4. \A f \in Flows : flow'[f] # NoFlow =>
        flow'[f].service = Visited /\ flow'[f].release \in minted' /\ latest'[flow'[f].release] = f
  BY <1>1 DEF Visiting, Quiet
<1>5. \A r \in Releases : latest'[r] # None =>
        flow'[latest'[r]] # NoFlow /\ flow'[latest'[r]].release = r
  BY DEF Visiting, Quiet, FlowsKept, TypeOK
<1>6. \A h \in Handlers : AppliesOnce(h)' BY <1>1 DEF Visiting, Quiet, AppliesOnce
<1>7. \A h, k \in Handlers :
        pc'[h] \in Applying /\ pc'[k] \in Applying /\ h # k => req'[h].release # req'[k].release
  BY DEF Visiting, Quiet
<1> QED BY <1>2, <1>3, <1>4, <1>5, <1>6, <1>7 DEF Visiting

\* Answering, going on to another place, and writing the status of a flow that is there
\* are quiet.
LEMMA RequestQuiet ==
  ASSUME TypeOK, NEW h \in Handlers,
         \/ Finish(h)
         \/ OnError(h)
         \/ Goto(h, "applyRead") /\ UNCHANGED req /\ pc[h] = "applyCheck"
         \/ Goto(h, "applyCreate") /\ UNCHANGED req /\ pc[h] = "applyRead"
         \/ \E l \in PCs \ Applying : Goto(h, l) /\ \A k \in Handlers \ {h} : req'[k] = req[k]
         \/ pc' = pc /\ pc[h] \notin Applying /\ \A k \in Handlers \ {h} : req'[k] = req[k]
  PROVE  \A k \in Handlers : pc'[k] \in Applying =>
           pc[k] \in Applying /\ req'[k].service = req[k].service
                              /\ req'[k].release = req[k].release
BY DEF TypeOK, Finish, OnError, Goto, Applying

LEMMA StatusQuiet ==
  ASSUME TypeOK, NEW g \in Flows, flow[g] # NoFlow, NEW st, flow' = [flow EXCEPT ![g].status = st]
  PROVE  \A f \in Flows : flow[f] = NoFlow => flow'[f] = NoFlow
BY DEF TypeOK

LEMMA HandlerQuiet ==
  ASSUME TypeOK, Provenance, Visiting, NEW h \in Handlers, Continue(h) \/ GoWrong(h),
         \A f \in Flows : ~ ApplyCreate(h, f)
  PROVE  Quiet
<1>0. RequestProvenance(h) BY DEF Provenance
<1>1. CASE ApplyCheck(h)
  BY <1>1, RequestQuiet DEF ApplyCheck, store, Quiet
<1>2. CASE ApplyRead(h)
  BY <1>2, RequestQuiet DEF ApplyRead, store, Quiet
<1>3. CASE AcceptStep(h)
  <2>1. req[h].flow \in Flows /\ flow[req[h].flow] # NoFlow
    BY <1>0, <1>3 DEF AcceptStep, RequestProvenance
  <2>2. flow' = [flow EXCEPT ![req[h].flow].status = "accept"] BY <1>3 DEF AcceptStep, SetAction
  <2>3. \A f \in Flows : flow[f] = NoFlow => flow'[f] = NoFlow BY <2>1, <2>2, StatusQuiet
  <2>4. Goto(h, "publishRead") /\ UNCHANGED req BY <1>3 DEF AcceptStep
  <2>5. "publishRead" \in PCs \ Applying BY DEF PCs, Applying
  <2> QED BY <1>3, <2>3, <2>4, <2>5, RequestQuiet DEF AcceptStep, SetAction, Quiet
<1>4. CASE StopWrite(h)
  <2>1. req[h].flow \in Flows /\ flow[req[h].flow] # NoFlow
    BY <1>0, <1>4 DEF StopWrite, RequestProvenance
  <2>2. \A f \in Flows : flow[f] = NoFlow => flow'[f] = NoFlow
    BY <1>4, <2>1, StatusQuiet DEF StopWrite, SetStatus
  <2> QED BY <1>4, <2>2, RequestQuiet DEF StopWrite, Quiet
<1>5. CASE PublishRead(h)
  BY <1>5, RequestQuiet DEF PublishRead, store, Quiet, PCs, Applying
<1>6. CASE PublishInfo(h)
  <2>1. "publishWait" \in PCs \ Applying BY DEF PCs, Applying
  <2>2. Goto(h, "publishWait") /\ \A k \in Handlers \ {h} : req'[k] = req[k]
    BY <1>6 DEF PublishInfo, TypeOK
  <2> QED BY <1>6, <2>1, <2>2, RequestQuiet DEF PublishInfo, store, Quiet
<1>7. CASE PublishBegin(h)
  <2>1. "publishCluster" \in PCs \ Applying BY DEF PCs, Applying
  <2>2. Goto(h, "publishCluster") /\ \A k \in Handlers \ {h} : req'[k] = req[k]
    BY <1>7 DEF PublishBegin, TypeOK
  <2> QED BY <1>7, <2>1, <2>2, RequestQuiet DEF PublishBegin, store, Quiet
<1>8. ASSUME NEW c \in Clusters, ClusterDone(h, c) \/ ClusterFailed(h, c) \/ RowRefused(h, c)
      PROVE  Quiet
  <2>1. PICK st \in {"done", "error"}, b \in BOOLEAN : ClusterEnds(h, c, st, b) \/ RowRefused(h, c)
    BY <1>8 DEF ClusterDone, ClusterFailed
  <2>2. /\ UNCHANGED store /\ pc'[h] \notin Applying
        /\ \A k \in Handlers \ {h} : pc'[k] = pc[k] /\ req'[k] = req[k]
    BY <2>1, ClusterStep DEF Applying
  <2> QED BY <2>2, RequestQuiet DEF store, Quiet
<1>9. CASE PublishCommit(h)
  <2>1. req[h].flow \in Flows /\ flow[req[h].flow] # NoFlow /\ req[h].service = Visited
    BY <1>0, <1>9 DEF PublishCommit, RequestProvenance, Visiting
  <2> DEFINE st == IF req[h].failed THEN "error" ELSE "done"
  <2>2. flow' = [flow EXCEPT ![req[h].flow].status = st] BY <1>9 DEF PublishCommit, SetStatus
  <2> HIDE DEF st
  <2>3. \A f \in Flows : flow[f] = NoFlow => flow'[f] = NoFlow BY <2>1, <2>2, StatusQuiet
  <2>4. \A s \in Services : running'[s] # None => running[s] # None \/ s = Visited
    BY <1>9, <2>1 DEF PublishCommit, TypeOK
  <2> QED BY <1>9, <2>3, <2>4, RequestQuiet DEF PublishCommit, Quiet
<1>10. CASE Cleanup(h)
  BY <1>10, RequestQuiet DEF Cleanup, RemoveRelease, store, Quiet, TypeOK
<1>11. CASE Fail(h)
  BY <1>11, RequestQuiet DEF Fail, store, Quiet
<1>12. CASE PublishAbort(h)
  BY <1>12, RequestQuiet DEF PublishAbort, store, Quiet
<1> QED BY <1>1, <1>2, <1>3, <1>4, <1>5, <1>6, <1>7, <1>8, <1>9, <1>10, <1>11, <1>12
        DEF Continue, Proceed, GoWrong, ClusterOnline, ClusterCommitLost

\* The release a request has created is applied for: its flow is the only one.
LEMMA CreateVisiting ==
  ASSUME TypeOK, Provenance, Visiting, NEW h \in Handlers, NEW f \in Flows, ApplyCreate(h, f)
  PROVE  Visiting'
<1> DEFINE r == req[h].release
<1>1. pc[h] \in Applying /\ r \in Releases BY DEF ApplyCreate, Applying, Provenance, RequestProvenance
<1>2. /\ req[h].service = Visited /\ r \in minted
      /\ \A g \in Flows : flow[g] # NoFlow => flow[g].release # r
  BY <1>1 DEF Visiting, AppliesOnce
<1>3. /\ flow' = [flow EXCEPT ![f] = [status |-> "apply", service |-> Visited, release |-> r]]
      /\ latest' = [latest EXCEPT ![r] = f] /\ flow[f] = NoFlow
      /\ UNCHANGED <<release, minted, running>>
  BY <1>2 DEF ApplyCreate
<1>4. pc'[h] \notin Applying /\ \A k \in Handlers \ {h} : pc'[k] = pc[k] /\ req'[k] = req[k]
  BY DEF ApplyCreate, Finish, Goto, TypeOK, Applying
<1> HIDE DEF r
<1>5. /\ flow'[f] = [status |-> "apply", service |-> Visited, release |-> r]
      /\ \A g \in Flows \ {f} : flow'[g] = flow[g]
      /\ latest'[r] = f /\ \A q \in Releases \ {r} : latest'[q] = latest[q]
  BY <1>1, <1>3 DEF TypeOK
<1>6. flow'[f].status = "apply" /\ flow'[f].service = Visited /\ flow'[f].release = r /\ flow'[f] # NoFlow
  BY <1>5 DEF NoFlow
<1>7. \A g \in Flows : flow'[g] # NoFlow =>
        flow'[g].service = Visited /\ flow'[g].release \in minted' /\ latest'[flow'[g].release] = g
  <2> SUFFICES ASSUME NEW g \in Flows, flow'[g] # NoFlow
               PROVE  flow'[g].service = Visited /\ flow'[g].release \in minted
                      /\ latest'[flow'[g].release] = g
    BY <1>3
  <2>1. CASE g = f BY <1>2, <1>5, <1>6, <2>1
  <2>2. CASE g # f
    <3>1. flow[g] # NoFlow /\ flow'[g] = flow[g] BY <1>5, <2>2
    <3>2. flow[g].release \in Releases \ {r} BY <1>2, <3>1 DEF Provenance, FlowProvenance
    <3> QED BY <1>5, <3>1, <3>2 DEF Visiting
  <2> QED BY <2>1, <2>2
<1>8. \A q \in Releases : latest'[q] # None =>
        flow'[latest'[q]] # NoFlow /\ flow'[latest'[q]].release = q
  <2> SUFFICES ASSUME NEW q \in Releases, latest'[q] # None
               PROVE  flow'[latest'[q]] # NoFlow /\ flow'[latest'[q]].release = q
    OBVIOUS
  <2>1. CASE q = r BY <1>5, <1>6, <2>1
  <2>2. CASE q # r
    <3>1. latest'[q] = latest[q] /\ latest[q] \in Flows /\ flow[latest[q]] # NoFlow
          /\ flow[latest[q]].release = q
      BY <1>5, <2>2 DEF Visiting, TypeOK
    <3> QED BY <1>3, <1>5, <3>1
  <2> QED BY <2>1, <2>2
<1>9. \A k \in Handlers : AppliesOnce(k)'
  <2> SUFFICES ASSUME NEW k \in Handlers, pc'[k] \in Applying
               PROVE  /\ req'[k].service = Visited /\ req'[k].release \in minted
                      /\ \A g \in Flows : flow'[g] # NoFlow => flow'[g].release # req'[k].release
    BY <1>3 DEF AppliesOnce
  <2>1. k # h /\ pc[k] \in Applying /\ req'[k] = req[k] BY <1>4
  <2>2. req[k].release # r BY <1>1, <2>1 DEF Visiting, r
  <2> QED BY <1>5, <1>6, <2>1, <2>2 DEF Visiting, AppliesOnce
<1>10. \A j, k \in Handlers :
         pc'[j] \in Applying /\ pc'[k] \in Applying /\ j # k => req'[j].release # req'[k].release
  BY <1>4 DEF Visiting
<1> QED BY <1>3, <1>7, <1>8, <1>9, <1>10 DEF Visiting

\* A new release has not been drawn before.
LEMMA AddVisiting ==
  ASSUME TypeOK, Provenance, Visiting, NEW h \in Handlers, NEW r \in Releases,
         NEW A \in SUBSET Apis, CreateAndApply(h, Visited, r, A, "do")
  PROVE  Visiting'
<1>1. /\ r \notin minted /\ minted' = minted \cup {r} /\ release' = [release EXCEPT ![r] = Visited]
      /\ UNCHANGED <<flow, latest, running>> /\ pc[h] = "idle"
  BY DEF CreateAndApply, InsertRelease
<1>2. /\ req'[h].service = Visited /\ req'[h].release = r
      /\ \A k \in Handlers \ {h} : pc'[k] = pc[k] /\ req'[k] = req[k]
  BY DEF CreateAndApply, Goto, TypeOK, NoRequest
<1>3. \A q \in Releases : release'[q] \in {Visited, None} BY <1>1 DEF Visiting, TypeOK
<1>4. \A k \in Handlers : AppliesOnce(k)' BY <1>1, <1>2 DEF Visiting, AppliesOnce
<1>5. \A j, k \in Handlers :
         pc'[j] \in Applying /\ pc'[k] \in Applying /\ j # k => req'[j].release # req'[k].release
  BY <1>1, <1>2 DEF Visiting, AppliesOnce
<1> QED BY <1>1, <1>3, <1>4, <1>5 DEF Visiting

\* What a list just loaded shows.
LEMMA RowsLoaded ==
  ASSUME TypeOK, NEW r \in Releases
  PROVE  /\ Rows[r] = IF release[r] = Visited THEN Row(r) ELSE NoRow
         /\ Rows[r].status \in Active =>
              /\ release[r] = Visited /\ latest[r] \in Flows /\ Rows[r].flow = latest[r]
              /\ flow[latest[r]].status = Rows[r].status
         /\ Rows[r].canDelete => /\ release[r] = Visited /\ GetRunning(Visited) # r
                                 /\ latest[r] # None => flow[latest[r]].status \notin Active
<1>1. Rows[r] = IF release[r] = Visited THEN Row(r) ELSE NoRow BY DEF Rows
<1>2. /\ NoRow.status \notin Active /\ NoRow.canDelete = FALSE BY DEF NoRow, Active
<1>3. CASE release[r] = Visited
  <2> DEFINE f == latest[r]
             runs == GetRunning(release[r]) = r
             says == f # None /\ flow[f].status \in ShownStatus
  <2>1. /\ Row(r).status = IF says THEN flow[f].status ELSE IF runs THEN "running" ELSE "none"
        /\ Row(r).flow = f
        /\ Row(r).canDelete = (~ says /\ ~ runs)
    BY DEF Row
  <2> QED BY <1>1, <1>3, <2>1 DEF Active, ShownStatus, TypeOK
<1> QED BY <1>1, <1>2, <1>3

\* The buttons of a row.
LEMMA ButtonsOf ==
  ASSUME NEW row, NEW button \in Buttons(row)
  PROVE  \/ button \in {"stop", "online"} /\ row.status = "accept"
         \/ button \in {"cancel", "approval"} /\ row.status = "apply"
         \/ button = "delete" /\ row.canDelete
BY DEF Buttons

\* What the page asks for is what the workflow can do.
LEMMA PageIsFlow ==
  ASSUME Visited \in Services, PageInv, [PageNext]_pageVars
  PROVE  [Next]_vars
<1>1. CASE Load BY <1>1 DEF Load
<1>2. ASSUME NEW h \in Handlers, Add(h) PROVE Next
  BY <1>2 DEF Add, Next, Begin
<1>3. ASSUME NEW h \in Handlers, NEW r \in Releases, Stop(h, r) PROVE Next
  <2>1. shown[r].status \in Active BY <1>3, ButtonsOf DEF Stop, Offers, Active
  <2>2. shown[r].flow \in Flows BY <2>1 DEF PageInv, RowsNameFlows
  <2> QED BY <1>3, <2>2 DEF Stop, Next, Begin
<1>4. ASSUME NEW r \in Releases, Delete(r) PROVE Next
  BY <1>4 DEF Delete, Next, ShortRequest
<1>5. CASE Serve BY <1>5 DEF Serve, Next
<1>6. CASE UNCHANGED pageVars BY <1>6 DEF pageVars
<1> QED BY <1>1, <1>2, <1>3, <1>4, <1>5, <1>6 DEF PageNext

LEMMA PageStart == PageInit => PageInv
<1> SUFFICES ASSUME PageInit PROVE PageInv OBVIOUS
<1>1. Init /\ shown = [r \in Releases |-> NoRow] BY DEF PageInit
<1>2. TypeOK /\ Provenance BY <1>1, TypeInit, ProvenanceInit
<1>3. RowsNameFlows BY <1>1 DEF RowsNameFlows, NoRow, Active
<1>4. Visiting BY <1>1 DEF Init, Visiting, AppliesOnce, Applying
<1> QED BY <1>2, <1>3, <1>4 DEF PageInv

LEMMA PageStep ==
  ASSUME Visited \in Services, PageInv, [PageNext]_pageVars
  PROVE  PageInv'
<1>1. TypeOK' /\ Provenance' /\ FlowsKept
  BY PageIsFlow, TypeNext, ProvenanceNext DEF PageInv, ProvenanceKept
<1>2. RowsNameFlows'
  <2>1. CASE Load
    <3>1. shown' = Rows BY <2>1 DEF Load
    <3>2. \A r \in Releases : Rows[r].status \in Active => Rows[r].flow \in Flows
      BY RowsLoaded DEF PageInv
    <3> QED BY <3>1, <3>2 DEF RowsNameFlows
  <2>2. CASE UNCHANGED shown BY <2>2 DEF PageInv, RowsNameFlows
  <2> QED BY <2>1, <2>2 DEF PageNext, Add, Stop, Delete, Serve, pageVars
<1>3. CASE Quiet BY <1>1, <1>2, <1>3, QuietKeeps DEF PageInv
<1>4. ASSUME NEW h \in Handlers, Add(h) PROVE Visiting'
  BY <1>4, AddVisiting DEF Add, PageInv
<1>5. ASSUME NEW h \in Handlers, Continue(h) \/ GoWrong(h) PROVE Visiting'
  <2>1. CASE \E f \in Flows : ApplyCreate(h, f) BY <2>1, CreateVisiting DEF PageInv
  <2>2. CASE \A f \in Flows : ~ ApplyCreate(h, f)
    BY <1>1, <1>5, <2>2, HandlerQuiet, QuietKeeps DEF PageInv
  <2> QED BY <2>1, <2>2
<1>6. CASE Load \/ UNCHANGED pageVars
  <2>1. UNCHANGED vars BY <1>6 DEF Load, pageVars
  <2>2. Quiet BY <2>1 DEF vars, store, Quiet
  <2> QED BY <1>3, <2>2
<1>7. ASSUME NEW h \in Handlers, NEW r \in Releases, Stop(h, r) PROVE Quiet
  <2>1. "stopWrite" \in PCs \ Applying BY DEF PCs, Applying
  <2>2. Goto(h, "stopWrite") /\ \A k \in Handlers \ {h} : req'[k] = req[k]
    BY <1>7 DEF Stop, StopRead, PageInv, TypeOK
  <2> QED BY <1>7, <2>1, <2>2, RequestQuiet DEF Stop, StopRead, store, Quiet, PageInv
<1>8. ASSUME NEW r \in Releases, Delete(r) PROVE Quiet
  BY <1>8 DEF Delete, DeleteRelease, RemoveRelease, Quiet, PageInv, TypeOK
<1>9. ASSUME Restart PROVE Quiet
  BY <1>9 DEF Restart, store, Quiet, Applying
<1> QED BY <1>1, <1>2, <1>3, <1>4, <1>5, <1>6, <1>7, <1>8, <1>9 DEF PageInv, PageNext, Serve

\* Whatever list the page would load now, the server does what its buttons ask: it stops
\* or withdraws the flow of the row and deletes the release.
THEOREM OfferedServed ==
  ASSUME Visited \in Services
  PROVE  PageSpec => []OfferedIsServed
<1>1. ASSUME PageInv PROVE OfferedIsServed
  <2> SUFFICES ASSUME NEW r \in Releases, NEW button \in Buttons(Rows[r]) \ {"approval", "online"}
               PROVE  Served(r, button)
    BY DEF OfferedIsServed
  <2>0. TypeOK /\ Visiting BY <1>1 DEF PageInv
  <2>1. CASE button \in {"stop", "cancel"}
    <3>1. Rows[r].status \in Active BY <2>1, ButtonsOf DEF Active
    <3>2. latest[r] \in Flows /\ Rows[r].flow = latest[r] /\ flow[latest[r]].status \in Active
      BY <2>0, <3>1, RowsLoaded
    <3>3. latest[r] # None BY <3>2, NoneAssumption
    <3>4. flow[latest[r]].service = Visited BY <2>0, <3>2, <3>3 DEF Visiting
    <3> QED BY <2>1, <3>2, <3>4 DEF Served
  <2>2. CASE button = "delete"
    <3>1. Rows[r].canDelete BY <2>2, ButtonsOf
    <3>2. /\ release[r] = Visited /\ GetRunning(Visited) # r
          /\ latest[r] # None => flow[latest[r]].status \notin Active
      BY <2>0, <3>1, RowsLoaded
    <3>3. ASSUME NEW t \in Services, running[t] = r PROVE FALSE
      <4>1. t = Visited BY <2>0, <3>3, NoneAssumption DEF Visiting
      <4> QED BY <3>2, <3>3, <4>1, NoneAssumption DEF GetRunning
    <3> QED BY <2>2, <3>2, <3>3 DEF Served, CanDelete
  <2> QED BY <2>1, <2>2, ButtonsOf
<1> QED BY <1>1, PageStart, PageStep, PTL DEF PageSpec

\* A flow of the visited service that is under review or accepted can be stopped or
\* withdrawn from the list, unless its release was deleted meanwhile.
THEOREM WayOut ==
  ASSUME Visited \in Services
  PROVE  PageSpec => []BlockedHasWayOut
<1>1. ASSUME PageInv PROVE BlockedHasWayOut
  <2> SUFFICES ASSUME NEW f \in Flows, flow[f].service = Visited, flow[f].status \in Active,
                      release[flow[f].release] # None
               PROVE  \E r \in Releases : Rows[r].flow = f /\ Buttons(Rows[r]) \cap {"stop", "cancel"} # {}
    BY DEF BlockedHasWayOut
  <2>0. TypeOK /\ Visiting BY <1>1 DEF PageInv
  <2>1. flow[f] # NoFlow BY DEF NoFlow, Active
  <2> DEFINE r == flow[f].release
  <2>2. r \in Releases BY <1>1, <2>1 DEF PageInv, Provenance, FlowProvenance
  <2>3. latest[r] = f /\ release[r] = Visited BY <2>0, <2>1, <2>2 DEF Visiting
  <2>4. Rows[r] = Row(r) BY <2>0, <2>2, <2>3, RowsLoaded
  <2>5. f # None BY NoneAssumption
  <2>6. Row(r).flow = f /\ Row(r).status = flow[f].status
    BY <2>3, <2>5 DEF Row, ShownStatus, Active
  <2>7. Buttons(Row(r)) \cap {"stop", "cancel"} # {} BY <2>6 DEF Buttons, Active
  <2> QED BY <2>2, <2>4, <2>6, <2>7
<1> QED BY <1>1, PageStart, PageStep, PTL DEF PageSpec
=============================================================================
