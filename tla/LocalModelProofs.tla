-------------------------- MODULE LocalModelProofs --------------------------
(* Proofs about LocalModel, for every number of models, services, downloads *)
(* and requests.                                                            *)
EXTENDS LocalModel, SequenceTheorems, TLAPS

-----------------------------------------------------------------------------
(* The inductive invariant.                                                *)

RqRecord == [at : {"idle", "read", "write", "get", "register", "start", "cancelService",
                   "cancelRow", "stop", "removeRead", "removeRow", "enable", "disable", "sync"},
             model : Models \cup {None}, service : Services \cup {None}, found : ModelState,
             pull : Pulls \cup {None}, todo : SUBSET Services, models : SUBSET Models]

\* A success that has been reported is one of a model that has been pulled.
Truthful(msg) == msg.status = "success" => msg.model \in pulled

BoardInv ==
  /\ registered \in [Models -> Pulls \cup {None}]
  /\ ofModel \in [Pulls -> Models \cup {None}]
  /\ running \in SUBSET Pulls
  /\ outcomes \in Seq(Outcome)
  /\ handler \in [at : {"wait", "hook", "close"}, msg : Outcome \cup {NoOutcome}]
  /\ \A p \in running : ofModel[p] \in Models
  /\ \A i \in 1 .. Len(outcomes) : Truthful(outcomes[i])
  /\ handler.at # "wait" => handler.msg \in Outcome /\ Truthful(handler.msg)

\* A request that is to enable or disable a model, or to give the gateway a list of
\* models, has read that they were in use: they have been pulled.
RequestInv(r) ==
  /\ rq[r] \in RqRecord
  /\ rq[r].at \notin {"idle", "sync"} => rq[r].model \in Models
  /\ rq[r].at = "start" => rq[r].pull \in Pulls
  /\ rq[r].at \in {"enable", "disable"} => rq[r].model \in pulled
  /\ rq[r].models \subseteq pulled

RequestsInv ==
  /\ rq \in [Requests -> RqRecord]
  /\ fn \in [Pulls -> Services \cup {None}]
  /\ \A r \in Requests : RequestInv(r)

\* No model is ever in the state "error".
TablesInv ==
  /\ row \in [Models -> ModelState]
  /\ cache \in [Services -> Models \cup {None}]
  /\ svc \in [Services -> {"none", "deploying", "normal"}]
  /\ born \in SUBSET Services
  /\ api \in [Services -> Models \cup {None}]
  /\ online \in SUBSET Models
  /\ pulled \in SUBSET Models
  /\ missed \in SUBSET Models
  /\ \A m \in Models : row[m] # "error"
  /\ UsableWasPulled
  /\ DisabledIsOffline
  /\ NormalIsOnline

IInv == BoardInv /\ RequestsInv /\ TablesInv

-----------------------------------------------------------------------------
(* Lemmas.                                                                 *)

LEMMA InitInv == Init => IInv
<1> SUFFICES ASSUME Init PROVE IInv OBVIOUS
<1>1. <<>> \in Seq(Outcome) /\ Len(<<>>) = 0 BY EmptySeq
<1>2. BoardInv BY <1>1 DEF Init, BoardInit, BoardInv, Waiting
<1>3. NoRq \in RqRecord /\ NoRq.at = "idle" /\ NoRq.models = {} BY DEF NoRq, RqRecord, ModelState
<1>4. RequestsInv BY <1>3 DEF Init, RequestsInv, RequestInv
<1>5. TablesInv
      BY DEF Init, TablesInv, ModelState, UsableWasPulled, DisabledIsOffline, NormalIsOnline
<1> QED BY <1>2, <1>4, <1>5 DEF IInv

\* The request of r becomes n; models that have been pulled stay so.
LEMMA Becomes ==
  ASSUME RequestsInv, NEW r \in Requests, NEW n \in RqRecord, rq' = [rq EXCEPT ![r] = n],
         fn' \in [Pulls -> Services \cup {None}], pulled \subseteq pulled',
         n.at \notin {"idle", "sync"} => n.model \in Models,
         n.at = "start" => n.pull \in Pulls,
         n.at \in {"enable", "disable"} => n.model \in pulled',
         n.models \subseteq pulled'
  PROVE  RequestsInv'
<1>1. rq' \in [Requests -> RqRecord] /\ rq'[r] = n /\ \A q \in Requests \ {r} : rq'[q] = rq[q]
      BY DEF RequestsInv
<1>2. \A q \in Requests : RequestInv(q)' BY <1>1 DEF RequestsInv, RequestInv
<1> QED BY <1>1, <1>2 DEF RequestsInv

\* A request is done.
LEMMA IsDone ==
  ASSUME RequestsInv, NEW r \in Requests, Done(r), fn' = fn, pulled \subseteq pulled'
  PROVE  RequestsInv'
<1>1. NoRq \in RqRecord /\ NoRq.at = "idle" /\ NoRq.models = {} BY DEF NoRq, RqRecord, ModelState
<1>2. fn' \in [Pulls -> Services \cup {None}] BY DEF RequestsInv
<1> QED BY <1>1, <1>2, Becomes DEF Done

\* A request about a model takes a step on its way.
LEMMA GoesTo ==
  ASSUME RequestsInv, NEW r \in Requests, rq[r].at \notin {"idle", "sync"},
         NEW at \in {"write", "get", "register", "cancelRow", "stop", "removeRow"},
         To(r, at), fn' = fn, pulled \subseteq pulled'
  PROVE  RequestsInv'
<1> DEFINE n == [rq[r] EXCEPT !.at = at]
<1>1. n \in RqRecord /\ n.at = at /\ n.model = rq[r].model /\ n.models = rq[r].models
      BY DEF RequestsInv, RqRecord
<1>2. rq' = [rq EXCEPT ![r] = n] BY DEF To, RequestsInv
<1>3. fn' \in [Pulls -> Services \cup {None}] BY DEF RequestsInv
<1>4. n.model \in Models /\ n.models \subseteq pulled' BY <1>1 DEF RequestsInv, RequestInv
<1> HIDE DEF n
<1> QED BY <1>1, <1>2, <1>3, <1>4, Becomes

\* A request begins.
LEMMA Asks ==
  ASSUME RequestsInv, NEW r \in Requests, NEW m \in Models, NEW v \in Services \cup {None},
         NEW at \in {"read", "removeRead", "enable", "disable"}, Ask(r, at, m, v),
         at \in {"enable", "disable"} => m \in pulled, fn' = fn, pulled' = pulled
  PROVE  RequestsInv'
<1> DEFINE n == [NoRq EXCEPT !.at = at, !.model = m, !.service = v]
<1>1. n \in RqRecord /\ n.at = at /\ n.model = m /\ n.models = {}
      BY DEF NoRq, RqRecord, ModelState
<1>2. rq' = [rq EXCEPT ![r] = n] BY DEF Ask
<1>3. fn' \in [Pulls -> Services \cup {None}] BY DEF RequestsInv
<1> HIDE DEF n
<1> QED BY <1>1, <1>2, <1>3, Becomes

\* What is not touched stays as it is.
LEMMA BoardStays ==
  ASSUME BoardInv, UNCHANGED boardVars, pulled \subseteq pulled'
  PROVE  BoardInv'
BY DEF BoardInv, boardVars, Truthful

LEMMA TablesStay ==
  ASSUME TablesInv, UNCHANGED tables
  PROVE  TablesInv'
BY DEF TablesInv, tables, UsableWasPulled, DisabledIsOffline, NormalIsOnline

LEMMA RequestsStay ==
  ASSUME RequestsInv, UNCHANGED <<rq, fn>>, pulled \subseteq pulled'
  PROVE  RequestsInv'
BY DEF RequestsInv, RequestInv

-----------------------------------------------------------------------------
(* Every step keeps the inductive invariant.                               *)

\* The rows of models change; the gateway and the APIs do not.
LEMMA RowChanges ==
  ASSUME TablesInv, NEW m \in Models, NEW state \in {"none", "deploying", "deploying_error"},
         row' = [row EXCEPT ![m] = state],
         cache' \in [Services -> Models \cup {None}],
         svc' \in [Services -> {"none", "deploying", "normal"}],
         UNCHANGED <<born, api, online, pulled, missed>>
  PROVE  TablesInv'
<1>1. row' \in [Models -> ModelState] /\ \A k \in Models : row'[k] = IF k = m THEN state ELSE row[k]
      BY DEF TablesInv, ModelState
<1> QED BY <1>1 DEF TablesInv, UsableWasPulled, DisabledIsOffline, NormalIsOnline

\* So do the services.
LEMMA ServicesChange ==
  ASSUME TablesInv, UNCHANGED <<row, online, pulled, missed>>,
         cache' \in [Services -> Models \cup {None}],
         svc' \in [Services -> {"none", "deploying", "normal"}],
         born' \in SUBSET Services,
         api' \in [Services -> Models \cup {None}],
         \A v \in Services : api'[v] \in {None, api[v]}
  PROVE  TablesInv'
BY DEF TablesInv, UsableWasPulled, DisabledIsOffline, NormalIsOnline

LEMMA StepBegin ==
  ASSUME IInv, NEW r \in Requests, Begin(r)
  PROVE  IInv'
<1> USE DEF IInv
<1>1. ASSUME NEW m \in Models, Deploy(r, m) PROVE IInv'
  <2>1. Ask(r, "read", m, None) /\ UNCHANGED <<boardVars, tables, fn>> BY <1>1 DEF Deploy
  <2> QED BY <2>1, Asks, BoardStays, TablesStay DEF tables
<1>2. ASSUME NEW m \in Models, NEW v \in Services, DeployStart(r, m, v) PROVE IInv'
  <2>1. Ask(r, "read", m, v) /\ UNCHANGED <<boardVars, row, api, online, fn, pulled, missed>>
        BY <1>2 DEF DeployStart
  <2>2. TablesInv' BY <1>2, ServicesChange DEF DeployStart, TablesInv
  <2> QED BY <2>1, <2>2, Asks, BoardStays
<1>3. ASSUME NEW m \in Models, CancelList(r, m) PROVE IInv'
  <2> DEFINE n == [NoRq EXCEPT !.at = "cancelService", !.model = m,
                               !.todo = {v \in Services : cache[v] = m}]
  <2>1. n \in RqRecord /\ n.at = "cancelService" /\ n.model = m /\ n.models = {}
        BY DEF NoRq, RqRecord, ModelState
  <2>2. rq' = [rq EXCEPT ![r] = n] /\ UNCHANGED <<boardVars, tables, fn>> BY <1>3 DEF CancelList
  <2>3. fn' \in [Pulls -> Services \cup {None}] /\ pulled' = pulled
        BY <2>2 DEF RequestsInv, tables
  <2> HIDE DEF n
  <2> QED BY <2>1, <2>2, <2>3, Becomes, BoardStays, TablesStay
<1>4. ASSUME NEW m \in Models, RemoveCount(r, m) PROVE IInv'
  <2>1. Ask(r, "removeRead", m, None) /\ UNCHANGED <<boardVars, tables, fn>> BY <1>4 DEF RemoveCount
  <2> QED BY <2>1, Asks, BoardStays, TablesStay DEF tables
<1>5. ASSUME NEW m \in Models, EnableRead(r, m) PROVE IInv'
  <2>1. Ask(r, "enable", m, None) /\ UNCHANGED <<boardVars, tables, fn>> BY <1>5 DEF EnableRead
  <2>2. m \in pulled BY <1>5 DEF EnableRead, TablesInv, UsableWasPulled
  <2> QED BY <2>1, <2>2, Asks, BoardStays, TablesStay DEF tables
<1>6. ASSUME NEW m \in Models, DisableRead(r, m) PROVE IInv'
  <2>1. Ask(r, "disable", m, None) /\ UNCHANGED <<boardVars, tables, fn>> BY <1>6 DEF DisableRead
  <2>2. m \in pulled BY <1>6 DEF DisableRead, TablesInv, UsableWasPulled
  <2> QED BY <2>1, <2>2, Asks, BoardStays, TablesStay DEF tables
<1>7. ASSUME NEW v \in Services, DeployService(r, v) PROVE IInv'
  <2>1. cache[v] \in Models /\ Deploy(r, cache[v]) BY <1>7 DEF DeployService, TablesInv
  <2> QED BY <1>1, <2>1
<1>8. CASE SyncRead(r)
  <2> DEFINE S == {m \in Models : row[m] = "normal"}
             n == [NoRq EXCEPT !.at = "sync", !.models = S]
  <2>1. n \in RqRecord /\ n.at = "sync" /\ n.models = S BY DEF NoRq, RqRecord, ModelState
  <2>2. rq' = [rq EXCEPT ![r] = n] /\ UNCHANGED <<boardVars, tables, fn>> BY <1>8 DEF SyncRead
  <2>3. S \subseteq pulled BY DEF TablesInv, UsableWasPulled
  <2>4. fn' \in [Pulls -> Services \cup {None}] /\ pulled' = pulled
        BY <2>2 DEF RequestsInv, tables
  <2> HIDE DEF n, S
  <2> QED BY <2>1, <2>2, <2>3, <2>4, Becomes, BoardStays, TablesStay
<1> QED BY <1>1, <1>2, <1>3, <1>4, <1>5, <1>6, <1>7, <1>8 DEF Begin

LEMMA StepDeploy ==
  ASSUME IInv, NEW r \in Requests,
         DeployRead(r) \/ DeployWrite(r) \/ PullGet(r) \/ PullStart(r)
         \/ \E p \in Pulls : PullRegister(r, p)
  PROVE  IInv'
<1> USE DEF IInv
<1>1. CASE DeployRead(r)
  <2> DEFINE n == [rq[r] EXCEPT !.found = row[rq[r].model], !.at = "write"]
  <2>1. rq[r].at = "read" /\ UNCHANGED <<boardVars, tables, fn>> BY <1>1 DEF DeployRead
  <2>2. rq[r] \in RqRecord /\ rq[r].model \in Models /\ rq[r].models \subseteq pulled
        BY <2>1 DEF RequestsInv, RequestInv
  <2>3. n \in RqRecord /\ n.at = "write" /\ n.model = rq[r].model /\ n.models = rq[r].models
        BY <2>2 DEF RqRecord, TablesInv
  <2>4. rq' = [rq EXCEPT ![r] = n] BY <1>1 DEF DeployRead, RequestsInv
  <2>5. fn' \in [Pulls -> Services \cup {None}] /\ pulled' = pulled
        BY <2>1 DEF RequestsInv, tables
  <2> HIDE DEF n
  <2> QED BY <2>1, <2>2, <2>3, <2>4, <2>5, Becomes, BoardStays, TablesStay
<1>2. CASE DeployWrite(r)
  <2>1. /\ rq[r].at = "write"
        /\ UNCHANGED <<boardVars, cache, svc, born, api, online, pulled, missed, fn>>
        /\ Done(r) \/ To(r, "get")
        /\ row' = row \/ row' = [row EXCEPT ![rq[r].model] = "deploying"]
        BY <1>2 DEF DeployWrite
  <2>2. rq[r].model \in Models BY <2>1 DEF RequestsInv, RequestInv
  <2>3. RequestsInv' BY <2>1, IsDone, GoesTo
  <2>4. cache' \in [Services -> Models \cup {None}] /\ svc' \in [Services -> {"none", "deploying", "normal"}]
        BY <2>1 DEF TablesInv
  <2>5. TablesInv' BY <2>1, <2>2, <2>4, RowChanges, TablesStay DEF tables
  <2> QED BY <2>1, <2>3, <2>5, BoardStays
<1>3. CASE PullGet(r)
  <2>1. /\ rq[r].at = "get" /\ UNCHANGED <<boardVars, tables, fn>>
        /\ Done(r) \/ To(r, "register")
        BY <1>3 DEF PullGet
  <2> QED BY <2>1, IsDone, GoesTo, BoardStays, TablesStay DEF tables
<1>4. CASE PullStart(r)
  <2>1. rq[r].at = "start" /\ Start(rq[r].pull) /\ Done(r) /\ UNCHANGED <<tables, fn>> BY <1>4 DEF PullStart
  <2>2. rq[r].pull \in Pulls BY <2>1 DEF RequestsInv, RequestInv
  <2>3. BoardInv' BY <2>1, <2>2 DEF Start, BoardInv, Truthful, tables
  <2> QED BY <2>1, <2>3, IsDone, TablesStay DEF tables
<1>5. ASSUME NEW p \in Pulls, PullRegister(r, p) PROVE IInv'
  <2> DEFINE n == [rq[r] EXCEPT !.at = "start", !.pull = p]
  <2>1. /\ rq[r].at = "register" /\ Register(rq[r].model, p)
        /\ fn' = [fn EXCEPT ![p] = rq[r].service] /\ UNCHANGED tables
        BY <1>5 DEF PullRegister
  <2>2. rq[r] \in RqRecord /\ rq[r].model \in Models /\ rq[r].models \subseteq pulled
        BY <2>1 DEF RequestsInv, RequestInv
  <2>3. n \in RqRecord /\ n.at = "start" /\ n.pull = p /\ n.model = rq[r].model /\ n.models = rq[r].models
        BY <2>2 DEF RqRecord
  <2>4. rq' = [rq EXCEPT ![r] = n] BY <1>5 DEF PullRegister, RequestsInv
  <2>5. fn' \in [Pulls -> Services \cup {None}] BY <2>1, <2>2 DEF RequestsInv, RqRecord
  <2> HIDE DEF n
  <2>6. RequestsInv' BY <2>1, <2>2, <2>3, <2>4, <2>5, Becomes DEF tables
  <2>7. BoardInv' BY <2>1, <2>2 DEF Register, BoardInv, Truthful, tables
  <2> QED BY <2>1, <2>6, <2>7, TablesStay
<1> QED BY <1>1, <1>2, <1>3, <1>4, <1>5

LEMMA StepRemove ==
  ASSUME IInv, NEW r \in Requests,
         CancelCache(r) \/ CancelRow(r) \/ StopModel(r) \/ RemoveRead(r) \/ RemoveRow(r)
         \/ \E v \in Services : CancelService(r, v)
  PROVE  IInv'
<1> USE DEF IInv
<1>1. ASSUME NEW v \in Services, CancelService(r, v) PROVE IInv'
  <2> DEFINE n == [rq[r] EXCEPT !.todo = rq[r].todo \ {v}]
  <2>1. /\ rq[r].at = "cancelService"
        /\ UNCHANGED <<boardVars, row, cache, born, online, pulled, missed, fn>>
        BY <1>1 DEF CancelService
  <2>2. rq[r] \in RqRecord /\ rq[r].model \in Models /\ rq[r].models \subseteq pulled
        BY <2>1 DEF RequestsInv, RequestInv
  <2>3. n \in RqRecord /\ n.at = "cancelService" /\ n.model = rq[r].model /\ n.models = rq[r].models
        BY <2>1, <2>2 DEF RqRecord
  <2>4. rq' = [rq EXCEPT ![r] = n] BY <1>1 DEF CancelService, RequestsInv
  <2>5. fn' \in [Pulls -> Services \cup {None}] BY <2>1 DEF RequestsInv
  <2> HIDE DEF n
  <2>6. RequestsInv' BY <2>1, <2>2, <2>3, <2>4, <2>5, Becomes
  <2>7. TablesInv' BY <1>1, ServicesChange DEF CancelService, TablesInv
  <2> QED BY <2>1, <2>6, <2>7, BoardStays
<1>2. CASE CancelCache(r)
  <2>1. /\ rq[r].at = "cancelService" /\ To(r, "cancelRow")
        /\ UNCHANGED <<boardVars, row, svc, born, api, online, pulled, missed, fn>>
        /\ cache' = [v \in Services |-> IF cache[v] = rq[r].model THEN None ELSE cache[v]]
        BY <1>2 DEF CancelCache
  <2>2. cache' \in [Services -> Models \cup {None}] BY <2>1 DEF TablesInv
  <2>3. TablesInv' BY <2>1, <2>2, ServicesChange DEF TablesInv
  <2> QED BY <2>1, <2>3, GoesTo, BoardStays
<1>3. CASE CancelRow(r) \/ RemoveRow(r)
  <2>1. /\ rq[r].at \in {"cancelRow", "removeRow"} /\ (Done(r) \/ To(r, "stop"))
        /\ UNCHANGED <<boardVars, cache, svc, born, api, online, pulled, missed, fn>>
        /\ row' = row \/ row' = [row EXCEPT ![rq[r].model] = "none"]
        BY <1>3 DEF CancelRow, RemoveRow
  <2>2. rq[r].model \in Models BY <2>1 DEF RequestsInv, RequestInv
  <2>3. cache' \in [Services -> Models \cup {None}] /\ svc' \in [Services -> {"none", "deploying", "normal"}]
        BY <2>1 DEF TablesInv
  <2>4. TablesInv' BY <2>1, <2>2, <2>3, RowChanges, TablesStay DEF tables
  <2> QED BY <2>1, <2>4, IsDone, GoesTo, BoardStays
<1>4. CASE StopModel(r)
  <2>1. rq[r].at = "stop" /\ Stop(rq[r].model) /\ Done(r) /\ UNCHANGED <<tables, fn>> BY <1>4 DEF StopModel
  <2>2. BoardInv' BY <2>1 DEF Stop, BoardInv, Truthful, tables
  <2> QED BY <2>1, <2>2, IsDone, TablesStay DEF tables
<1>5. CASE RemoveRead(r)
  <2>1. /\ rq[r].at = "removeRead" /\ UNCHANGED <<boardVars, tables, fn>>
        /\ Done(r) \/ To(r, "stop") \/ To(r, "removeRow")
        BY <1>5 DEF RemoveRead
  <2> QED BY <2>1, IsDone, GoesTo, BoardStays, TablesStay DEF tables
<1> QED BY <1>1, <1>2, <1>3, <1>4, <1>5

\* A model that was pulled is switched on or off, and the gateway told, if it can be.
LEMMA Switched ==
  ASSUME TablesInv, NEW m \in pulled, NEW reachable \in BOOLEAN,
         NEW state \in {"normal", "disabled"},
         row' = [row EXCEPT ![m] = state],
         Push(m, reachable, IF state = "normal" THEN online \cup {m} ELSE online \ {m}),
         svc' \in [Services -> {"none", "deploying", "normal"}],
         api' \in [Services -> Models \cup {None}],
         \A v \in Services : api'[v] \in {None, api[v], m},
         UNCHANGED <<cache, born, pulled>>
  PROVE  TablesInv'
<1>1. m \in Models BY DEF TablesInv
<1>2. row' \in [Models -> ModelState] /\ \A k \in Models : row'[k] = IF k = m THEN state ELSE row[k]
      BY <1>1 DEF TablesInv, ModelState
<1>3. CASE reachable
  <2>1. /\ online' = IF state = "normal" THEN online \cup {m} ELSE online \ {m}
        /\ missed' = missed \ {m}
        BY <1>3 DEF Push
  <2> QED BY <1>1, <1>2, <2>1 DEF TablesInv, UsableWasPulled, DisabledIsOffline, NormalIsOnline
<1>4. CASE ~ reachable
  <2>1. online' = online /\ missed' = missed \cup {m} BY <1>4 DEF Push
  <2> QED BY <1>1, <1>2, <2>1 DEF TablesInv, UsableWasPulled, DisabledIsOffline, NormalIsOnline
<1> QED BY <1>3, <1>4

\* The gateway is told and the commit fails: the model counts as missed.
LEMMA Outlived ==
  ASSUME TablesInv, NEW m \in pulled, NEW providers \in SUBSET (online \cup {m}),
         online \ {m} \subseteq providers,
         PushOutlives(m, providers), api' \in [Services -> Models \cup {None}],
         \A v \in Services : api'[v] \in {None, api[v], m},
         UNCHANGED <<row, cache, svc, born, pulled>>
  PROVE  TablesInv'
<1>1. m \in Models /\ online' = providers /\ missed' = missed \cup {m}
      BY DEF TablesInv, PushOutlives
<1> QED BY <1>1 DEF TablesInv, UsableWasPulled, DisabledIsOffline, NormalIsOnline

LEMMA StepSwitch ==
  ASSUME IInv, NEW r \in Requests, NEW reachable \in BOOLEAN,
         Enable(r, reachable) \/ Disable(r, reachable)
  PROVE  IInv'
<1> USE DEF IInv
<1> DEFINE m == rq[r].model
           state == IF Enable(r, reachable) THEN "normal" ELSE "disabled"
<1>1. rq[r].at \in {"enable", "disable"} BY DEF Enable, Disable
<1>2. m \in pulled BY <1>1 DEF RequestsInv, RequestInv
<1>3. SwitchTo(r, state, reachable, IF state = "normal" THEN online \cup {m} ELSE online \ {m})
      BY DEF Enable, Disable
<1>4. state \in {"normal", "disabled"} OBVIOUS
<1> HIDE DEF state
<1>5. /\ Done(r) /\ UNCHANGED <<boardVars, cache, svc, born, api, pulled, fn>>
      /\ \/ UNCHANGED <<row, online, missed>>
         \/ /\ row' = [row EXCEPT ![m] = state]
            /\ Push(m, reachable, IF state = "normal" THEN online \cup {m} ELSE online \ {m})
         \/ /\ row' = row
            /\ PushOutlives(m, IF state = "normal" THEN online \cup {m} ELSE online \ {m})
      BY <1>3 DEF SwitchTo
<1>6. TablesInv'
  <2>1. CASE UNCHANGED <<row, online, missed>> BY <1>5, <2>1, TablesStay DEF tables
  <2>3. CASE row' = row /\ PushOutlives(m, IF state = "normal" THEN online \cup {m} ELSE online \ {m})
    <3>1. /\ api' \in [Services -> Models \cup {None}]
          /\ \A v \in Services : api'[v] \in {None, api[v], m}
          BY <1>5 DEF TablesInv
    <3>2. PICK providers : providers = IF state = "normal" THEN online \cup {m} ELSE online \ {m}
          OBVIOUS
    <3>3. /\ providers \in SUBSET (online \cup {m}) /\ online \ {m} \subseteq providers
          /\ PushOutlives(m, providers)
          BY <2>3, <3>2
    <3> HIDE DEF m
    <3> QED BY <1>2, <1>5, <2>3, <3>1, <3>3, Outlived
  <2>2. CASE /\ row' = [row EXCEPT ![m] = state]
             /\ Push(m, reachable, IF state = "normal" THEN online \cup {m} ELSE online \ {m})
    <3>1. /\ svc' \in [Services -> {"none", "deploying", "normal"}]
          /\ api' \in [Services -> Models \cup {None}]
          /\ \A v \in Services : api'[v] \in {None, api[v], m}
          BY <1>5 DEF TablesInv
    <3> HIDE DEF m
    <3> QED BY <1>2, <1>4, <1>5, <2>2, <3>1, Switched
  <2> QED BY <1>5, <2>1, <2>2, <2>3
<1> QED BY <1>5, <1>6, IsDone, BoardStays

LEMMA StepSyncPush ==
  ASSUME IInv, NEW r \in Requests, SyncPush(r)
  PROVE  IInv'
<1> USE DEF IInv
<1>1. /\ online' = online \cup rq[r].models
      /\ missed' = (missed \ rq[r].models) \cup {m \in rq[r].models : row[m] # "normal"}
      /\ Done(r) /\ UNCHANGED <<boardVars, row, cache, svc, born, api, pulled, fn>>
      BY DEF SyncPush
<1>2. rq[r].models \subseteq pulled BY DEF RequestsInv, RequestInv
<1>3. TablesInv'
      BY <1>1, <1>2 DEF TablesInv, UsableWasPulled, DisabledIsOffline, NormalIsOnline
<1> QED BY <1>1, <1>3, IsDone, BoardStays

\* The callback of a download.
LEMMA Hooked ==
  ASSUME BoardInv, Hook, pulled' = pulled
  PROVE  /\ BoardInv'
         /\ handler.msg \in Outcome
         /\ handler.msg.status = "success" => handler.msg.model \in pulled
<1>1. handler.at = "hook" /\ handler.msg \in Outcome /\ Truthful(handler.msg)
      BY DEF Hook, BoardInv
<1>2. /\ handler' \in [at : {"wait", "hook", "close"}, msg : Outcome \cup {NoOutcome}]
      /\ handler'.msg = handler.msg
      BY DEF Hook, BoardInv
<1> QED BY <1>1, <1>2 DEF Hook, BoardInv, Truthful

LEMMA StepPullHook ==
  ASSUME IInv, NEW reachable \in BOOLEAN, PullHook(reachable)
  PROVE  IInv'
<1> USE DEF IInv
<1> DEFINE m == handler.msg.model
           p == registered[m]
<1>1. Hook /\ UNCHANGED <<fn, rq>> /\ pulled' = pulled BY DEF PullHook, tables
<1>2. BoardInv' /\ handler.msg \in Outcome BY <1>1, Hooked
<1>3. m \in Models /\ p \in Pulls \cup {None} BY <1>2 DEF Outcome, BoardInv
<1>4. RequestsInv' BY <1>1, RequestsStay
<1>5. TablesInv'
  <2>1. CASE UNCHANGED tables BY <2>1, TablesStay
  <2>2. CASE /\ handler.msg.status = "error"
             /\ row' = [row EXCEPT ![m] = "deploying_error"]
             /\ svc' = Released(m)
             /\ UNCHANGED <<cache, born, api, online, pulled, missed>>
    <3>1. svc' \in [Services -> {"none", "deploying", "normal"}] BY <2>2 DEF TablesInv, Released
    <3>2. cache' \in [Services -> Models \cup {None}] BY <2>2 DEF TablesInv
    <3> HIDE DEF m
    <3> QED BY <1>3, <2>2, <3>1, <3>2, RowChanges
  <2>3. CASE /\ handler.msg.status # "error" /\ p # None
             /\ row' = [row EXCEPT ![m] = "normal"]
             /\ svc' = Released(m)
             /\ CreateApi(m, fn[p])
             /\ Push(m, reachable, online \cup {m})
             /\ UNCHANGED <<cache, born, pulled>>
    <3>1. svc' \in [Services -> {"none", "deploying", "normal"}] BY <2>3 DEF TablesInv, Released
    <3>2. fn[p] \in Services \cup {None} BY <1>3, <2>3 DEF RequestsInv
    <3>3. api' \in [Services -> Models \cup {None}] /\ \A v \in Services : api'[v] \in {None, api[v], m}
          BY <1>3, <2>3, <3>2 DEF CreateApi, TablesInv
    <3>4. m \in pulled BY <1>1, <1>2, <2>3, Hooked DEF Outcome
    <3> HIDE DEF m
    <3> QED BY <2>3, <3>1, <3>3, <3>4, Switched
  <2> QED BY <2>1, <2>2, <2>3 DEF PullHook
<1> QED BY <1>2, <1>4, <1>5

LEMMA StepPullHookFails ==
  ASSUME IInv, PullHookFails
  PROVE  IInv'
<1> USE DEF IInv
<1> DEFINE m == handler.msg.model
           p == registered[m]
<1>1. /\ handler.msg.status = "success" /\ p # None /\ Hook /\ CreateApi(m, fn[p])
      /\ UNCHANGED <<online, missed>> \/ PushOutlives(m, online \cup {m})
      /\ UNCHANGED <<row, cache, svc, born, pulled, fn, rq>>
      BY DEF PullHookFails
<1>2. BoardInv' /\ handler.msg \in Outcome /\ m \in pulled BY <1>1, Hooked
<1>3. m \in Models /\ p \in Pulls BY <1>1, <1>2 DEF Outcome, BoardInv
<1>4. fn[p] \in Services \cup {None} BY <1>3 DEF RequestsInv
<1>5. api' \in [Services -> Models \cup {None}] /\ \A v \in Services : api'[v] \in {None, api[v], m}
      BY <1>1, <1>3, <1>4 DEF CreateApi, TablesInv
<1>6. TablesInv'
  <2>1. CASE UNCHANGED <<online, missed>>
        BY <1>1, <1>2, <1>5, <2>1 DEF TablesInv, UsableWasPulled, DisabledIsOffline, NormalIsOnline
  <2>2. CASE PushOutlives(m, online \cup {m})
    <3> HIDE DEF m
    <3> QED BY <1>1, <1>2, <1>5, <2>2, Outlived
  <2> QED BY <1>1, <2>1, <2>2
<1> QED BY <1>1, <1>2, <1>6, RequestsStay

\* A download that ends is one of a registered model.
LEMMA StepDownloadEnds ==
  ASSUME IInv, NEW p \in Pulls, NEW status \in {"success", "error"}, DownloadEnds(p, status)
  PROVE  IInv'
<1> USE DEF IInv
<1> DEFINE msg == [model |-> ofModel[p], status |-> status, pull |-> p]
<1>1. /\ p \in running /\ running' = running \ {p} /\ outcomes' = Append(outcomes, msg)
      /\ UNCHANGED <<registered, ofModel, handler>>
      /\ pulled' = IF status = "success" THEN pulled \cup {ofModel[p]} ELSE pulled
      /\ UNCHANGED <<row, cache, svc, born, api, online, missed, fn, rq>>
      BY DEF DownloadEnds, Finish
<1>2. ofModel[p] \in Models /\ msg \in Outcome /\ msg.model = ofModel[p] /\ msg.status = status
      BY <1>1 DEF BoardInv, Outcome
<1>3. pulled \subseteq pulled' /\ pulled' \in SUBSET Models BY <1>1, <1>2 DEF TablesInv
<1>4. (status = "success" => msg.model \in pulled') BY <1>1, <1>2
<1> HIDE DEF msg
<1>5. /\ outcomes' \in Seq(Outcome) /\ Len(outcomes') = Len(outcomes) + 1
      /\ \A i \in 1 .. Len(outcomes) : outcomes'[i] = outcomes[i]
      /\ outcomes'[Len(outcomes) + 1] = msg
      /\ Len(outcomes) \in Nat
      BY <1>1, <1>2, AppendProperties, LenProperties DEF BoardInv
<1>6. \A i \in 1 .. Len(outcomes') : outcomes'[i].status = "success" => outcomes'[i].model \in pulled'
  <2> TAKE i \in 1 .. Len(outcomes')
  <2>1. CASE i \in 1 .. Len(outcomes) BY <1>3, <1>5, <2>1 DEF BoardInv, Truthful
  <2>2. CASE i = Len(outcomes) + 1 BY <1>2, <1>4, <1>5, <2>2 DEF Truthful
  <2> QED BY <1>5, <2>1, <2>2
<1>7. BoardInv' BY <1>1, <1>3, <1>5, <1>6 DEF BoardInv, Truthful
<1>8. TablesInv' BY <1>1, <1>3 DEF TablesInv, UsableWasPulled, DisabledIsOffline, NormalIsOnline
<1> QED BY <1>1, <1>3, <1>7, <1>8, RequestsStay

LEMMA StepBoard ==
  ASSUME IInv, Distributor \/ \E p \in Pulls : Vanish(p) /\ UNCHANGED <<tables, fn, rq>>
  PROVE  IInv'
<1> USE DEF IInv
<1>1. UNCHANGED <<tables, fn, rq>> /\ pulled' = pulled BY DEF Distributor, tables
<1>2. RequestsInv' /\ TablesInv' BY <1>1, RequestsStay, TablesStay
<1>3. CASE Take
  <2>1. outcomes \in Seq(Outcome) /\ outcomes # <<>> /\ outcomes' = Tail(outcomes)
        BY <1>3 DEF Take, BoardInv
  <2>2. /\ Head(outcomes) \in Outcome /\ outcomes' \in Seq(Outcome)
        /\ Len(outcomes') = Len(outcomes) - 1
        /\ \A i \in 1 .. Len(outcomes') : outcomes'[i] = outcomes[i + 1]
        BY <2>1, HeadTailProperties
  <2>3. Len(outcomes) \in Nat \ {0} /\ Head(outcomes) = outcomes[1] BY <2>1, EmptySeq, LenProperties
  <2>4. \A i \in 1 .. Len(outcomes') : Truthful(outcomes'[i]) BY <2>2, <2>3 DEF BoardInv
  <2>5. Truthful(Head(outcomes)) BY <2>3 DEF BoardInv
  <2> QED BY <1>1, <1>2, <1>3, <2>2, <2>4, <2>5 DEF Take, BoardInv, Truthful
<1>4. CASE Close
  <2>1. BoardInv' BY <1>1, <1>4 DEF Close, BoardInv, Truthful, Waiting
  <2> QED BY <1>2, <2>1
<1>5. ASSUME NEW p \in Pulls, Vanish(p) PROVE IInv'
  <2>1. BoardInv' BY <1>1, <1>5 DEF Vanish, BoardInv, Truthful
  <2> QED BY <1>2, <2>1
<1> QED BY <1>3, <1>4, <1>5 DEF Distributor

LEMMA StepFail ==
  ASSUME IInv, NEW r \in Requests, Fail(r)
  PROVE  IInv'
BY IsDone, BoardStays, TablesStay DEF IInv, Fail, tables

LEMMA StepRestart ==
  ASSUME IInv, Restart
  PROVE  IInv'
<1> USE DEF IInv
<1>1. <<>> \in Seq(Outcome) /\ Len(<<>>) = 0 BY EmptySeq
<1>2. UNCHANGED <<ofModel, tables, fn>> /\ pulled' = pulled BY DEF Restart, tables
<1>3. BoardInv' BY <1>1, <1>2 DEF Restart, BoardInv, Waiting
<1>4. NoRq \in RqRecord /\ NoRq.at = "idle" /\ NoRq.models = {} BY DEF NoRq, RqRecord, ModelState
<1>5. RequestsInv' BY <1>2, <1>4 DEF Restart, RequestsInv, RequestInv
<1> QED BY <1>2, <1>3, <1>5, TablesStay

-----------------------------------------------------------------------------
(* The theorems.                                                           *)

LEMMA StepInv == IInv /\ [Next]_vars => IInv'
<1> SUFFICES ASSUME IInv, [Next]_vars PROVE IInv' OBVIOUS
<1>1. ASSUME NEW r \in Requests, Begin(r) PROVE IInv' BY <1>1, StepBegin
<1>2. ASSUME NEW r \in Requests, Continue(r) PROVE IInv'
      BY <1>2, StepDeploy, StepRemove, StepSwitch, StepSyncPush DEF Continue
<1>3. ASSUME NEW r \in Requests, Fail(r) PROVE IInv' BY <1>3, StepFail
<1>4. CASE Download BY <1>4, StepDownloadEnds, StepBoard DEF Download
<1>5. CASE Distributor BY <1>5, StepBoard
<1>6. ASSUME NEW reachable \in BOOLEAN, PullHook(reachable) PROVE IInv' BY <1>6, StepPullHook
<1>7. CASE PullHookFails BY <1>7, StepPullHookFails
<1>8. CASE Restart BY <1>8, StepRestart
<1>9. CASE UNCHANGED vars
  <2>1. UNCHANGED <<boardVars, tables, fn, rq>> /\ pulled' = pulled BY <1>9 DEF vars, tables
  <2> QED BY <2>1, BoardStays, TablesStay, RequestsStay DEF IInv
<1> QED BY <1>1, <1>2, <1>3, <1>4, <1>5, <1>6, <1>7, <1>8, <1>9 DEF Next

\* Whoever is about to make a model available knows of a download of it that
\* succeeded: the inductive invariant behind the other theorems.
THEOREM Grounded == Spec => []IInv
<1>1. Init => IInv BY InitInv
<1>2. IInv /\ [Next]_vars => IInv' BY StepInv
<1> QED BY <1>1, <1>2, PTL DEF Spec

\* The tables, the downloads and the requests keep their types.
THEOREM TypeCorrect == Spec => []TypeOK
<1>1. IInv => TypeOK BY DEF IInv, BoardInv, RequestsInv, TablesInv, TypeOK, RqRecord
<1> QED BY <1>1, Grounded, PTL

\* A model is usable only if a download of it has succeeded.
THEOREM NoPhantom == Spec => []UsableWasPulled
<1>1. IInv => UsableWasPulled BY DEF IInv, TablesInv
<1> QED BY <1>1, Grounded, PTL

\* The gateway has a provider for the models in order, and none for those that are
\* disabled, as far as its last push for them arrived.
THEOREM GatewayFollows == Spec => []GatewayFollowsState
<1>1. IInv => GatewayFollowsState BY DEF IInv, TablesInv, GatewayFollowsState
<1> QED BY <1>1, Grounded, PTL
=============================================================================
