----------------------------- MODULE LocalModel -----------------------------
(***************************************************************************)
(* Local models: the record of each model, the services created for a      *)
(* model that is being deployed, their AI APIs, and the provider the       *)
(* gateway has for a model.  The code is module/ai-local and the ai-local  *)
(* controller; downloads are those of PullBoard.                           *)
(*                                                                         *)
(* Deploy, CancelDeploy and RemoveModel open a transaction but call their  *)
(* services with the outer context, so each of their calls commits on its  *)
(* own and is a step.  Enable, Disable and the callback of a download do   *)
(* run in their transactions: one step, with the call to the gateway,      *)
(* which stands although the commit after it fails.                        *)
(***************************************************************************)
EXTENDS PullBoard, FiniteSets

CONSTANTS
  Services,  \* the services DeployStart may create
  Requests   \* requests that can be in progress at once

VARIABLES
  row,     \* table ai_local_model: the state of each model
  cache,   \* table ai_local_model_cache: the model each service waits for
  svc,     \* table service: the state of each service of a local model
  born,    \* services ever created (an id is a fresh uuid)
  api,     \* table ai_api: the model of each service's AI API
  online,  \* the models the gateway has a provider for
  fn,      \* the service whose API the callback of each download creates
  rq,      \* where each request in progress is, and what it remembers
  pulled,  \* history: models of which a download has succeeded
  missed   \* history: models whose last push to the gateway was lost, or made for a row
           \* that was not committed, or from a list of models in order they had left

tables == <<row, cache, svc, born, api, online, pulled, missed>>
vars == <<boardVars, tables, fn, rq>>

-----------------------------------------------------------------------------
NoRq == [at |-> "idle", model |-> None, service |-> None, found |-> "none",
         pull |-> None, todo |-> {}, models |-> {}]

Ask(r, at, m, v) ==
  /\ rq[r].at = "idle"
  /\ rq' = [rq EXCEPT ![r] = [NoRq EXCEPT !.at = at, !.model = m, !.service = v]]

To(r, at) == rq' = [rq EXCEPT ![r].at = at]
Done(r) == rq' = [rq EXCEPT ![r] = NoRq]

-----------------------------------------------------------------------------
(* Deploying.                                                              *)

\* DeployStart creates the service and its cache row in one transaction; the
\* callback that is to create the service's API goes along with the request.
DeployStart(r, m, v) ==
  /\ v \notin born
  /\ born' = born \cup {v}
  /\ svc' = [svc EXCEPT ![v] = "deploying"]
  /\ cache' = [cache EXCEPT ![v] = m]
  /\ Ask(r, "read", m, v)
  /\ UNCHANGED <<boardVars, row, api, online, fn, pulled, missed>>

\* Deploy of a model, or of a service that waits for one.
Deploy(r, m) ==
  /\ Ask(r, "read", m, None)
  /\ UNCHANGED <<boardVars, tables, fn>>

DeployService(r, v) == cache[v] # None /\ Deploy(r, cache[v])

DeployRead(r) ==
  /\ rq[r].at = "read"
  /\ rq' = [rq EXCEPT ![r].found = row[rq[r].model], ![r].at = "write"]
  /\ UNCHANGED <<boardVars, tables, fn>>

\* Mutant: a model found disabled is put in order at once.
DeployWrite_EnablesEarly(r) ==
  LET m == rq[r].model
  IN /\ rq[r].at = "write"
     /\ row' = [row EXCEPT ![m] = IF rq[r].found = "none" THEN "deploying" ELSE "normal"]
     /\ To(r, "get")
     /\ UNCHANGED <<boardVars, cache, svc, born, api, online, pulled, missed, fn>>

\* Create fails when the row has appeared since, Save when it has gone.
DeployWrite(r) ==
  LET m == rq[r].model
  IN /\ rq[r].at = "write"
     /\ IF rq[r].found \notin {"none", "deploying_error"}
          THEN UNCHANGED row /\ To(r, "get")
          ELSE IF (rq[r].found = "none") = (row[m] = "none")
                 THEN row' = [row EXCEPT ![m] = "deploying"] /\ To(r, "get")
                 ELSE UNCHANGED row /\ Done(r)
     /\ UNCHANGED <<boardVars, cache, svc, born, api, online, pulled, missed, fn>>

\* PullModel: a caller that finds a download joins it, its callback is lost.
PullGet(r) ==
  /\ rq[r].at = "get"
  /\ IF registered[rq[r].model] = None THEN To(r, "register") ELSE Done(r)
  /\ UNCHANGED <<boardVars, tables, fn>>

PullRegister(r, p) ==
  /\ rq[r].at = "register"
  /\ Register(rq[r].model, p)
  /\ fn' = [fn EXCEPT ![p] = rq[r].service]
  /\ rq' = [rq EXCEPT ![r].at = "start", ![r].pull = p]
  /\ UNCHANGED tables

PullStart(r) ==
  /\ rq[r].at = "start"
  /\ Start(rq[r].pull)
  /\ Done(r)
  /\ UNCHANGED <<tables, fn>>

-----------------------------------------------------------------------------
(* The callback of a download: pullHook.                                   *)

\* syncGateway: a gateway that cannot be reached counts as synchronised.
Push(m, reachable, providers) ==
  /\ online' = IF reachable THEN providers ELSE online
  /\ missed' = IF reachable THEN missed \ {m} ELSE missed \cup {m}

\* The gateway was told, and the transaction then fails to commit.
PushOutlives(m, providers) ==
  /\ online' = providers
  /\ missed' = missed \cup {m}

\* The services waiting for m; their state is 0 (normal), also on an error.
Released(m) ==
  [v \in Services |-> IF cache[v] = m /\ svc[v] # "none" THEN "normal" ELSE svc[v]]

\* The API is created outside the transaction; without its service it fails.
CreateApi(m, v) == api' = IF v = None THEN api ELSE [api EXCEPT ![v] = m]

PullHook(reachable) ==
  LET m == handler.msg.model
      p == registered[m]
  IN /\ Hook
     /\ IF p = None \/ row[m] = "none" THEN UNCHANGED tables
        ELSE IF handler.msg.status = "error"
          THEN /\ row' = [row EXCEPT ![m] = "deploying_error"]
               /\ svc' = Released(m)
               /\ UNCHANGED <<cache, born, api, online, pulled, missed>>
          ELSE IF fn[p] # None /\ svc[fn[p]] = "none" THEN UNCHANGED tables
          ELSE /\ row' = [row EXCEPT ![m] = "normal"]
               /\ svc' = Released(m)
               /\ CreateApi(m, fn[p])
               /\ Push(m, reachable, online \cup {m})
               /\ UNCHANGED <<cache, born, pulled>>
     /\ UNCHANGED <<fn, rq>>

\* The gateway refuses the provider, or takes it and the commit fails: the transaction
\* rolls back, the API stays.
PullHookFails ==
  LET m == handler.msg.model
      p == registered[m]
  IN /\ handler.msg.status = "success" /\ p # None /\ row[m] # "none"
     /\ fn[p] # None => svc[fn[p]] # "none"
     /\ Hook
     /\ CreateApi(m, fn[p])
     /\ UNCHANGED <<online, missed>> \/ PushOutlives(m, online \cup {m})
     /\ UNCHANGED <<row, cache, svc, born, pulled, fn, rq>>

-----------------------------------------------------------------------------
(* Cancelling a deployment.                                                *)

CancelList(r, m) ==
  /\ rq[r].at = "idle"
  /\ rq' = [rq EXCEPT ![r] = [NoRq EXCEPT !.at = "cancelService", !.model = m,
                                 !.todo = {v \in Services : cache[v] = m}]]
  /\ UNCHANGED <<boardVars, tables, fn>>

\* A listed service that does not run yet goes, with its API.
CancelService(r, v) ==
  /\ rq[r].at = "cancelService"
  /\ v \in rq[r].todo
  /\ rq' = [rq EXCEPT ![r].todo = @ \ {v}]
  /\ IF svc[v] \in {"none", "normal"} THEN UNCHANGED <<svc, api>>
     ELSE /\ svc' = [svc EXCEPT ![v] = "none"]
          /\ api' = [api EXCEPT ![v] = None]
  /\ UNCHANGED <<boardVars, row, cache, born, online, pulled, missed, fn>>

CancelCache(r) ==
  /\ rq[r].at = "cancelService"
  /\ rq[r].todo = {}
  /\ cache' = [v \in Services |-> IF cache[v] = rq[r].model THEN None ELSE cache[v]]
  /\ To(r, "cancelRow")
  /\ UNCHANGED <<boardVars, row, svc, born, api, online, pulled, missed, fn>>

\* Without a row the request ends here and stops nothing.
CancelRow(r) ==
  /\ rq[r].at = "cancelRow"
  /\ IF row[rq[r].model] = "none" THEN UNCHANGED row /\ Done(r)
     ELSE row' = [row EXCEPT ![rq[r].model] = "none"] /\ To(r, "stop")
  /\ UNCHANGED <<boardVars, cache, svc, born, api, online, pulled, missed, fn>>

\* StopPull, for CancelDeploy and RemoveModel.
StopModel(r) ==
  /\ rq[r].at = "stop"
  /\ Stop(rq[r].model)
  /\ Done(r)
  /\ UNCHANGED <<tables, fn>>

-----------------------------------------------------------------------------
(* Removing, enabling and disabling: check first, write later.             *)

RemoveCount(r, m) ==
  /\ \A v \in Services : api[v] # m
  /\ Ask(r, "removeRead", m, None)
  /\ UNCHANGED <<boardVars, tables, fn>>

RemoveRead(r) ==
  LET state == row[rq[r].model]
  IN /\ rq[r].at = "removeRead"
     /\ IF state = "deploying" THEN Done(r)
        ELSE To(r, IF state = "none" THEN "stop" ELSE "removeRow")
     /\ UNCHANGED <<boardVars, tables, fn>>

RemoveRow(r) ==
  /\ rq[r].at = "removeRow"
  /\ IF row[rq[r].model] = "none" THEN UNCHANGED row /\ Done(r)
     ELSE row' = [row EXCEPT ![rq[r].model] = "none"] /\ To(r, "stop")
  /\ UNCHANGED <<boardVars, cache, svc, born, api, online, pulled, missed, fn>>

EnableRead(r, m) ==
  /\ row[m] \in {"disabled", "error"}
  /\ Ask(r, "enable", m, None)
  /\ UNCHANGED <<boardVars, tables, fn>>

DisableRead(r, m) ==
  /\ row[m] = "normal"
  /\ Ask(r, "disable", m, None)
  /\ UNCHANGED <<boardVars, tables, fn>>

\* Mutant: the gateway is only told about models that are disabled.
SwitchTo_NeverOnline(r, state, reachable, providers) ==
  LET m == rq[r].model
  IN /\ IF row[m] = "none" THEN UNCHANGED <<row, online, missed>>
        ELSE /\ row' = [row EXCEPT ![m] = state]
             /\ Push(m, reachable, IF state = "disabled" THEN providers ELSE online)
     /\ Done(r)
     /\ UNCHANGED <<boardVars, cache, svc, born, api, pulled, fn>>

\* Mutant: the gateway is only told about models that are enabled.
SwitchTo_NeverOffline(r, state, reachable, providers) ==
  LET m == rq[r].model
  IN /\ IF row[m] = "none" THEN UNCHANGED <<row, online, missed>>
        ELSE /\ row' = [row EXCEPT ![m] = state]
             /\ Push(m, reachable, IF state = "normal" THEN providers ELSE online)
     /\ Done(r)
     /\ UNCHANGED <<boardVars, cache, svc, born, api, pulled, fn>>

SwitchTo(r, state, reachable, providers) ==
  LET m == rq[r].model
  IN /\ IF row[m] = "none" THEN UNCHANGED <<row, online, missed>>
        ELSE \/ /\ row' = [row EXCEPT ![m] = state]
                /\ Push(m, reachable, providers)
             \/ UNCHANGED row /\ PushOutlives(m, providers)
     /\ Done(r)
     /\ UNCHANGED <<boardVars, cache, svc, born, api, pulled, fn>>

Enable(r, reachable) ==
  /\ rq[r].at = "enable"
  /\ SwitchTo(r, "normal", reachable, online \cup {rq[r].model})

Disable(r, reachable) ==
  /\ rq[r].at = "disable"
  /\ SwitchTo(r, "disabled", reachable, online \ {rq[r].model})

\* SyncLocalModels, when the address of Ollama changes: list the models in
\* order, then give the gateway their providers.
SyncRead(r) ==
  /\ rq[r].at = "idle"
  /\ rq' = [rq EXCEPT ![r] = [NoRq EXCEPT !.at = "sync",
                                 !.models = {m \in Models : row[m] = "normal"}]]
  /\ UNCHANGED <<boardVars, tables, fn>>

SyncPush(r) ==
  /\ rq[r].at = "sync"
  /\ LET stale == {m \in rq[r].models : row[m] # "normal"}
     IN /\ online' = online \cup rq[r].models
        /\ missed' = (missed \ rq[r].models) \cup stale
  /\ Done(r)
  /\ UNCHANGED <<boardVars, row, cache, svc, born, api, pulled, fn>>

-----------------------------------------------------------------------------
(* Downloads, failures and restarts.                                       *)

DownloadEnds(p, status) ==
  /\ Finish(p, status)
  /\ pulled' = IF status = "success" THEN pulled \cup {ofModel[p]} ELSE pulled
  /\ UNCHANGED <<row, cache, svc, born, api, online, missed, fn, rq>>

Download ==
  \E p \in Pulls : \/ \E st \in {"success", "error"} : DownloadEnds(p, st)
                   \/ Vanish(p) /\ UNCHANGED <<tables, fn, rq>>

\* A database or gateway call fails before it wrote anything.
Fail(r) ==
  /\ rq[r].at # "idle"
  /\ Done(r)
  /\ UNCHANGED <<boardVars, tables, fn>>

Restart ==
  /\ registered' = [m \in Models |-> None]
  /\ running' = {}
  /\ outcomes' = <<>>
  /\ handler' = Waiting
  /\ rq' = [r \in Requests |-> NoRq]
  /\ UNCHANGED <<ofModel, tables, fn>>

-----------------------------------------------------------------------------
Init ==
  /\ BoardInit
  /\ row = [m \in Models |-> "none"]
  /\ cache = [v \in Services |-> None]
  /\ svc = [v \in Services |-> "none"]
  /\ born = {}
  /\ api = [v \in Services |-> None]
  /\ online = {}
  /\ fn = [p \in Pulls |-> None]
  /\ rq = [r \in Requests |-> NoRq]
  /\ pulled = {}
  /\ missed = {}

Begin(r) ==
  \/ \E m \in Models :
       \/ Deploy(r, m) \/ (\E v \in Services : DeployStart(r, m, v))
       \/ CancelList(r, m) \/ RemoveCount(r, m) \/ EnableRead(r, m) \/ DisableRead(r, m)
  \/ \E v \in Services : DeployService(r, v)
  \/ SyncRead(r)

Continue(r) ==
  \/ DeployRead(r) \/ DeployWrite(r) \/ PullGet(r) \/ PullStart(r)
  \/ (\E p \in Pulls : PullRegister(r, p))
  \/ (\E v \in Services : CancelService(r, v)) \/ CancelCache(r) \/ CancelRow(r)
  \/ StopModel(r) \/ RemoveRead(r) \/ RemoveRow(r)
  \/ (\E reachable \in BOOLEAN : Enable(r, reachable) \/ Disable(r, reachable))
  \/ SyncPush(r)

Distributor == (Take \/ Close) /\ UNCHANGED <<tables, fn, rq>>

Next ==
  \/ \E r \in Requests : Begin(r) \/ Continue(r) \/ Fail(r)
  \/ Download \/ Distributor
  \/ (\E reachable \in BOOLEAN : PullHook(reachable)) \/ PullHookFails
  \/ Restart

Spec == Init /\ [][Next]_vars

-----------------------------------------------------------------------------
ModelState == {"none", "deploying", "normal", "disabled", "deploying_error", "error"}

\* The tables, the downloads and the requests hold values of their kinds.
TypeOK ==
  /\ registered \in [Models -> Pulls \cup {None}]
  /\ ofModel \in [Pulls -> Models \cup {None}]
  /\ running \in SUBSET Pulls
  /\ outcomes \in Seq(Outcome)
  /\ handler \in [at : {"wait", "hook", "close"}, msg : Outcome \cup {NoOutcome}]
  /\ row \in [Models -> ModelState]
  /\ cache \in [Services -> Models \cup {None}]
  /\ svc \in [Services -> {"none", "deploying", "normal"}]
  /\ born \in SUBSET Services
  /\ api \in [Services -> Models \cup {None}]
  /\ online \in SUBSET Models
  /\ fn \in [Pulls -> Services \cup {None}]
  /\ rq \in [Requests -> [at : {"idle", "read", "write", "get", "register", "start",
               "cancelService", "cancelRow", "stop", "removeRead", "removeRow", "enable",
               "disable", "sync"},
               model : Models \cup {None}, service : Services \cup {None},
               found : ModelState, pull : Pulls \cup {None}, todo : SUBSET Services,
               models : SUBSET Models]]
  /\ pulled \in SUBSET Models
  /\ missed \in SUBSET Models

\* A model is usable (its row says so, an API names it, the gateway has its
\* provider) only if a download of it has succeeded: a stale check in Enable or
\* Disable, a callback handled late or for another download, a restart or a
\* cancelled deployment never make a model available that was never there.
UsableWasPulled ==
  /\ \A m \in Models : row[m] \in {"normal", "disabled"} => m \in pulled
  /\ \A v \in Services : api[v] # None => api[v] \in pulled
  /\ online \subseteq pulled

\* A disabled model has no provider in the gateway, however Enable, Disable and
\* the callbacks of downloads overlap on what they read before: the only ways to
\* miss it are a gateway that could not be reached, a commit that failed after it was told,
\* and SyncLocalModels's old list.
DisabledIsOffline == \A m \in Models \ missed : row[m] = "disabled" => m \notin online

\* And a model in order has its provider there.
NormalIsOnline == \A m \in Models \ missed : row[m] = "normal" => m \in online

\* Both: wherever the last push of a model arrived, the gateway follows its state,
\* whatever Enable, Disable and the callback of a download did in between.
GatewayFollowsState == DisabledIsOffline /\ NormalIsOnline

=============================================================================
