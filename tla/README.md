# APIPark in TLA+

APIPark is an open-source API portal and AI gateway console. A Go server keeps
services, releases, subscriptions, strategies, AI providers and models in MySQL and
pushes what is to be served to clusters of the Apinto gateway over HTTP; a console
(TypeScript, React) shows and changes all of it. This directory holds TLA+ models of
the parts of the server and of the console whose correctness depends on the order in
which things happen, the TLC configurations that check them on small instances, and
proofs that TLAPS checks for every size.

`PROJECT.json` lists for each definition the source lines it stands for, for each
property the runs that check it and a mutant of the code that violates it, for
each hazard of the code the properties aimed at it, and the results proved.

To check a run: `tlc -config PullExecutor_safe.cfg MCPullExecutor.tla`. To check
the proofs: `tlapm <module>.tla` for each of the eight modules named `*Proofs`.

Contents: [1 inventory](#1-inventory), [2 modules](#2-modules-and-the-code),
[3 runs](#3-runs-and-what-they-show), [4 fairness](#4-fairness),
[5 proofs](#5-proofs), [6 observations](#6-observations),
[7 not modelled](#7-what-is-not-modelled), [8 plan](#8-plan).

## 1. Inventory

### The server

Every request is served by a goroutine of its own. A handler in `controller/`
calls modules in `module/`, these call services in `service/`, and these the
stores. `store.ITransaction.Transaction(ctx, f)` runs `f` in a MySQL transaction,
and calls made with the inner context join it. Many handlers read first and open
the transaction afterwards, and some pass the outer context inside. Gateway calls
are made in the middle of transactions and cannot be rolled back with them. There
are no locks across requests, so what makes these parts hard is always the same:
**reads that are stale when used, gateway calls that outlive a rollback or are
lost, and steps of two requests in an order nobody tried.**

| component | state | operations | talks to | what is hard | what makes it correct | here |
|---|---|---|---|---|---|---|
| publish workflow (`module/publish`, `service/publish`, `controller/publish`) | `service_publish`, `service_publish_latest`, `service_publish_status` | Apply, ApplyOnRelease, ReleaseDo, Accept, Refuse, Stop, Close, Publish | releases, gateway | check and insert are not one step; a gateway that changes inside a transaction that may roll back; restarts | only reviewed releases are served; a release is served as a whole; records agree with the gateway | `PublishFlow`, `ReleaseGate` |
| releases (`module/release`, `service/release`) | `release`, `release_commit`, `service_runtime` | Create, Delete, GetRunning, SetRunning | publish workflow | deletion races with publication | what runs is stored | `PublishFlow` |
| project client of the gateway (`gateway/apinto/project.go`) | routers of a cluster | Online, Offline | Apinto | lost commit | a project's routers are replaced together | `PublishFlow` (Online) |
| subscriptions (`module/subscribe`, `service/subscribe`, Subscribe of `module/catalogue`) | `subscribe`, `subscribe_apply`, grants in the gateway | apply, approve, reject, revoke, cancel, add, ResetCluster | gateway | approval checks no status; decisions on rows read before; calls inside transactions | a cluster serves exactly the subscribed applications | `Subscription` |
| data-masking strategies (`module/strategy`, `service/strategy`) | `strategy`, its commits and latest, the gateway's variables | create, edit, enable, disable, delete, restore, publish | gateway | versions of one-second resolution; deletion outside the transaction; publish against save | the list says what the gateway does | `Strategy` |
| download executor (`ai-provider/local/executor.go`) | model pipelines, message queue, channels, contexts | PullModel, StopPull, CancelPipeline, RemoveModel, the distributor | Ollama, local models | goroutines, channels, a mutex that covers only part | no send on a closed channel; every stream ends; a slow client blocks nobody | `PullExecutor`, `PullBoard` |
| local models (`module/ai-local`, `controller/ai-local`) | `ai_local_model`, `ai_local_model_cache`, services and APIs of a model, a provider in the gateway | Deploy, DeployStart, CancelDeploy, RemoveModel, Enable, Disable, SyncLocalModels, the callback of a download | executor, services, gateway | transactions that hold nothing; callbacks for another download; restarts | a model is only usable after a download of it succeeded; the gateway follows the state | `LocalModel` |
| AI keys (`module/ai-key`, `service/ai-key`) and what `module/ai` does with them | `ai_key` with a priority per provider, a copy in the gateway | Create, Edit, Delete, Enable, Disable, Sort, List; AddProvider, UpdateProviderConfig, Delete | gateway, event handler | a numbered order kept by hand; stale maxima; partial pushes | the numbers are the console's list; the gateway never uses a deleted or disabled key or ranks one too high | `KeyPriority`, `KeyList` |
| balance list (`module/ai-balance`) | `ai_balance` with a global priority, the gateway's order | Create, Sort, Delete, two resynchronisations | gateway | a sort row by row without a transaction | the order in the gateway is the order in the table | `Balance` |
| AI APIs (`controller/ai-api`, `module/ai-api`) and the routers under them (`module/router`, `service/api`) | `ai_api_info`, `api`, `api_info`, the OpenAPI document of a service | Create, Edit, Delete | publish workflow | a document read and written whole, in different steps; calls outside their transaction | the document has the service's routes | `AiApi` |
| catalogue (`module/catalogue`) | `catalogue`, a tree by parent | Sort of a whole tree, Create, Edit, Delete | – | trees sent by pages that do not know of each other | no category falls out of the tree | `Catalogue` |
| token counting (`app/ai-event-handler`, a process of its own) | `ai_key.use_token`, `ai_api_use`, states of keys | HandleMessage on NSQ | keys, the pages that save keys | redelivery, a counter outside the transaction, errors that are acknowledged | a call is counted once | `TokenCount`; the states in `KeyPriority` |
| dynamic modules (`module/dynamic-module`) | plugin instances and their published versions | Create, Edit, Delete, Online, Offline | gateway | as strategies | what is online is a published version | no |
| services, upstreams, their commits; service import | versioned records | forms; Import chains create, apply, accept, publish | publish workflow | little: one transaction each | a release snapshots the latest commits | commits of API proxies in `PublishFlow` |
| tags, teams, permits, authorisations of applications and system, certificates, plugins of clusters, settings | records | forms | gateway, for some | little | – | no |
| cluster (`module/cluster`) | nodes and addresses | ResetCluster brings every module's resources online again | all modules with copies in the gateway | reset against a push | – | the reset, in `Subscription`, `Strategy`, `LocalModel` |
| MCP server (`mcp-server`) | in-memory registry | rebuilt at start, updated by Publish | publish workflow | lost on restart, then rebuilt | – | no |
| log, monitor, gateway HTTP clients, generic stores | – | queries, HTTP, SQL | – | – | – | used, not modelled |

### The console

A page keeps what it last loaded and the state of its dialogs; requests are awaited
while the user goes on clicking, React renders with the state a closure captured, and
answers come in any order or not at all. What is hard: **late answers, state captured
before it changed, dialogs and streams that outlive what they are about, and lists
that are edited without a key.**

| component (`frontend/packages/`) | state | hard | correct | here |
|---|---|---|---|---|
| publish list (`core/.../publish/SystemInsidePublishList.tsx`) | rows, buttons | flags and guards are written apart | an offered button is not refused; a blocked service can be freed | `PublishPage` |
| subscription pages (`core/.../approval`, `subscriber`, market's portal and consumer list) | lists, dialogs | others decide meanwhile; dialogs wait for promises | lists keep up with the page's own changes; no dialog hangs | `SubscriptionPages` |
| deployment dialog (`core/.../serviceDeployment`, `common/src/hooks/http.ts`) | stream, chunk buffer, timer, confirmation | chunks cut lines; a timer against a user | lines arrive whole and once; a dialog is about one deployment | `DeployDialog` |
| MCP inspector (`core/.../mcpService`) | a client, its tools | connecting is awaited | one connection, its server's tools | `McpConnection` |
| rights (`common/src/contexts/GlobalStateContext.tsx`, outlets of teams, services and consumers) | rights of system and team, menus | answers for a page that is gone; a Map changed in place | a page has its user's rights in its team | `TeamAccess` |
| strategy editor (`core/.../policy`) | filters, rules, dialogs | answers for another attribute; rows without a key | filters fit their attribute; what is not touched stays | `PolicyEditor` |
| categories (`core/.../serviceCategory`, `serviceHub`) | tree, backup, spinner | drags overlap; another page's changes | the page follows the server | `CataloguePage` |
| keys (`core/.../keySettings`, `loadBalancing`) | rows of a search or page | a row is dropped among some of the keys | it stays where it was dropped | `KeyPage` |
| choosing a model (`core/.../aiService/api`, `loadBalancing/AddModel.tsx`) | kind, provider, models, parameters | three requests in a chain, overtaken and lost | what is saved belongs together | `ModelChoice` |
| market list (`market/src/pages/serviceHub`) | services, filters, what is shown | a list made from captured filters; debounce | the list is what the filters say | `Market` |
| everything else: forms, tables, charts, documents, editors, texts | what is on the screen | little, or observed in section 6 | – | no |

## 2. Modules and the code

```
ReleaseGate <--implements-- PublishFlow  <--EXTENDS-- MCPublishFlow, PublishPage <-- PublishFlowProofs
PullBoard   <--implements-- PullExecutor <--EXTENDS-- MCPullExecutor, PullExecutorProofs
    ^-------EXTENDS-------- LocalModel   <--EXTENDS-- MCLocalModel, LocalModelProofs
KeyList     <--implements-- KeyPriority  <--EXTENDS-- KeyPage <-- MCKeyPriority, KeyPriorityProofs
Subscription <--EXTENDS-- MCSubscription, SubscriptionPages <-- SubscriptionProofs
Catalogue    <--EXTENDS-- CataloguePage

MCServer  INSTANCEs PublishFlow, Strategy, Catalogue, Balance, AiApi, TokenCount
    ^-------EXTENDS-- ServerProofs
PagesProofs INSTANCEs McpConnection, TeamAccess, CataloguePage, ModelChoice, Market,
                      PolicyEditor, DeployDialog
MCConsole INSTANCEs PublishFlowProofs, SubscriptionProofs, PagesProofs
    ^-------EXTENDS-- ConsoleProofs
```

A page's module extends the module of the server it talks to where the two disagree
about something: PublishPage, SubscriptionPages, CataloguePage and KeyPage are compositions
of a page with its handlers. MCServer and MCConsole put modules that have nothing to do
with each other into one run: a variable says which module a behaviour is of, the others
share variables, and the states are those of each module, not of their product. The
theorems about a page are in a module MCConsole takes as an instance, so that ConsoleProofs
can say them of the very behaviours the run explores.

Conventions. A database transaction that reads what it uses is one step; its
gateway calls are part of the step unless their failure is told apart. A read
outside a transaction, or inside one but with the outer context, is a step of its
own whose result is remembered by the request (`req`, `rq`, `session`) and used
later. Transactions are taken as serialised: anomalies that InnoDB's repeatable
read would add on top (two transactions that both read, then both write) are not
modelled, except where a row is read and saved as a whole (KeyPriority, Catalogue,
Strategy, TokenCount). A transaction that has told the gateway may still fail to commit:
the database is as it was, and the gateway is not. `Save` of a row that was deleted inserts it again. In a page, sending
a request is a step and its answer, which may be lost, another. Rows are records,
absent rows a record of their own (`NoFlow`, `NoKey`). History variables are named
so where they are declared; a guard reads one only as a bound. Operators whose name has a
suffix and whose comment begins with "Mutant" are plausible bugs; nothing uses them
but the mutation runs of `PROJECT.json`.

### The server

**PublishFlow** (publish workflow, releases, gateway client). One variable per
table, `gateway` for the routers of each cluster, `pc` and `req` for handlers in
progress. Apply is ApplyStart or CreateAndApply/ApplyCheck, then ApplyRead and
ApplyCreate; Stop and Close are StopRead and StopWrite; Publish is PublishStart
(or PublishRead inside ReleaseDo), PublishInfo, PublishBegin, one step per cluster
(ClusterOnline, ClusterCommitLost, ClusterFailed, RowRefused) and PublishCommit or
PublishAbort. During the per-cluster steps the transaction is open: it holds the
flow's status row once it has written it (`Holds`), its own writes are invisible until
PublishCommit, and its gateway calls are visible at once. Each cluster writes the row
twice, "publishing" first and its outcome last; the first write may be refused, which
ends that cluster only (RowRefused), and the last, a deferred one whose error is only
logged, may fail and leave "publishing" (`said` in ClusterEnds). ReleaseDo is the chain of all of these with a
Cleanup at the end of a failure. Fail and Restart may strike between any two steps.
`accepted` and `unsaid` are history variables: `unsaid` holds the flows of whose last
committed attempt a write of the status row failed.

**ReleaseGate** is the promise to callers of a service: approve, deploy a whole
release to a cluster in one step, record. `PublishFlow!ImplementsGate` states that
PublishFlow implements it with `approved <- Approved, serving <- gateway,
recorded <- running`.

**PullExecutor** (download executor). The mutex of the executor makes a step of
what runs under it, except the distributor's loop over the pipelines, which keeps
the mutex and takes a step per send (`dist.at = "send"`, `Unlocked`). PullModel
looks up, registers and joins a model pipeline in three steps (PullGet, PullSet,
PullAdd), because the code releases the mutex in between and joins without it.
Channels are bounded buffers with an open flag. Leaving a stream is
CancelPipeline (Leave); the download goroutine is Progress, PullEnds or
PullSilent (the Ollama client returns nil without a last message).

**PullBoard** is what the executor promises the module above it: one registered
download per model, each end of a download handled once, one at a time, by the
callback of the download registered *by then*, which is then unregistered.

**LocalModel** extends PullBoard with the records of models, services and APIs, the
gateway's providers and the requests on them. Deploy, CancelDeploy and RemoveModel
are split at every call, since their transaction is not the one the calls join;
Enable, Disable and the callback (PullHook) are one step after the reads they make
before. They tell the gateway inside their transaction, and when its commit then fails the
gateway keeps what it was told (PushOutlives). `pulled` and `missed` are history variables:
`missed` holds the models whose last push to the gateway was lost, was made for a row that
was not committed, or from SyncLocalModels's old list.

**KeyPriority** (AI keys of one provider). `key` is the table, `gateway` the copies. Each
operation takes the rows it works on (`was`): those there are now, or those a request has read
before (Read, `seen`), because a handler decides on rows read outside its transaction, because
the reports about keys come from another process, and because what is saved is the whole
row, its number with its status. `Commit` and `RollBack` are the two ways in which a
transaction ends that has told the gateway: by the first a gateway that cannot be had misses
all calls, which is answered as success, by the second the gateway has followed some or all of
them and the database none. `Misdirected` are the requests whose key is not of the provider they name:
keys are looked up by uuid alone, so that a key of another provider is deleted, disabled or
moved among this provider's, or one of this provider's among another's, whose numbers
(`Foreign`) mean nothing here. Moved is the arithmetic of SortBefore and SortAfter: Between are
the rows the SQL selects, Place the new number of the moved key. `missed` and `skewed` are
history variables: `missed` holds the keys of which the gateway was not told the last, or was
told what was not committed, `skewed` says that numbers were written that rest on others than
the table has (`Mixed`), or that a key was moved behind itself or next to one of another provider.

**KeyList** is the list the console shows: append, take out, move next to.

**Subscription** (subscriptions of one service). `sub` is the status of each
application's row, `apply` the applications for approval, `gateway` who may call in
each cluster. Approve and reject decide on the application, Revoke and Subscribe on a
row read before; the gateway is called inside transactions and keeps what it was told
when these roll back. ResetCluster writes a cluster's new address first, so that the
cluster is a gateway that lets nobody call, and reads the list to bring online; TellCluster
(initGateway) tells the gateway of those (`telling`), or fails after any of the steps before, and the cluster
stays without them. `unsure` is the history variable for grants the code promises nothing about.

**Strategy** (data masking). A row has a content, the second of its last change, and
the flags "stopped" and "deleted"; `latest` is what was published last. Publishing reads
all rows, flags and purges the deleted ones, writes the versions, and tells the gateway, in
steps between which users save, delete and restore. The column the console shows is
`Status`, a comparison of seconds. `hazy` holds the strategies the code gets wrong.

**Catalogue** (categories). A category is its row's parent. A Sort sends a whole tree,
read when its page last loaded; the other operations read a row and write it back whole.
`astray` holds what the two races named in CategoriesStay take away.

**Balance** (fallback list). Sort has no transaction, although it opens one: SortRead,
one SortUpdate per row and SortPush are steps, and another request or a failure may come
between any two. An entry may be moved next to itself, which the server does not refuse: behind
itself it gets the next number, and if that is another's the two tie (`Ties`). Delete calls the
gateway inside its transaction, whose commit may then fail (DeleteFails). SyncRead and SyncPush are the two resynchronisations.

**AiApi** (routes of an AI service). Create, Edit and Delete are chains of single calls.
The document is one value, read by ReadDoc and replaced by WriteDoc. `claim` is the path
a route was created with, which is what the question for a taken path looks at, `route`
the path it has.

**TokenCount** (event handler). One handler at a time takes a message of NSQ: the key is
counted in a transaction, the route outside it, and the commit may be refused or never
come. What is not acknowledged comes again, up to MaxAttempts. A page may save a whole
row of a key with the count it has read.

### The console

**PublishPage** adds to PublishFlow the rows a page shows (`shown`), the flags the
handler computes and the buttons made from them. **SubscriptionPages** adds four pages
with their lists and dialogs to Subscription. A list is asked for, read by the server and
shown in three steps (Asks, ReadList, Load), and may be refused or lost (LoadFails); each page has
several such requests under way (`asked`), whose answers come in any order. `outdated` are the
pages whose list need not be the server's: somebody else has changed it since it was read, or what
the page asked for last was refused, lost or overtaken. **CataloguePage** adds the shown tree, its
backup and the spinner to Catalogue. **KeyPage** adds to KeyPriority the request a dragged
row sends, on a page that shows some of the keys in their order (`Rising`).

**DeployDialog** has the text of the stream as a sequence of characters (a head, a tail
and an end for each line), which `wire` and `buffer` cut anywhere; `ShowAll` folds the lines
that are complete into the screen, as the loop over them does; the dialog's step, its
half-second timer, its confirmation; and the table below, which is loaded again when the
dialog closes.

**McpConnection** has the clients of one tab: the page holds one, `conn` says which are
connected. Connected, Fails and Listed come whenever the network answers.

**TeamAccess** has rights as "whose, in which team", for the system and the team, the
menu made from them, and requests on the way. `strayed` and `carried` mark what the code
gets wrong: an answer for another page, and a menu that outlives a cleaning.

**PolicyEditor** has filters with a key and values, the dialog with its form, the
requests for values of remote attributes, and rules. Values stand for an attribute they
are of, so that a value under another attribute is seen.

**ModelChoice** has the choice of a page (`llm`) and of its dialog, and for each of them the
requests without an answer in the order in which they were sent, so that an answer knows
whether a later request overtook it. Its two uses, for a route and for the fallback list, have
different starts and submissions.

**Market** has the filters, what is shown, and the filters each pending search has
captured.

## 3. Runs and what they show

Passing runs finish in at most three minutes with two workers.

| run | instance | checks | shows |
|---|---|---|---|
| `PublishFlow_concurrent` | 1 service, 1 API, 1 cluster, 2 releases, 2 flows, 2 requests | TypeOK, OnlyApprovedServed, Provenance, StatusRowAgrees | with any two requests overlapping, storage and gateway errors and restarts, nothing unreviewed is served or recorded as running; a published flow and its status row tell one story |
| `PublishFlow_services` | 2 services, an API each, 1 request | OneVersionPerProject, ImplementsGate | routers of a project always belong to one release, also when a deleted release's publish takes over every API; ReleaseGate is implemented |
| `PublishFlow_live` | 1 release, 1 flow, 2 clusters, 2 requests | RequestsEnd | every request ends, also two that publish one flow and wait for its status row |
| `PublishFlow_RunningIsStored` | 2 requests | RunningIsStored, **violated** | a deleted release can become the running one |
| `PullExecutor_safe` | 2 models, 2 callers, 2 downloads, pipelines of 1, queue of 2 | NoUseAfterClose, NoDeadPipeline, ImplementsBoard | in every interleaving no channel is closed twice or used after, a pipeline whose download has ended is closed, PullBoard is implemented |
| `PullExecutor_live` | 1 model, 2 callers, 2 downloads, **pipelines of size 0**, queue of 1 | StoppedPullsEnd, LastMessageCloses | with clients that never read, a stopped download still ends and the end of a download closes its pipelines |
| `PullExecutor_ModelCloseClosesAll` | 1 model, 2 callers | ModelCloseClosesAll, **violated** | a registration overwritten by another caller is never closed |
| `LocalModel_races` | 1 model, 1 service, 2 downloads, 2 requests | UsableWasPulled, GatewayFollowsState | stale checks, late or foreign callbacks and restarts never make a model usable that was not downloaded; the gateway follows the state wherever its last push arrived and was committed |
| `KeyPriority_keys` | 3 keys, 1 request that holds what it has read, numbers up to 3, at most 1 missed push | Dense, NeverAhead, OnlyUsableKeys, ImplementsList, DragArrives | as long as no request writes numbers that rest on old ones, the numbers implement the console's list; whatever was read before, no copy in the gateway that is of the last change ranks a key too high, outlives it or ignores that it is disabled; a dragged row stays where it was dropped, among the rows of a search too |
| `Subscription_gateway` | 1 application, 2 clusters, 2 applications for approval, 2 requests, 3 rows | GatewayAgrees, ApplyingKeeps | a cluster serves exactly the subscribed, wherever the code promises it, through resets to a new gateway that fail half-way; applying again costs nobody a subscription |
| `Server` | six modules in turn, see below | GatewayMatchesRunning, StatusHonest, CategoriesStay, BalanceKept, DocMatches, CallsCounted | after publishing without failures all clusters serve the running release; the strategies' column tells the truth; no category falls out of the tree; the fallback list's numbers and the gateway's agree; a service's document has its routes; calls are counted as often as promised |
| `Console` | nine modules in turn, see below | OfferedIsServed, BlockedHasWayOut, ListKeepsUp, NoDialogHangs, LinesInOrder, FollowsDeployment, OneConnection, OwnRights, FiltersFit, UntouchedStay, PageFollows, ChoiceFits, ListFits | what the table of the console in section 1 calls correct |

The properties speak of one or two actors, so the bounds are chosen to have two of
whatever can collide:

- *Releases and flows*: with two flows one can be stale while the other is active,
  on the same or on another release. Uuids are drawn once (`minted`), so a bound on
  releases is a bound on creations. Where all flows are used up an application
  fails (`OutOfFlows`), which the code does for any storage error.
- *Handlers*: two requests give every pair of handlers in every interleaving. With
  one request the runs on two services and two clusters fit; what they check is
  about the order of publishes, and single-step requests still come between.
- *Clusters*: the repository keeps one row ("default") in `cluster`, the code loops
  over all. StatusRowAgrees needs the single one: the status row has no cluster, so
  the last answer stays. Other runs have two.
- *PullExecutor*: two callers collide on a registration, two downloads on a model,
  a queue of two holds the end of one behind another's message. In the live run
  channels of size 0 are always full, the case that could block the distributor.
  MaxSize 1 (0) stands for 100, and the code admits MaxSize + 1. Ids of callers and
  downloads are used once, so the system may stop: deadlock is not checked there and
  in LocalModel.
- *Keys*: three keys are the fewest for which a sort makes one key cross two others
  or moves between neighbours. `MaxNumber` bounds a key's number, `MaxMissed` how many
  keys' pushes are missed at a time. One request holds rows it has read while requests of one
  step change them, which is all that two could do to each other's rows. The constraint
  `Followed` ends a behaviour where Dense, ImplementsList and with them the order say nothing
  any more (`skewed`), where a request is held while a push is missed, and where it has read
  three keys that are all still there; with two of them every pair of operations meets. What a
  held request whose key is another provider's does is not modelled, nor rows of a deleted
  provider that somebody has read. The theorems have none of these bounds but the last.
- *Subscriptions*: every query names one application and one service, so one application
  is enough; two applications for approval and two requests collide on its row, two
  clusters are told one after the other. `MaxRows` 3 lets the row be removed and drawn
  again twice. One reset of a cluster is in progress at a time.
- *Server*: publishing has 2 APIs, 2 clusters, 2 releases and 1 request without failures.
  Strategies: 1 strategy of 1 content, 2 requests, 2 seconds (`MaxSeconds`), so that changes
  fall into one second or into two. Categories: 2 and 3 requests, which is what a loop takes:
  two drags and a rename. The fallback list: 3 entries, one of them local, 2 requests,
  numbers up to 3. AI routes: 3 routes and 3 paths, 2 requests. Token counting: 2 calls of 1
  key and `MaxAttempts` 2, so that each is delivered again once. Balance and AiApi are not
  explored past a state in which an exception of their property has happened, and
  TokenCount ends with its last message (`Over`, a step that changes nothing).
- *Console*: publishing has 1 API, 1 cluster, 2 releases, 2 flows and 2 handlers.
  Subscriptions: 1 application, the four pages and a request of each button, taken twice:
  two pages at once whose answers arrive while the service goes on approving as it does
  (`Calm`), with one request for its list each, and one page that loses answers, its lists' too,
  and has two requests for its list that overtake each other (`Lists`), while the service changes
  that, with 2 rows (MaxUsers and MaxRows). Deployment: 2 lines (`MaxLines`), a phase and a last one, or one
  that the reader cuts before or after another's end. MCP: 2 servers, 3
  clients, since two connects may overlap a third. Rights: 2 users, 2 teams, 3 requests.
  Strategies: four editors, for each kind of attribute and for rules, with 2 filters where
  two can be mixed up and at most 2 requests (`MaxReads`). Categories: 2 on a page alone in
  the system, and 1 with other pages' changes. Models: two providers with local models, or one
  without models, 3 requests (`MaxAsked`). Market: 3 services, 3 categories in a tree, one
  keystroke pending (`MaxTyped`).

Symmetry is used only where the constants are interchangeable and no liveness
property is checked: releases, flows, clusters, handlers, models, callers,
downloads, services of LocalModel, applications and requests of Subscription, and
keys but the default one.

Exceptions that properties name, each a thing the code does and a history variable
records: `skewed` in Dense, ImplementsList and BalanceKept; `missed` wherever copies in the
gateway are compared; `Overwritten` in LastMessageCloses, which excepts callers over
whose model pipeline another caller has registered one; `unsaid` in StatusRowAgrees; `unsure`, `hazy`, `astray`, `upset`,
`passed` and `torn` in the server's other modules and `outdated`, `silent`, `overlapped`, `strayed`,
`carried`, `excused` and `late` in the console's. The comment at the property says what
sets each.

## 4. Fairness

Safety needs none. The two live runs assume:

- `PublishFlow!FairSpec`: weak fairness of the next step of each request in progress
  (Proceed, or Fail where the bound on flows is used up): a request is scheduled and
  does not stand still while it can go on. Errors and restarts may come at any time
  and need not come. The server schedules runnable goroutines, and database and
  gateway calls answer. Strong fairness of PublishBegin: it waits for a lock on
  a row of `service_publish_status` that others may take repeatedly, and InnoDB
  grants row locks in queue order. No request has to be started.
- `PullExecutor!FairSpec`: weak fairness of the distributor's steps and of PullAdd
  (goroutines that are runnable and wait for nobody), and strong fairness of the end of a
  cancelled download: `client.Pull` returns when its context is cancelled, and the
  goroutine then waits for room in the queue in the order in which senders came, as Go
  channels do. No fairness for clients: they need not read, leave or exist. None
  for a download that is not cancelled: it may go on for ever.

## 5. Proofs

Eight modules of proofs, checked by `tlapm` to the last leaf. They state every safety property
of the passing runs, and hold for any number of services, releases, flows, clusters, models, downloads, keys, requests, pages and so on, and for any value of the bounds.
They assume only the named ASSUMEs of the modules, or what a theorem's own ASSUME says where the
module is one that TLC takes as an instance: None is none of the ids, sets that are counted
are finite, sizes and bounds are numbers, an API has an owner, a model a provider. MCServer
and MCConsole say the same of their instances (`ConstantsAssumption`), and TLC evaluates it.

A property as it is checked is seldom inductive: it says nothing of what requests, answers and
dialogs are about to do. Each invariant below adds just that.

**PublishFlowProofs** (PublishFlow, PublishPage)

- `ProvenanceHolds`: a state where a request stands before ClusterOnline with a release
  nobody accepted satisfies OnlyApprovedServed. Provenance says where each approval comes from:
  a flow status that only follows from Accept means the flow was accepted (FlowProvenance), and
  a request past the status check works on an accepted flow of the release it will put online
  (RequestProvenance). It holds although Stop writes a stale status and setAction checks none,
  because neither changes which release a flow is of. From it: `TypeCorrect`, `GateImplemented`
  (ImplementsGate: each step maps to a step of ReleaseGate or a stutter), and `ApprovedOnly` and
  `OneVersion`, which are proved of ReleaseGate's steps and carried over by the refinement.
- `StatusRows` (StatusRowAgrees), for one cluster: the row has none, so that with several it has
  only the last answer. Excepted are flows of whose last attempt a write of the row failed (`unsaid`). `Attempt` says what the transaction has to write when its cluster has answered.
- `MatchesRunning` (GatewayMatchesRunning), for one request at a time of one service and no
  failures, which is what the property says: each cluster has what is recorded as running, or
  already what is being published (`Clustered`), which needs the snapshot of a release not to
  change under it (`Drawn`, `Prepared`).
- `OfferedServed` and `WayOut` (OfferedIsServed, BlockedHasWayOut), of a page whose service exists:
  a flow of the visited service and its release know each other (`Visiting`), so that the
  list's flags are the handlers' guards.

**PullExecutorProofs** - `BookkeepingHolds`: whether a listed pipeline is open depends on who else
lists it. Only a pipeline's own caller's model pipeline lists it, what is listed is open, what
is registered for a model is of that model and not cancelled, and queued messages and the one
the distributor holds name downloads of their model. From it `TypeCorrect`, `NothingAfterClose`,
`OwnMessages`, `StoppedGone`; with an invariant about the last message of a download,
`NoneDead`. `BoardImplemented` (ImplementsBoard): the board has only the ends of downloads, in
the order of the queue. `EndsTo` of a queue and a message more is that of the queue and its end; the
distributor's steps that send map to stutters, and an end that leaves the queue to the board's.

**LocalModelProofs** - `Grounded`: whoever is about to make a model available - a request that has
read that it is in use, a list for the gateway, a reported success that waits for its
callback - knows of a model that has been pulled. From it `TypeCorrect`, `NoPhantom`
(UsableWasPulled), `GatewayFollows` (GatewayFollowsState): a row and the gateway change together,
or the model is `missed` (`Switched`, `Outlived`).

**KeyPriorityProofs** (KeyPriority, KeyPage)

- `Kept`: types, and of each key that is not `missed` that its copy in the gateway is of a row
  that exists, is disabled when it is, and has no smaller number. A row that is
  not pushed is left, created or moved up, and no more disabled than it was (`Raised`); where a stale
  row is written instead, the key becomes `missed` (`Overwritten`). From it `TypeCorrect`, `NeverBetter` (NeverAhead), `NotUsed`
  (OnlyUsableKeys).
- `NumbersDense` (Dense): the numbers of n keys are 1 to n (`Numbered`), and the provider's own
  key is one of them. Moved moves a range of numbers by one, a permutation; a deletion closes
  the gap; an operation that is not `Mixed` has read the numbers there are (`MixedForm`) or leaves them.
- `ListImplemented` (ImplementsList): with dense numbers the list is the inverse of the numbering
  (`ListedForm`), so that a step's arithmetic of numbers is a step of KeyList on positions.
- `RowsArrive` (DragArrives): a page shows a subsequence, and the key next to which the request puts
  the dragged one is its neighbour there, whichever keys the page does not show.

**SubscriptionProofs** (Subscription, SubscriptionPages)

- `Undisturbed`: a request no other one disturbed (`raced`) still sees the row it has read, and
  an application it brought online on every cluster is still online there (`Reading`). From it
  `TypeCorrect`, `Agreement` (GatewayAgrees: of a cluster that is being reset, an application that
  is not `unsure` is served or still to be told, and one that is told is subscribed) and, as an
  action property, `NotLostByApplying` (ApplyingKeeps).
- `ListsKeepUp`: of the requests a page has for its list at most one is not late (`Current`), and what it
  has brought, or what is shown when there is none, is what the server has (`UpToDate`); else a
  request of the page has succeeded and its answer will make it ask (`Asking`). `DialogsReleased` (NoDialogHangs): a dialog
  that waits is there, and its request is in progress.

**ServerProofs** (MCServer: Strategy, Catalogue, Balance, AiApi, TokenCount, publishing)

- `StrategiesHonest`, `StatusKept` (StatusHonest): a publish works on a list it has read, so the
  invariant says of each strategy that is not `hazy` which versions of it there are (its row,
  what is published and what lists hold), that versions of one second are alike (`Distinct`), that
  a save's version is new (`Unwritten`), that deleted versions have no row (`Gone`), and at
  which version the gateway is at each step of a publish (`Gate`, `Missing`).
- `CategoriesHang`, `CategoriesKept` (CategoriesStay): that a tree has no loops is said without
  induction over its depth: every set of places that has with a category what is above it has the
  root, or a category that was written blindly (`Hangs`). A category that is being
  added is nobody else's (`PlantsNew`).
- `FallbackListed`, `FallbackKept` (BalanceKept): a sort writes its rows one at a time, and between
  two of them the numbers say nothing of the list, so that the property, which is about what is
  left when the sort is done, is not inductive. `FallInv` says of a sort at each of its steps that
  it leaves numbers (`Leaves`: those of the rows, with what is yet to be written) that rise along
  the list as its user asked for it (`RisesMoved`). The arithmetic of SortBefore and SortAfter is `PlanForm` and
  `MovedRises`, that the numbers a sort gives rise along the moved list, gaps and all; for an entry
  next to itself it is `PlanSelf`, with the room that there is (`FindsRoom`) where nothing ties. That a
  query lists the rows like this is `SortedExists` (there is such a list, by the cardinality of
  what is left once its largest has been taken) and `SortedOnce` (numbers without ties leave no
  other). `FallSent` says which request still has to tell the gateway a number it does not have.
- `RoutesDocumented`, `DocumentKept` (DocMatches): as long as no two requests share a route or a path
  (`RoutesApart`), the document has of each route in progress the path that its step says
  (`RouteUnderWay`), and of the others the path they have (`RoutesAtRest`).
- `TokensCounted`, `CountsKept` (CallsCounted): a counter is at least the calls that are settled, and at
  most the deliveries, without the one the handler is still to count (`Counts`).
- `GatewayKept` (GatewayMatchesRunning): MatchesRunning, of the behaviours of MCServer.

**PagesProofs** (the pages of the console that stand alone)

- `OnlyOne` (OneConnection): unless connects overlapped, at most one client is connecting
  (`Alone`), the open one is the page's (`Held`), and a connected page's tools are its server's
  (`Fresh`).
- `OnlyOwnRights` (OwnRights): requests on the way name what they are for (`Asked`), and where no
  page is open no rights in a team are kept.
- `TreeFollows` (PageFollows): what the page will show when the one request it has is refused or its
  list comes (`WillFollow`).
- `ChoicesFit` (ChoiceFits): the last request that matters brings what is missing, unless it was
  overtaken (`Latest`, `Brings`). A provider that has no models is excepted by the property.
- `MarketFits` (ListFits), for any services, categories and tags.
- `FiltersOwned` and `UntouchedSaved` (FiltersFit, UntouchedStay): at most one filter of an attribute,
  values of its own (`RowsInv`), a dialog about an attribute no other filter has (`DialogInv`), what
  was not touched here and at the server (`KeptInv`, `SettledInv`).
- `LinesWhole` (LinesInOrder): the lines that were handled, what the buffer holds and what is on the
  wire are together the text that was sent (`Whole`), however it is cut. `DeploymentFollowed`
  (FollowsDeployment): no line and no screen is further than the download (`Near`), and a
  stream that is not silent has said how the download ended before it ends (`EndInv`).

**ConsoleProofs** says what PublishFlowProofs, SubscriptionProofs and PagesProofs prove of pages for
the behaviours of MCConsole, whose properties the run `Console` checks.

Induction over data is only there where a set can stand for it: what the loops over lines, queues
and rows compute (`ShowAll`, `EndsTo`, `Without`) is proved from recursive functions by the least
position at which they would go wrong, and sums over sets by the theorems on cardinalities.

Model-checked only: RequestsEnd, StoppedPullsEnd and LastMessageCloses. Liveness under fairness is
out of reach of the installed provers, as is ENABLED.

## 6. Observations

Findings with a run that shows them (`findings` in `PROJECT.json`): a deleted release that
runs; a model pipeline overwritten in the table and never closed. Other things the models
follow the code in, which a reader might not expect, and what was noticed on the way:

### The server

- *Publish.* Two flows of one service can be active in spite of checkPublish's refusal
  (`module/publish/iml.go:449-455`): Apply checks first and inserts later, and setAction
  (`service/publish/iml.go:54`) ignores the status. Stop writes what it decided from an
  older read, and can turn a flow that has been published into a stopped one. A release whose flow is active can be deleted
  if the flow is not the release's latest. Apply does not look whether the release is
  the service's. Publishing a release with no commits left looks its APIs up with an
  empty condition, finds all APIs of the system and puts them under this service.
  ReleaseDo's cleanup deletes a release, which is normally refused, the flow being
  active. "publishing" is committed only where the deferred write of a cluster's outcome fails
  (`module/publish/iml.go:525-534`), which is logged: this is what the 30-second timeout of
  PublishStatuses ends in the answer; the row stays. Where both writes fail the row keeps the outcome of
  an earlier attempt.
- *Executor.* A model takes MaxSize + 1 pipelines (`executor.go:58`). A leaving client
  cancels under the name it asked for, which misses when the name is a service's. A
  caller that joins a download it did not start loses its callback. A pull that ends
  without a last message leaves its pipelines open.
- *Local models.* On an error `pullHook` assigns `state` instead of `serviceState`
  (`module/ai-local/iml.go:219`): services that wait for a failed model become
  normal, and the state "error" of `module/service/dto/output.go:14` is never set.
  RemoveModel can remove a model that is being deployed or has just got an API. After a
  restart a deploying model stays deploying. SyncLocalModels can bring a model online
  that was disabled meanwhile. The gateway is told inside the transaction: when the commit fails a
  disabled model is served, or a normal one is not.
- *Keys.* A report on NSQ, an edit and a change of status save the whole row
  (`service/universally/edit.go:31-55`): a report that was read before a sort gives the key its old
  number back, one read before a deletion inserts the key again, and a key that was disabled
  meanwhile is normal and stays offline. Delete, UpdateKeyStatus and Sort look a key up by its uuid
  alone (`module/ai-key/iml.go:216`, `371`, `service/ai-key/iml.go:112`, `161`): with the name of another
  provider in the request the keys of that one are renumbered or mixed with the moved one, and the
  gateway is told of a key it does not have. A commit that fails after the push leaves in the gateway
  a key that is not stored, or is disabled. Disabling a provider disables its default key in the table only.
  Enabling a key in error or expired does nothing and answers success. Resetting the
  gateway pushes providers again, but not their keys. Creating a key while its
  provider is deleted leaves a key without provider. Create drops the error of its
  insert and pushes the key it finds. Delete
  renumbers rows without pushing them (`module/ai-key/iml.go:230`), so that two keys can tie
  in the gateway that the console lists one after the other. A key moved behind itself gets
  the next number (`service/ai-key/iml.go:171`).
- *Subscriptions.* Pass looks at no status, so that an application that was taken back is
  approved. Reject leaves the row in review, RevokeApply leaves the application with the
  approver. A cluster that misses a call is only logged. A reset writes the cluster's address before the
  resources are online again (`module/cluster/impl.go:54-61`): when one fails the cluster is at a
  gateway without its subscribers until the next reset. DeleteSubscription has no route
  (`plugins/core/subscribe.go:18-20`).
- *Strategies.* Delete runs outside the transaction it opens (`module/strategy/iml.go:329`)
  and swallows errors. Publish publishes what is there now, not what the drawer showed. A
  restore that races a publish is lost; a save that races its purge brings the row back; two
  changes in one second show "online", and so does a stopped strategy. A publish that fails
  after the gateway took it leaves an orphan there. ToPublish and SearchAllByDriver ignore
  the driver.
- *Categories.* A rename writes back the whole row it read, so that a drag in between is
  undone, which may end in a loop and take a part out of the tree. A Sort undoes renames
  since its page loaded, and inserts a row again that was deleted since it was read. Delete
  looks for children and deletes in two steps, and does not look for services. Create computes
  a sort number that its handler drops.
- *Balance list.* The transaction around a sort is not its updates' (`service/ai-balance/iml.go:84-93`,
  `133-137`): a failure half-way, or a Create that reads the maximum meanwhile, gives two
  entries one number, and so does an entry moved behind itself (`104-115`), which nothing refuses. A
  Delete whose commit fails leaves a row the gateway no longer has. Sort pushes an entry that was deleted since its read. Where no address of
  Ollama was ever set every Sort writes its rows, answers an error and never tells the gateway
  (`module/ai-balance/iml.go:151-154`). Delete ignores the gateway's refusal. Create and Sort
  send an online model's address without the path that the resynchronisation sends
  (`iml.go:83`, `163`, `309`). A local model's duplicate check uses the empty provider, and Create
  does not check that the model is the provider's.
- *AI routes.* The outer context inside transactions makes every call its own. A document that is
  read and written whole in separate steps loses paths. Creating a route with a taken path fails
  only after its document and its row were written: a route without a router, whose edit and
  deletion always fail. Exist asks a table whose path an edit never changes
  (`service/api/iml.go:146-187`): the old path stays taken, the new one can be given twice. Edit
  writes the old name as the summary, and dereferences a model it does not check
  (`module/ai-api/iml.go:197`).
- *Token counting.* An error inside the transaction returns nil: it is committed and the message
  acknowledged, so that a call of a key without a row (deleted, or of a local model) is counted
  neither for its key nor for its route. Incr has its own context, so that after a refused commit
  or a stop the route is counted twice. The NSQ channel is the host's name: handlers on two
  hosts each count every message. A page that saves a key's whole row undoes a count.
- *Roles.* `resources/access/access.yaml` names dependents that do not exist, and one entry
  depends on itself.
- *Dashboard.* getTime divides seconds by 1000 once more.

### The console

- *Publish page.* Its requests to accept, refuse and execute send `project` where the routes read
  `query:service` (`plugins/publish_flow/apis.go:19-21`), and are always refused. The result
  dialog asks with the release's id (`SystemInsidePublishList.tsx:118`) where the handler wants
  the flow's (`module/publish/iml.go:338`): it gets an error and polls every 5 seconds for good. A
  release whose latest flow failed cannot be deleted from the list, although the server would.
- *Deployment dialog.* A stream joined after the last message, but before the callback has closed
  it, waits silently. A refused Deploy shows nothing. A confirmation left open after the deployment
  has finished deletes a working model. The server says "download error", the console looks for
  `download_error`. When the line "success" is dropped because the pipeline is full, the dialog
  never closes itself. From the list of services the footer sends the service's id as the model.
- *MCP inspector.* Connecting while connecting leaks a client or keeps old tools; leaving while
  connecting leaves a client open; a lost connection is not noticed.
- *Rights.* An answer changes the rights of whatever page is open. Cleaning empties the same Map, so
  that a menu is kept. teamDataFlushed survives resetAccess. The consumers' page asks for the own
  teams only when the global rights are not there yet. getGlobalAccessData keeps a rejected promise.
- *Strategy editor.* Filters added or edited on the page get no `_eoKey`, so that deleting one
  deletes all such. Saving an untouched "ip" filter of several addresses keeps the first. A late
  answer lists values under another attribute. Rules read without a key: editing one replaces the
  first such. Cancelling keeps the form's values. An edited filter saved unchanged loses its label.
- *Categories.* A refused sort reverts to the tree before the drag without reading again; the
  spinner is off while the list is read after a sort, so that drags overlap.
- *Choosing a model.* Choosing a provider does not clear the model. The name is the old model's until
  the answer with it. Late answers overwrite the list, or make the name undefined. Switching to
  "local" before the providers' answer lists a provider's models under it. The dialog fails when
  opened before the page has a model. Local entries are saved with the model's id as provider.
- *Market.* Services that arrive late are filtered with the state at the time they were asked for. Each
  keystroke has a debounce of its own (`ServiceHubGroup.tsx:126`), so that none is dropped, and
  its list is made from the filters of the keystroke. Unchecking one subcategory unchecks the category
  above, which hides that one's own services. A service of a deleted category is shown until a
  filter is used. Without the categories' answer the search filters nothing.
- *Subscriber dialog.* The promise of the dialog that adds a subscriber has no catch.
- *Others.* Monitor pages show late answers of older queries, and one never resets its export
  spinner. MemberList keeps selected rows after a reload and shows late answers of another
  department. RoleConfig forgets edits when the language changes. `once` of the plugin event hub wraps
  a listener so that `emit` rejects; nothing listens. A 401 or 403 resolves a request with undefined.

## 7. What is not modelled

- *Of the modelled parts*: of a release, all but the commits of its API proxies, and
  its version and completeness; upstreams, strategies of one service and Offline in the gateway
  client; the resynchronisation of all clusters at start-up; the catalogue of model
  packages, the install-state rows and the migration at start-up of local models;
  Ollama itself; the configuration of keys; the rows of AI providers but for their existence
  (Delete's check that no API uses the provider is taken as passed); the filters of
  strategies on the server; the names and the order of categories; prompts and parameters of
  AI routes; several processes that count tokens. Keys with the provider's id are only the
  default one. `PROJECT.json` says for each component what is left out.
- *The server's other parts*: teams, permits, tags, certificates, authorisations, plugins of
  clusters, settings, services and their APIs, upstreams: forms over one row and one transaction,
  with little that an interleaving could reach. Service import runs the modelled chain. Logs and
  monitoring are queries. The MCP registry is rebuilt from the database. Dynamic modules
  publish one at a time, like the strategies that are modelled. The server of members and roles is
  another repository's (`eolinker/go-common`).
- *The console*: by far most of its 61 000 lines of TypeScript are the layout of forms, tables and
  charts, constants, texts, converters of OpenAPI documents, code generators and an editor from
  another project. Of what they do a module would only repeat that a request is sent
  and its answer shown. The ten modules about pages stand for the parts that keep state between
  events; this is why the definitions of `PROJECT.json` name only a few percent of the console's
  lines.
- Data: configurations, documents, names, times. Whether a key has expired is any
  answer. Overflow is not modelled: numbers are counts of rows.

## 8. Plan

Done, the most important behaviour first: PublishFlow with ReleaseGate, PullExecutor with
PullBoard, LocalModel, KeyPriority with KeyList, Subscription, Strategy, Catalogue, AiApi,
TokenCount, Balance, and the pages of the console, each with its proofs. Left:

1. **LocalModel composed with PullExecutor** in place of PullBoard, as far as TLC goes: the
   refinement run already shows that the board's steps are the executor's.
2. **Several processes that count tokens**, of one channel and of several.
3. **DynamicModule**, on Strategy's versions.
4. **The editor of roles and the page of members**, whose late answers section 6 notes.
