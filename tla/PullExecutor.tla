---------------------------- MODULE PullExecutor ----------------------------
(***************************************************************************)
(* The executor of local model downloads: PullModel starts one download    *)
(* per model and gives every caller a pipeline (a buffered channel) to     *)
(* follow it, one distributor copies the messages of all downloads to the  *)
(* pipelines of their model and closes them when the download ends.  The   *)
(* code is ai-provider/local/executor.go and the streaming handler of the  *)
(* ai-local controller.                                                    *)
(*                                                                         *)
(* The mutex protects the table of model pipelines: what runs under it is  *)
(* one step, except the distributor's loop over the pipelines, which takes *)
(* one step per send and holds the mutex meanwhile.  Registering and       *)
(* joining a model pipeline in PullModel is outside that mutex.            *)
(***************************************************************************)
EXTENDS Naturals, Sequences, FiniteSets

CONSTANTS
  Models, Sessions,     \* models, and the ids of the callers' pipelines
  Pulls,                \* model pipelines that may be created, each with its download
  MaxSize,              \* how many pipelines a model pipeline takes (100)
  QueueSize, ChanSize,  \* room in the message queue (100) and in a pipeline (10)
  None

ASSUME NoneAssumption == None \notin Models \cup Pulls
ASSUME SizeAssumption == MaxSize \in Nat /\ QueueSize \in Nat \ {0} /\ ChanSize \in Nat

VARIABLES
  pipelines,  \* AsyncExecutor.pipelines: the model pipeline registered for each model
  mp,         \* the model pipelines: model, pipelines they list, context
  puller,     \* the goroutine that downloads for each model pipeline
  queue,      \* AsyncExecutor.msgQueue
  dist,       \* the distributor: where it is, its message, pipelines left to send to
  session,    \* the callers of PullModel
  channel     \* the channel of each caller's pipeline

vars == <<pipelines, mp, puller, queue, dist, session, channel>>

-----------------------------------------------------------------------------
NoPull    == [model |-> None, members |-> {}, cancelled |-> FALSE]
NoSession == [at |-> "idle", stream |-> FALSE, model |-> None, asked |-> None,
              pull |-> None, creator |-> FALSE, left |-> FALSE]
NoMessage == [model |-> None, status |-> "none", pull |-> None]
Receiving == [at |-> "receive", msg |-> NoMessage, todo |-> {}]
NoChannel == [open |-> FALSE, buf |-> <<>>]

Terminal == {"success", "error"}

\* The mutex is free: only the distributor holds it for more than one step.
Unlocked == dist.at # "send"

-----------------------------------------------------------------------------
(* PullModel.                                                              *)

\* GetModelPipeline.  The caller follows the download (stream) or only starts
\* it; what it asked for may be the service a model was mapped to, and then no
\* model has that name when it cancels.
PullGet(s, m, a, stream) ==
  /\ session[s] = NoSession
  /\ Unlocked
  /\ session' = [session EXCEPT ![s] =
       [NoSession EXCEPT !.at = IF pipelines[m] = None THEN "set" ELSE "add",
          !.stream = stream, !.model = m, !.asked = a, !.pull = pipelines[m]]]
  /\ UNCHANGED <<pipelines, mp, puller, queue, dist, channel>>

\* SetModelPipeline, whatever another caller has registered meanwhile.
PullSet(s, p) ==
  /\ session[s].at = "set"
  /\ mp[p] = NoPull
  /\ Unlocked
  /\ mp' = [mp EXCEPT ![p].model = session[s].model]
  /\ pipelines' = [pipelines EXCEPT ![session[s].model] = p]
  /\ session' = [session EXCEPT ![s].at = "add", ![s].pull = p, ![s].creator = TRUE]
  /\ UNCHANGED <<puller, queue, dist, channel>>

\* AddPipeline, without the mutex, and the download when this caller is the
\* one that created the model pipeline.
PullAdd(s) ==
  LET p == session[s].pull
  IN /\ session[s].at = "add"
     /\ IF Cardinality(mp[p].members) > MaxSize
          THEN /\ session' = [session EXCEPT ![s].at = "done"]
               /\ UNCHANGED <<mp, puller, channel>>
          ELSE /\ mp' = [mp EXCEPT ![p].members = @ \cup {s}]
               /\ channel' = [channel EXCEPT ![s].open = TRUE]
               /\ puller' = IF session[s].creator
                              THEN [puller EXCEPT ![p] = "running"] ELSE puller
               /\ session' = [session EXCEPT ![s].at = "follow"]
     /\ UNCHANGED <<pipelines, queue, dist>>

-----------------------------------------------------------------------------
(* Closing.                                                                *)

\* Mutant: the pipeline is closed but stays listed.
CloseOne_StaysListed(p, s) ==
  /\ mp' = mp
  /\ channel' = [channel EXCEPT ![s].open = FALSE]

\* modelPipeline.ClosePipeline
CloseOne(p, s) ==
  /\ mp' = [mp EXCEPT ![p].members = @ \ {s}]
  /\ channel' = [channel EXCEPT ![s].open = FALSE]

\* AsyncExecutor.ClosePipeline
ClosePipeline(m, s) ==
  IF m # None /\ pipelines[m] # None /\ s \in mp[pipelines[m]].members
    THEN CloseOne(pipelines[m], s)
    ELSE UNCHANGED <<mp, channel>>

\* Mutant: the model pipeline is taken from the table, its channels stay open.
CloseModelPipeline_OnlyUnregisters(m) ==
  IF pipelines[m] = None THEN UNCHANGED <<pipelines, mp, channel>>
  ELSE /\ mp' = [mp EXCEPT ![pipelines[m]].members = {}, ![pipelines[m]].cancelled = TRUE]
       /\ pipelines' = [pipelines EXCEPT ![m] = None]
       /\ channel' = channel

\* AsyncExecutor.CloseModelPipeline
CloseModelPipeline(m) ==
  IF pipelines[m] = None THEN UNCHANGED <<pipelines, mp, channel>>
  ELSE LET p == pipelines[m]
       IN /\ channel' = [s \in Sessions |-> IF s \in mp[p].members
                           THEN [channel[s] EXCEPT !.open = FALSE] ELSE channel[s]]
          /\ mp' = [mp EXCEPT ![p].members = {}, ![p].cancelled = TRUE]
          /\ pipelines' = [pipelines EXCEPT ![m] = None]

\* StopPull, and the first half of RemoveModel.
StopPull(m) ==
  /\ Unlocked
  /\ pipelines[m] # None
  /\ CloseModelPipeline(m)
  /\ UNCHANGED <<puller, queue, dist, session>>

\* CancelPipeline: the client of a stream has gone, or the caller only wanted
\* to start the download.  A stream's handler stays until its channel wakes it.
Leave(s) ==
  /\ session[s].at = "follow"
  /\ ~ session[s].left
  /\ Unlocked
  /\ ClosePipeline(session[s].asked, s)
  /\ session' = [session EXCEPT ![s].left = TRUE,
                                ![s].at = IF session[s].stream THEN "follow" ELSE "done"]
  /\ UNCHANGED <<pipelines, puller, queue, dist>>

\* The streaming handler takes a message, or ends on a closed channel (when its
\* client has gone, on anything).
Read(s) ==
  /\ session[s].at = "follow" /\ session[s].stream
  /\ channel[s].buf # <<>>
  /\ channel' = [channel EXCEPT ![s].buf = Tail(@)]
  /\ session' = [session EXCEPT ![s].at = IF session[s].left THEN "done" ELSE "follow"]
  /\ UNCHANGED <<pipelines, mp, puller, queue, dist>>

StreamEnd(s) ==
  /\ session[s].at = "follow" /\ session[s].stream
  /\ channel[s] = NoChannel
  /\ session' = [session EXCEPT ![s].at = "done", ![s].left = TRUE]
  /\ UNCHANGED <<pipelines, mp, puller, queue, dist, channel>>

-----------------------------------------------------------------------------
(* The downloads: client.Pull and the messages its callback queues.        *)

Send(p, status) ==
  /\ Len(queue) < QueueSize
  /\ queue' = Append(queue, [model |-> mp[p].model, status |-> status, pull |-> p])

Progress(p) ==
  /\ puller[p] = "running"
  /\ Send(p, "progress")
  /\ UNCHANGED <<pipelines, mp, puller, dist, session, channel>>

PullEnds(p, status) ==
  /\ puller[p] = "running"
  /\ Send(p, status)
  /\ puller' = [puller EXCEPT ![p] = "ended"]
  /\ UNCHANGED <<pipelines, mp, dist, session, channel>>

\* Pull returns no error although "success" was never reported.
PullSilent(p) ==
  /\ puller[p] = "running"
  /\ puller' = [puller EXCEPT ![p] = "silent"]
  /\ UNCHANGED <<pipelines, mp, queue, dist, session, channel>>

-----------------------------------------------------------------------------
(* The distributor.                                                        *)

DistReceive ==
  LET msg == Head(queue)
      p   == pipelines[msg.model]
  IN /\ dist.at = "receive"
     /\ queue # <<>>
     /\ queue' = Tail(queue)
     /\ dist' = [at |-> "send", msg |-> msg, todo |-> IF p = None THEN {} ELSE mp[p].members]
     /\ UNCHANGED <<pipelines, mp, puller, session, channel>>

\* Mutant: the distributor waits for room in the pipeline.
DistSend_Waits(s) ==
  /\ dist.at = "send"
  /\ s \in dist.todo
  /\ Len(channel[s].buf) < ChanSize
  /\ dist' = [dist EXCEPT !.todo = @ \ {s}]
  /\ channel' = [channel EXCEPT ![s].buf = Append(@, dist.msg)]
  /\ UNCHANGED <<pipelines, mp, puller, queue, session>>

\* A full pipeline misses the message.
DistSend(s) ==
  /\ dist.at = "send"
  /\ s \in dist.todo
  /\ dist' = [dist EXCEPT !.todo = @ \ {s}]
  /\ channel' = IF Len(channel[s].buf) < ChanSize
                  THEN [channel EXCEPT ![s].buf = Append(@, dist.msg)] ELSE channel
  /\ UNCHANGED <<pipelines, mp, puller, queue, session>>

\* Mutant: only success counts as the end of a download.
DistUnlock_SuccessOnly ==
  /\ dist.at = "send"
  /\ dist.todo = {}
  /\ dist' = IF dist.msg.status = "success" THEN [dist EXCEPT !.at = "hook"] ELSE Receiving
  /\ UNCHANGED <<pipelines, mp, puller, queue, session, channel>>

DistUnlock ==
  /\ dist.at = "send"
  /\ dist.todo = {}
  /\ dist' = IF dist.msg.status \in Terminal THEN [dist EXCEPT !.at = "hook"] ELSE Receiving
  /\ UNCHANGED <<pipelines, mp, puller, queue, session, channel>>

\* Mutant: the loop continues before the pipelines are closed.
DistHook_NoClose ==
  /\ dist.at = "hook"
  /\ dist' = Receiving
  /\ UNCHANGED <<pipelines, mp, puller, queue, session, channel>>

\* The callback of the model pipeline registered by now, if there is one.
DistHook ==
  /\ dist.at = "hook"
  /\ dist' = [dist EXCEPT !.at = "close"]
  /\ UNCHANGED <<pipelines, mp, puller, queue, session, channel>>

DistClose ==
  /\ dist.at = "close"
  /\ CloseModelPipeline(dist.msg.model)
  /\ dist' = Receiving
  /\ UNCHANGED <<puller, queue, session>>

-----------------------------------------------------------------------------
Init ==
  /\ pipelines = [m \in Models |-> None]
  /\ mp = [p \in Pulls |-> NoPull]
  /\ puller = [p \in Pulls |-> "none"]
  /\ queue = <<>>
  /\ dist = Receiving
  /\ session = [s \in Sessions |-> NoSession]
  /\ channel = [s \in Sessions |-> NoChannel]

Caller(s) ==
  \/ \E m \in Models, stream \in BOOLEAN, a \in Models \cup {None} :
       a \in {m, None} /\ PullGet(s, m, a, stream)
  \/ \E p \in Pulls : PullSet(s, p)
  \/ PullAdd(s) \/ Leave(s) \/ Read(s) \/ StreamEnd(s)

Download(p) == Progress(p) \/ (\E st \in Terminal : PullEnds(p, st)) \/ PullSilent(p)

Distributor ==
  \/ DistReceive \/ (\E s \in Sessions : DistSend(s)) \/ DistUnlock \/ DistHook \/ DistClose

Next ==
  \/ \E s \in Sessions : Caller(s)
  \/ \E p \in Pulls : Download(p)
  \/ \E m \in Models : StopPull(m)
  \/ Distributor

Spec == Init /\ [][Next]_vars

\* The goroutines are scheduled; a download whose context is cancelled returns.
\* A client need not read its stream.
FairSpec ==
  /\ Spec
  /\ WF_vars(Distributor)
  /\ \A s \in Sessions : WF_vars(PullAdd(s))
  /\ \A p \in Pulls : SF_vars(mp[p].cancelled /\ PullEnds(p, "error"))

-----------------------------------------------------------------------------
Message == [model : Models, status : {"progress"} \cup Terminal, pull : Pulls]

\* The executor's state, the queue and the pipelines hold values of their kinds.
TypeOK ==
  /\ pipelines \in [Models -> Pulls \cup {None}]
  /\ mp \in [Pulls -> [model : Models \cup {None}, members : SUBSET Sessions,
                       cancelled : BOOLEAN]]
  /\ puller \in [Pulls -> {"none", "running", "ended", "silent"}]
  /\ queue \in Seq(Message) /\ Len(queue) <= QueueSize
  /\ dist \in [at : {"receive", "send", "hook", "close"}, msg : Message \cup {NoMessage},
               todo : SUBSET Sessions]
  /\ session \in [Sessions -> [at : {"idle", "set", "add", "follow", "done"},
                    stream : BOOLEAN, model : Models \cup {None}, asked : Models \cup {None},
                    pull : Pulls \cup {None}, creator : BOOLEAN, left : BOOLEAN]]
  /\ channel \in [Sessions -> [open : BOOLEAN, buf : Seq(Message)]]
  /\ \A s \in Sessions : Len(channel[s].buf) <= ChanSize

\* A channel is never closed twice, and nothing is sent on a closed one (both
\* would stop the process): what a model pipeline lists is open, and so is what
\* the distributor is about to send to.
NoUseAfterClose ==
  /\ \A p \in Pulls : \A s \in mp[p].members : channel[s].open
  /\ \A s \in dist.todo : channel[s].open

\* DistributeToModelPipelines: a pipeline only gets messages of its own model.
OwnModelOnly ==
  \A s \in Sessions : \A i \in 1 .. Len(channel[s].buf) :
    channel[s].buf[i].model = session[s].model

\* The registered download that has ended still has its last message on the
\* way, so the table is cleaned up: a pipeline is never left registered with
\* nobody to close it (unless Pull returned without a word).
NoDeadPipeline ==
  \A m \in Models :
    (pipelines[m] # None /\ puller[pipelines[m]] = "ended") =>
      \/ \E i \in 1 .. Len(queue) :
           queue[i].pull = pipelines[m] /\ queue[i].status \in Terminal
      \/ dist.msg.pull = pipelines[m] /\ dist.msg.status \in Terminal

\* A stopped download is out of the table for good: no later caller joins it
\* from the table, and no message is sent to it.
StoppedIsUnregistered ==
  \A m \in Models : pipelines[m] # None => ~ mp[pipelines[m]].cancelled

\* A stopped download ends, however full the queue and the pipelines are and
\* whether or not any client reads: the distributor never waits for a client.
StoppedPullsEnd ==
  \A p \in Pulls :
    (mp[p].cancelled /\ puller[p] = "running") ~> (puller[p] # "running")

\* Another caller, who had found nothing registered, has registered its model
\* pipeline over the one of s.
Overwritten(s) == pipelines[session[s].model] \notin {None, session[s].pull}

\* Once the last message of a download is handled, the pipelines then listed
\* for its model are closed, unless another registration comes in between: taking
\* the model pipeline from the table is not enough.
LastMessageCloses ==
  \A s \in Sessions :
    (dist.at = "hook" /\ pipelines[dist.msg.model] # None
       /\ s \in mp[pipelines[dist.msg.model]].members) ~> (~ channel[s].open \/ Overwritten(s))

\* The messages of a queue that report the end of a download.
WithEnd(ends, msg) == IF msg.status \in Terminal THEN Append(ends, msg) ELSE ends

Ends(q) ==
  LET ends[n \in 0 .. Len(q)] == IF n = 0 THEN <<>> ELSE WithEnd(ends[n - 1], q[n])
  IN ends[Len(q)]

Board == INSTANCE PullBoard WITH
  registered <- pipelines,
  ofModel    <- [p \in Pulls |-> mp[p].model],
  running    <- {p \in Pulls : puller[p] = "running"},
  outcomes   <- Ends((IF dist.at = "send" THEN <<dist.msg>> ELSE <<>>) \o queue),
  handler    <- IF dist.at \in {"hook", "close"}
                  THEN [at |-> dist.at, msg |-> dist.msg]
                  ELSE [at |-> "wait", msg |-> NoMessage]

\* The executor implements PullBoard: pipelines, full or not, clients that
\* leave and progress messages change nothing of how downloads are registered,
\* ended and handled.  A message counts as taken when the distributor has sent
\* it to the pipelines.
ImplementsBoard == Board!BoardSpec

-----------------------------------------------------------------------------
(* What the code says of itself and its interleavings break.               *)

\* CloseModelPipeline closes all pipelines of the model.
ModelCloseClosesAll ==
  [][\A m \in Models : (pipelines[m] # None /\ pipelines'[m] = None) =>
       \A s \in Sessions : session[s].model = m => ~ channel'[s].open]_vars

=============================================================================
