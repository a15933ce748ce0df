------------------------- MODULE PullExecutorProofs -------------------------
(* Proofs about PullExecutor, for every number of models, callers and      *)
(* downloads and every size of the queue and the pipelines.                *)
EXTENDS PullExecutor, SequenceTheorems, WellFoundedInduction, TLAPS

-----------------------------------------------------------------------------
(* The inductive invariant.                                                *)

SessionRecord == [at : {"idle", "set", "add", "follow", "done"},
                  stream : BOOLEAN, model : Models \cup {None}, asked : Models \cup {None},
                  pull : Pulls \cup {None}, creator : BOOLEAN, left : BOOLEAN]
PullRecord == [model : Models \cup {None}, members : SUBSET Sessions, cancelled : BOOLEAN]
ChannelRecord == [open : BOOLEAN, buf : Seq(Message)]
DistRecord == [at : {"receive", "send", "hook", "close"}, msg : Message \cup {NoMessage},
               todo : SUBSET Sessions]

\* A queued message names a download and its model.
MessageInv(msg) == mp[msg.pull].model = msg.model

\* The distributor at rest has no message, and sends only under the mutex.
DistInv ==
  /\ dist.at = "receive" => dist = Receiving
  /\ dist.at # "receive" => dist.msg \in Message /\ MessageInv(dist.msg)
  /\ dist.at # "send" => dist.todo = {}
  /\ dist.at \in {"hook", "close"} => dist.msg.status \in Terminal

\* A registered model pipeline is its model's own and has not been stopped; one
\* that was never created has no download.
TableInv ==
  /\ \A m \in Models : pipelines[m] # None =>
       mp[pipelines[m]].model = m /\ ~ mp[pipelines[m]].cancelled
  /\ \A p \in Pulls : mp[p].model = None => mp[p] = NoPull /\ puller[p] = "none"

\* A caller is listed by the model pipeline it joined and no other, with an
\* open channel; before it joins, its channel does not exist.
SessionInv(s) ==
  /\ session[s].at = "set" => session[s].model \in Models
  /\ session[s].at \in {"add", "follow", "done"} =>
       /\ session[s].pull \in Pulls
       /\ session[s].model \in Models
       /\ mp[session[s].pull].model = session[s].model
  /\ session[s].at \in {"idle", "set", "add"} => channel[s] = NoChannel
  /\ \A p \in Pulls : s \in mp[p].members =>
       /\ session[s].at \in {"follow", "done"}
       /\ session[s].pull = p
       /\ channel[s].open
  /\ s \in dist.todo => channel[s].open /\ session[s].model = dist.msg.model
  /\ \A i \in 1 .. Len(channel[s].buf) : channel[s].buf[i].model = session[s].model

\* What the executor keeps at every step: the inductive invariant behind
\* NoUseAfterClose, OwnModelOnly and StoppedIsUnregistered.
Bookkeeping ==
  /\ DistInv
  /\ TableInv
  /\ \A i \in 1 .. Len(queue) : MessageInv(queue[i])
  /\ \A s \in Sessions : SessionInv(s)

-----------------------------------------------------------------------------
(* Types.                                                                  *)

\* The invariant of the type, by its records.
LEMMA TypeForm ==
  TypeOK <=> /\ pipelines \in [Models -> Pulls \cup {None}]
             /\ mp \in [Pulls -> PullRecord]
             /\ puller \in [Pulls -> {"none", "running", "ended", "silent"}]
             /\ queue \in Seq(Message) /\ Len(queue) <= QueueSize
             /\ dist \in DistRecord
             /\ session \in [Sessions -> SessionRecord]
             /\ channel \in [Sessions -> ChannelRecord]
             /\ \A s \in Sessions : Len(channel[s].buf) <= ChanSize
BY DEF TypeOK, PullRecord, DistRecord, SessionRecord, ChannelRecord

\* The executor starts well typed.
LEMMA TypeInit == Init => TypeOK
<1>1. <<>> \in Seq(Message) /\ Len(<<>>) = 0 BY EmptySeq
<1> QED BY <1>1, SizeAssumption DEF Init, TypeOK, NoPull, Receiving, NoMessage, NoSession, NoChannel

\* A download whose model pipeline was created queues a message of its model.
LEMMA Queued ==
  ASSUME TypeOK, TableInv, NEW p \in Pulls, puller[p] = "running",
         NEW status \in {"progress"} \cup Terminal, Send(p, status)
  PROVE  /\ queue' \in Seq(Message) /\ Len(queue') <= QueueSize
         /\ Len(queue') = Len(queue) + 1
         /\ \A i \in 1 .. Len(queue) : queue'[i] = queue[i]
         /\ queue'[Len(queue')] = [model |-> mp[p].model, status |-> status, pull |-> p]
<1> DEFINE msg == [model |-> mp[p].model, status |-> status, pull |-> p]
<1>1. msg \in Message BY DEF TypeOK, TableInv, Message
<1>2. queue' = Append(queue, msg) /\ Len(queue) < QueueSize BY DEF Send
<1>3. queue \in Seq(Message) BY DEF TypeOK
<1>4. Len(queue) \in Nat BY <1>3, LenProperties
<1> HIDE DEF msg
<1>5. /\ queue' \in Seq(Message)
      /\ Len(queue') = Len(queue) + 1
      /\ \A i \in 1 .. Len(queue) : queue'[i] = queue[i]
      /\ queue'[Len(queue) + 1] = msg
      BY <1>1, <1>2, <1>3, AppendProperties
<1>6. Len(queue') <= QueueSize BY <1>2, <1>4, <1>5, SizeAssumption
<1> QED BY <1>5, <1>6 DEF msg

\* The distributor takes the first message, which is well typed.
LEMMA Taken ==
  ASSUME TypeOK, DistReceive
  PROVE  /\ Head(queue) \in Message /\ Head(queue) = queue[1]
         /\ queue' \in Seq(Message) /\ Len(queue') <= QueueSize
         /\ Len(queue') = Len(queue) - 1 /\ Len(queue) \in Nat \ {0}
         /\ \A i \in 1 .. Len(queue') : queue'[i] = queue[i + 1]
<1>1. queue \in Seq(Message) /\ queue # <<>> /\ queue' = Tail(queue) /\ Len(queue) <= QueueSize
      BY DEF TypeOK, DistReceive
<1>2. /\ Head(queue) \in Message
      /\ queue' \in Seq(Message)
      /\ Len(queue') = Len(queue) - 1
      /\ \A i \in 1 .. Len(queue') : queue'[i] = queue[i + 1]
      BY <1>1, HeadTailProperties
<1>3. Len(queue) \in Nat \ {0} BY <1>1, EmptySeq
<1>4. Len(queue') <= QueueSize BY <1>1, <1>2, <1>3, SizeAssumption
<1>5. Head(queue) = queue[1] BY <1>1
<1> QED BY <1>2, <1>3, <1>4, <1>5

\* What closing the pipelines of a model does to the table.
LEMMA ClosedModel ==
  ASSUME TypeOK, NEW m \in Models, CloseModelPipeline(m)
  PROVE  /\ pipelines' \in [Models -> Pulls \cup {None}]
         /\ mp' \in [Pulls -> PullRecord]
         /\ channel' \in [Sessions -> ChannelRecord]
         /\ pipelines'[m] = None
         /\ \A n \in Models \ {m} : pipelines'[n] = pipelines[n]
         /\ \A s \in Sessions : channel'[s].buf = channel[s].buf
<1> USE DEF PullRecord, ChannelRecord
<1>1. CASE pipelines[m] = None BY <1>1, TypeForm DEF CloseModelPipeline
<1>2. CASE pipelines[m] # None
  <2>1. pipelines[m] \in Pulls BY <1>2 DEF TypeOK
  <2>2. pipelines' = [pipelines EXCEPT ![m] = None] BY <1>2 DEF CloseModelPipeline
  <2>3. mp' = [mp EXCEPT ![pipelines[m]].members = {}, ![pipelines[m]].cancelled = TRUE]
        BY <1>2 DEF CloseModelPipeline
  <2>4. channel' = [s \in Sessions |-> IF s \in mp[pipelines[m]].members
                      THEN [channel[s] EXCEPT !.open = FALSE] ELSE channel[s]]
        BY <1>2 DEF CloseModelPipeline
  <2>5. mp' \in [Pulls -> PullRecord]
    <3>1. mp \in [Pulls -> PullRecord] BY TypeForm
    <3>2. \A q \in PullRecord : [q EXCEPT !.members = {}, !.cancelled = TRUE] \in PullRecord
          OBVIOUS
    <3> HIDE DEF PullRecord, ChannelRecord
    <3> QED BY <2>1, <2>3, <3>1, <3>2
  <2>6. channel' \in [Sessions -> ChannelRecord] BY <2>4, TypeForm
  <2>7. \A s \in Sessions : channel'[s].buf = channel[s].buf BY <2>4, TypeForm
  <2> QED BY <2>2, <2>5, <2>6, <2>7, TypeForm
<1> QED BY <1>1, <1>2

\* Opening or closing a channel, and listing one more pipeline.
LEMMA RecordUpdate ==
  /\ \A q \in ChannelRecord, b \in BOOLEAN :
       [q EXCEPT !.open = b] \in ChannelRecord /\ [q EXCEPT !.open = b].buf = q.buf
  /\ \A q \in PullRecord, s \in Sessions : [q EXCEPT !.members = @ \cup {s}] \in PullRecord
BY DEF ChannelRecord, PullRecord

\* A pipeline that is closed leaves the executor well typed.
LEMMA ClosedType ==
  ASSUME TypeOK, NEW m \in Models \cup {None}, NEW s \in Sessions, ClosePipeline(m, s)
  PROVE  /\ mp' \in [Pulls -> PullRecord]
         /\ channel' \in [Sessions -> ChannelRecord]
         /\ \A u \in Sessions : channel'[u].buf = channel[u].buf
<1>1. CASE m # None /\ pipelines[m] # None /\ s \in mp[pipelines[m]].members
  <2>1. pipelines[m] \in Pulls BY <1>1 DEF TypeOK
  <2>2. /\ mp' = [mp EXCEPT ![pipelines[m]].members = @ \ {s}]
        /\ channel' = [channel EXCEPT ![s].open = FALSE]
        BY <1>1 DEF ClosePipeline, CloseOne
  <2>3. mp' \in [Pulls -> PullRecord] BY <2>1, <2>2, TypeForm DEF PullRecord
  <2> QED BY <2>2, <2>3, TypeForm, RecordUpdate
<1>2. CASE ~ (m # None /\ pipelines[m] # None /\ s \in mp[pipelines[m]].members)
  <2>1. mp' = mp /\ channel' = channel BY <1>2 DEF ClosePipeline
  <2> QED BY <2>1, TypeForm
<1> QED BY <1>1, <1>2

\* The updates of a caller that the steps make.
LEMMA SessionUpdate ==
  ASSUME NEW q \in SessionRecord, NEW at \in {"idle", "set", "add", "follow", "done"}
  PROVE  /\ [q EXCEPT !.at = at] \in SessionRecord
         /\ \A p \in Pulls : [q EXCEPT !.at = at, !.pull = p, !.creator = TRUE] \in SessionRecord
         /\ [q EXCEPT !.left = TRUE, !.at = at] \in SessionRecord
         /\ [q EXCEPT !.at = at, !.left = TRUE] \in SessionRecord
BY DEF SessionRecord

\* Every step keeps the executor well typed.
LEMMA TypeNext == TypeOK /\ Bookkeeping /\ [Next]_vars => TypeOK'
<1> SUFFICES ASSUME TypeOK, Bookkeeping, [Next]_vars PROVE TypeOK' OBVIOUS
<1>1. CASE UNCHANGED vars BY <1>1 DEF vars, TypeOK
<1>2. ASSUME NEW s \in Sessions, Caller(s) PROVE TypeOK'
  <2>1. ASSUME NEW m \in Models, NEW a \in {m, None}, NEW stream \in BOOLEAN,
               PullGet(s, m, a, stream)
        PROVE  TypeOK'
    <3>1. [NoSession EXCEPT !.at = IF pipelines[m] = None THEN "set" ELSE "add",
             !.stream = stream, !.model = m, !.asked = a, !.pull = pipelines[m]] \in SessionRecord
          BY DEF NoSession, SessionRecord, TypeOK
    <3>2. session' \in [Sessions -> SessionRecord] BY <2>1, <3>1, TypeForm DEF PullGet
    <3> QED BY <2>1, <3>2 DEF PullGet, TypeOK, SessionRecord
  <2>2. ASSUME NEW p \in Pulls, PullSet(s, p) PROVE TypeOK'
    <3>1. session[s].model \in Models \cup {None} /\ session[s] \in SessionRecord
          BY TypeForm DEF SessionRecord
    <3>2. mp' \in [Pulls -> PullRecord] BY <2>2, <3>1, TypeForm DEF PullSet, PullRecord
    <3>3. session' \in [Sessions -> SessionRecord]
      <4>1. [session[s] EXCEPT !.at = "add", !.pull = p, !.creator = TRUE] \in SessionRecord
            BY <3>1, SessionUpdate
      <4> QED BY <2>2, <4>1, TypeForm DEF PullSet
    <3>4. pipelines' \in [Models -> Pulls \cup {None}] BY <2>2 DEF PullSet, TypeOK
    <3> QED BY <2>2, <3>2, <3>3, <3>4 DEF PullSet, TypeOK, SessionRecord, PullRecord
  <2>3. CASE PullAdd(s)
    <3>1. session' \in [Sessions -> SessionRecord]
      <4>1. \A at \in {"done", "follow"} : [session[s] EXCEPT !.at = at] \in SessionRecord
            BY SessionUpdate, TypeForm
      <4> QED BY <2>3, <4>1, TypeForm DEF PullAdd
    <3>2. mp' \in [Pulls -> PullRecord]
      <4>1. mp' = mp \/ mp' = [mp EXCEPT ![session[s].pull].members = @ \cup {s}]
            BY <2>3 DEF PullAdd
      <4>2. session[s].pull \in Pulls BY <2>3 DEF PullAdd, Bookkeeping, SessionInv
      <4>3. [mp[session[s].pull] EXCEPT !.members = @ \cup {s}] \in PullRecord
            BY <4>2, TypeForm, RecordUpdate
      <4>4. CASE mp' = mp BY <4>4, TypeForm
      <4>5. CASE mp' = [mp EXCEPT ![session[s].pull].members = @ \cup {s}]
            BY <4>2, <4>3, <4>5, TypeForm
      <4> QED BY <4>1, <4>4, <4>5
    <3>3. /\ channel' \in [Sessions -> ChannelRecord]
          /\ \A u \in Sessions : channel'[u].buf = channel[u].buf
      <4>1. channel' = channel \/ channel' = [channel EXCEPT ![s].open = TRUE]
            BY <2>3 DEF PullAdd
      <4>2. CASE channel' = channel BY <4>2, TypeForm
      <4>3. CASE channel' = [channel EXCEPT ![s].open = TRUE]
            BY <4>3, TypeForm, RecordUpdate
      <4> QED BY <4>1, <4>2, <4>3
    <3>4. puller' \in [Pulls -> {"none", "running", "ended", "silent"}]
          BY <2>3, TypeForm DEF PullAdd
    <3>5. UNCHANGED <<pipelines, queue, dist>> BY <2>3 DEF PullAdd
    <3> QED BY <3>1, <3>2, <3>3, <3>4, <3>5 DEF TypeOK, SessionRecord, PullRecord, ChannelRecord
  <2>4. CASE Leave(s)
    <3>1. session[s].asked \in Models \cup {None} BY DEF TypeOK
    <3>2. session' \in [Sessions -> SessionRecord]
      <4>1. \A at \in {"done", "follow"} : [session[s] EXCEPT !.left = TRUE, !.at = at] \in SessionRecord
            BY SessionUpdate, TypeForm
      <4> QED BY <2>4, <4>1, TypeForm DEF Leave
    <3>3. /\ mp' \in [Pulls -> PullRecord]
          /\ channel' \in [Sessions -> ChannelRecord]
          /\ \A u \in Sessions : channel'[u].buf = channel[u].buf
          BY <2>4, <3>1, ClosedType DEF Leave
    <3> QED BY <2>4, <3>2, <3>3 DEF Leave, TypeOK, SessionRecord, PullRecord, ChannelRecord
  <2>5. CASE Read(s)
    <3>1. channel[s].buf \in Seq(Message) /\ channel[s].buf # <<>> /\ Len(channel[s].buf) <= ChanSize
          BY <2>5 DEF Read, TypeOK
    <3>2. Tail(channel[s].buf) \in Seq(Message)
          /\ Len(Tail(channel[s].buf)) = Len(channel[s].buf) - 1
          BY <3>1, HeadTailProperties
    <3>3. Len(channel[s].buf) \in Nat BY <3>1, LenProperties
    <3>4. Len(Tail(channel[s].buf)) <= ChanSize BY <3>1, <3>2, <3>3, SizeAssumption
    <3>5. channel' = [channel EXCEPT ![s].buf = Tail(channel[s].buf)] BY <2>5 DEF Read
    <3>6. channel' \in [Sessions -> ChannelRecord] /\ \A u \in Sessions : Len(channel'[u].buf) <= ChanSize
          BY <3>2, <3>4, <3>5, TypeForm DEF ChannelRecord
    <3>7. session' \in [Sessions -> SessionRecord]
      <4>1. \A at \in {"done", "follow"} : [session[s] EXCEPT !.at = at] \in SessionRecord
            BY SessionUpdate, TypeForm
      <4> QED BY <2>5, <4>1, TypeForm DEF Read
    <3> QED BY <2>5, <3>6, <3>7 DEF Read, TypeOK, SessionRecord, ChannelRecord
  <2>6. CASE StreamEnd(s)
    <3>1. session' \in [Sessions -> SessionRecord]
      <4>1. [session[s] EXCEPT !.at = "done", !.left = TRUE] \in SessionRecord
            BY SessionUpdate, TypeForm
      <4> QED BY <2>6, <4>1, TypeForm DEF StreamEnd
    <3> QED BY <2>6, <3>1 DEF StreamEnd, TypeOK, SessionRecord
  <2> QED BY <1>2, <2>1, <2>2, <2>3, <2>4, <2>5, <2>6 DEF Caller
<1>3. ASSUME NEW p \in Pulls, Download(p) PROVE TypeOK'
  <2>1. CASE Progress(p)
    <3>1. queue' \in Seq(Message) /\ Len(queue') <= QueueSize BY <2>1, Queued DEF Progress, Bookkeeping
    <3> QED BY <2>1, <3>1 DEF Progress, TypeOK
  <2>2. ASSUME NEW st \in Terminal, PullEnds(p, st) PROVE TypeOK'
    <3>1. queue' \in Seq(Message) /\ Len(queue') <= QueueSize BY <2>2, Queued DEF PullEnds, Bookkeeping
    <3>2. puller' \in [Pulls -> {"none", "running", "ended", "silent"}]
          BY <2>2 DEF PullEnds, TypeOK
    <3> QED BY <2>2, <3>1, <3>2 DEF PullEnds, TypeOK
  <2>3. CASE PullSilent(p) BY <2>3 DEF PullSilent, TypeOK
  <2> QED BY <1>3, <2>1, <2>2, <2>3 DEF Download
<1>4. ASSUME NEW m \in Models, StopPull(m) PROVE TypeOK'
  <2>1. /\ pipelines' \in [Models -> Pulls \cup {None}]
        /\ mp' \in [Pulls -> PullRecord]
        /\ channel' \in [Sessions -> ChannelRecord]
        /\ \A s \in Sessions : channel'[s].buf = channel[s].buf
        BY <1>4, ClosedModel DEF StopPull
  <2> QED BY <1>4, <2>1 DEF StopPull, TypeOK, PullRecord, ChannelRecord
<1>5. CASE Distributor
  <2>1. CASE DistReceive
    <3>1. \A p \in Pulls : mp[p].members \in SUBSET Sessions BY DEF TypeOK
    <3>2. Head(queue).model \in Models BY <2>1, Taken DEF Message
    <3>3. pipelines[Head(queue).model] \in Pulls \cup {None} BY <3>2 DEF TypeOK
    <3>4. dist' \in DistRecord BY <2>1, <3>1, <3>3, Taken DEF DistReceive, DistRecord
    <3> QED BY <2>1, <3>4, Taken DEF DistReceive, TypeOK, DistRecord
  <2>2. ASSUME NEW s \in Sessions, DistSend(s) PROVE TypeOK'
    <3>1. dist' \in DistRecord BY <2>2, TypeForm DEF DistSend, DistRecord
    <3>2. dist.msg \in Message BY <2>2 DEF DistSend, Bookkeeping, DistInv
    <3>3. CASE Len(channel[s].buf) < ChanSize
      <4>1. channel[s].buf \in Seq(Message) BY DEF TypeOK
      <4>2. Len(channel[s].buf) \in Nat BY <4>1, LenProperties
      <4>3. Append(channel[s].buf, dist.msg) \in Seq(Message)
            /\ Len(Append(channel[s].buf, dist.msg)) = Len(channel[s].buf) + 1
            BY <3>2, <4>1, AppendProperties
      <4>4. Len(Append(channel[s].buf, dist.msg)) <= ChanSize BY <3>3, <4>2, <4>3, SizeAssumption
      <4>5. channel' = [channel EXCEPT ![s].buf = Append(channel[s].buf, dist.msg)]
            BY <2>2, <3>3 DEF DistSend
      <4>6. channel' \in [Sessions -> ChannelRecord] /\ \A u \in Sessions : Len(channel'[u].buf) <= ChanSize
            BY <4>3, <4>4, <4>5, TypeForm DEF ChannelRecord
      <4> QED BY <2>2, <3>1, <4>6 DEF DistSend, TypeOK, DistRecord, ChannelRecord
    <3>4. CASE ~ (Len(channel[s].buf) < ChanSize)
      <4>1. channel' = channel BY <2>2, <3>4 DEF DistSend
      <4> QED BY <2>2, <3>1, <4>1 DEF DistSend, TypeOK, DistRecord
    <3> QED BY <3>3, <3>4
  <2>3. CASE DistUnlock
    <3>1. dist' \in DistRecord BY <2>3, TypeForm DEF DistUnlock, DistRecord, Receiving
    <3> QED BY <2>3, <3>1 DEF DistUnlock, TypeOK, DistRecord
  <2>4. CASE DistHook
    <3>1. dist' \in DistRecord BY <2>4, TypeForm DEF DistHook, DistRecord
    <3> QED BY <2>4, <3>1 DEF DistHook, TypeOK, DistRecord
  <2>5. CASE DistClose
    <3>1. dist.msg.model \in Models BY <2>5 DEF DistClose, Bookkeeping, DistInv, Message
    <3>2. /\ pipelines' \in [Models -> Pulls \cup {None}]
          /\ mp' \in [Pulls -> PullRecord]
          /\ channel' \in [Sessions -> ChannelRecord]
          /\ \A s \in Sessions : channel'[s].buf = channel[s].buf
          BY <2>5, <3>1, ClosedModel DEF DistClose
    <3>3. dist' \in DistRecord BY <2>5 DEF DistClose, DistRecord, Receiving
    <3> QED BY <2>5, <3>2, <3>3 DEF DistClose, TypeOK, PullRecord, ChannelRecord, DistRecord
  <2> QED BY <1>5, <2>1, <2>2, <2>3, <2>4, <2>5 DEF Distributor
<1> QED BY <1>1, <1>2, <1>3, <1>4, <1>5 DEF Next

-----------------------------------------------------------------------------
(* Bookkeeping.                                                            *)

\* Nothing is registered, listed or queued at the start.
LEMMA BookInit == Init => Bookkeeping
<1> SUFFICES ASSUME Init PROVE Bookkeeping OBVIOUS
<1>1. DistInv BY DEF Init, DistInv, Receiving, Terminal
<1>2. TableInv BY DEF Init, TableInv, NoPull
<1>3. \A i \in 1 .. Len(queue) : MessageInv(queue[i]) BY DEF Init
<1>4. \A s \in Sessions : SessionInv(s)
      BY DEF Init, SessionInv, NoSession, NoChannel, NoPull, Receiving
<1> QED BY <1>1, <1>2, <1>3, <1>4 DEF Bookkeeping

\* The model of a download, once set, stays.
ModelsKept == \A p \in Pulls : mp[p].model # None => mp'[p].model = mp[p].model

\* As long as it does, what messages say of it stays true.
LEMMA MessagesKept ==
  ASSUME TypeOK, Bookkeeping, ModelsKept
  PROVE  /\ \A msg \in Message : MessageInv(msg) => MessageInv(msg)'
         /\ queue' = queue => (\A i \in 1 .. Len(queue) : MessageInv(queue[i]))'
         /\ dist' = dist => DistInv'
<1>1. \A msg \in Message : MessageInv(msg) => MessageInv(msg)'
      BY NoneAssumption DEF ModelsKept, MessageInv, Message
<1>2. ASSUME queue' = queue PROVE (\A i \in 1 .. Len(queue) : MessageInv(queue[i]))'
  <2>1. ASSUME NEW i \in 1 .. Len(queue) PROVE MessageInv(queue[i]) /\ queue[i] \in Message
        BY <2>1, ElementOfSeq DEF TypeOK, Bookkeeping
  <2> QED BY <1>1, <1>2, <2>1 DEF MessageInv
<1>3. ASSUME dist' = dist PROVE DistInv'
  <2>1. ASSUME dist.at # "receive" PROVE MessageInv(dist.msg)'
    <3>1. dist.msg \in Message /\ MessageInv(dist.msg) BY <2>1 DEF Bookkeeping, DistInv
    <3> QED BY <1>3, <3>1, NoneAssumption DEF ModelsKept, MessageInv, Message
  <2> QED BY <1>3, <2>1 DEF Bookkeeping, DistInv, MessageInv
<1> QED BY <1>1, <1>2, <1>3

\* Closing the pipelines of a model, while the distributor sends nothing.
LEMMA ClosedBook ==
  ASSUME TypeOK, Bookkeeping, NEW m \in Models, CloseModelPipeline(m),
         UNCHANGED <<session, puller>>, dist'.todo = {}
  PROVE  ModelsKept /\ TableInv' /\ \A s \in Sessions : SessionInv(s)'
<1>1. CASE pipelines[m] = None
  <2>1. UNCHANGED <<pipelines, mp, channel>> BY <1>1 DEF CloseModelPipeline
  <2>2. ModelsKept BY <2>1 DEF ModelsKept
  <2>3. TableInv' BY <2>1 DEF Bookkeeping, TableInv
  <2>4. \A s \in Sessions : SessionInv(s)' BY <2>1 DEF Bookkeeping, SessionInv
  <2> QED BY <2>2, <2>3, <2>4
<1>2. CASE pipelines[m] # None
  <2> DEFINE p == pipelines[m]
  <2>1. p \in Pulls /\ mp[p].model = m BY <1>2 DEF TypeOK, Bookkeeping, TableInv
  <2>2. /\ mp' = [mp EXCEPT ![p].members = {}, ![p].cancelled = TRUE]
        /\ pipelines' = [pipelines EXCEPT ![m] = None]
        /\ channel' = [s \in Sessions |-> IF s \in mp[p].members
                         THEN [channel[s] EXCEPT !.open = FALSE] ELSE channel[s]]
        BY <1>2 DEF CloseModelPipeline
  <2> HIDE DEF p
  <2>3. /\ \A q \in Pulls \ {p} : mp'[q] = mp[q]
        /\ mp'[p].members = {} /\ mp'[p].model = m
        BY <2>1, <2>2, TypeForm DEF PullRecord
  <2>4. \A q \in Pulls : mp'[q].model = mp[q].model BY <2>1, <2>3
  <2>5. ModelsKept BY <2>4 DEF ModelsKept
  <2>6. TableInv'
    <3>1. ASSUME NEW n \in Models, pipelines'[n] # None
          PROVE  mp'[pipelines'[n]].model = n /\ ~ mp'[pipelines'[n]].cancelled
      <4>1. n # m /\ pipelines'[n] = pipelines[n] BY <2>2, <3>1 DEF TypeOK
      <4>2. pipelines[n] \in Pulls /\ mp[pipelines[n]].model = n /\ ~ mp[pipelines[n]].cancelled
            BY <3>1, <4>1 DEF TypeOK, Bookkeeping, TableInv
      <4>3. pipelines[n] # p BY <2>1, <4>1, <4>2
      <4> QED BY <2>3, <4>1, <4>2, <4>3
    <3>2. ASSUME NEW q \in Pulls, mp'[q].model = None PROVE mp'[q] = NoPull /\ puller'[q] = "none"
      <4>1. q # p BY <2>1, <2>3, <3>2, NoneAssumption
      <4> QED BY <2>3, <3>2, <4>1 DEF Bookkeeping, TableInv
    <3> QED BY <3>1, <3>2 DEF TableInv
  <2>7. ASSUME NEW s \in Sessions PROVE SessionInv(s)'
    <3> USE DEF Bookkeeping, SessionInv
    <3>1. session'[s] = session[s] OBVIOUS
    <3>2. s \notin mp[p].members => channel'[s] = channel[s] BY <2>2
    <3>3. channel'[s].buf = channel[s].buf BY <2>2, TypeForm DEF ChannelRecord
    <3>4. session[s].at \in {"idle", "set", "add"} => s \notin mp[p].members BY <2>1
    <3>5. ASSUME NEW q \in Pulls, s \in mp'[q].members
          PROVE  session[s].at \in {"follow", "done"} /\ session[s].pull = q /\ channel'[s].open
      <4>1. q # p /\ s \in mp[q].members BY <2>3, <3>5
      <4>2. s \notin mp[p].members BY <2>1, <4>1
      <4> QED BY <3>2, <4>1, <4>2
    <3>6. session[s].at \in {"add", "follow", "done"} =>
            mp'[session[s].pull].model = session[s].model
          BY <2>4
    <3> QED BY <3>1, <3>2, <3>3, <3>4, <3>5, <3>6
  <2> QED BY <2>5, <2>6, <2>7
<1> QED BY <1>1, <1>2

\* Closing one pipeline, under the mutex.
LEMMA LeftBook ==
  ASSUME TypeOK, Bookkeeping, NEW s \in Sessions, Leave(s)
  PROVE  ModelsKept /\ TableInv' /\ \A u \in Sessions : SessionInv(u)'
<1> DEFINE m == session[s].asked
           p == pipelines[m]
<1>1. /\ ClosePipeline(m, s) /\ UNCHANGED <<pipelines, puller, dist>>
      /\ session[s].at = "follow" /\ dist.todo = {}
      BY DEF Leave, Unlocked, Bookkeeping, DistInv
<1>2. \A u \in Sessions :
        /\ session'[u].pull = session[u].pull /\ session'[u].model = session[u].model
        /\ u # s => session'[u] = session[u]
        /\ session'[s].at \in {"follow", "done"}
      BY <1>1, TypeForm DEF Leave, SessionRecord
<1>3. CASE m # None /\ p # None /\ s \in mp[p].members
  <2>1. /\ mp' = [mp EXCEPT ![p].members = @ \ {s}]
        /\ channel' = [channel EXCEPT ![s].open = FALSE]
        BY <1>1, <1>3 DEF ClosePipeline, CloseOne
  <2>2. p \in Pulls BY <1>3 DEF TypeOK
  <2> HIDE DEF p, m
  <2>3. \A q \in Pulls : /\ mp'[q].model = mp[q].model
                         /\ mp'[q].cancelled = mp[q].cancelled
                         /\ mp'[q].members \subseteq mp[q].members
                         /\ q # p => mp'[q] = mp[q]
                         /\ mp[q].members = {} => mp'[q] = mp[q]
        BY <1>3, <2>1, <2>2, TypeForm DEF PullRecord
  <2>4. s \notin mp'[p].members BY <2>1, <2>2, TypeForm DEF PullRecord
  <2>5. ModelsKept BY <2>3 DEF ModelsKept
  <2>6. TableInv'
    <3>1. ASSUME NEW q \in Pulls, mp'[q].model = None PROVE mp'[q] = NoPull /\ puller'[q] = "none"
      <4>1. mp[q] = NoPull /\ puller[q] = "none" BY <2>3, <3>1 DEF Bookkeeping, TableInv
      <4>2. mp[q].members = {} BY <4>1 DEF NoPull
      <4> QED BY <1>1, <2>3, <4>1, <4>2
    <3>2. \A n \in Models : pipelines[n] # None => pipelines[n] \in Pulls BY DEF TypeOK
    <3> QED BY <1>1, <2>3, <3>1, <3>2 DEF Bookkeeping, TableInv
  <2>7. ASSUME NEW u \in Sessions PROVE SessionInv(u)'
    <3> USE DEF Bookkeeping, SessionInv
    <3>1. channel'[u].buf = channel[u].buf /\ (u # s => channel'[u] = channel[u])
          BY <2>1, TypeForm DEF ChannelRecord
    <3>2. ASSUME NEW q \in Pulls, u \in mp'[q].members
          PROVE  session'[u].at \in {"follow", "done"} /\ session'[u].pull = q /\ channel'[u].open
      <4>1. u \in mp[q].members /\ session[u].pull = q BY <2>3, <3>2
      <4>2. u # s
        <5>1. session[s].pull = p BY <1>3, <2>2
        <5> QED BY <2>4, <3>2, <4>1, <5>1
      <4> QED BY <1>2, <3>1, <4>1, <4>2
    <3>3. CASE u = s BY <1>1, <1>2, <2>3, <3>1, <3>2, <3>3
    <3>4. CASE u # s BY <1>1, <1>2, <2>3, <3>1, <3>2, <3>4
    <3> QED BY <3>3, <3>4
  <2> QED BY <2>5, <2>6, <2>7
<1>4. CASE ~ (m # None /\ p # None /\ s \in mp[p].members)
  <2>1. UNCHANGED <<mp, channel>> BY <1>1, <1>4 DEF ClosePipeline
  <2>2. ModelsKept BY <2>1 DEF ModelsKept
  <2>3. TableInv' BY <1>1, <2>1 DEF Bookkeeping, TableInv
  <2>4. ASSUME NEW u \in Sessions PROVE SessionInv(u)'
    <3>1. CASE u = s BY <1>1, <1>2, <2>1, <3>1 DEF Bookkeeping, SessionInv
    <3>2. CASE u # s BY <1>1, <1>2, <2>1, <3>2 DEF Bookkeeping, SessionInv
    <3> QED BY <3>1, <3>2
  <2> QED BY <2>2, <2>3, <2>4
<1> QED BY <1>3, <1>4

\* A step that writes no model pipeline, registers none and starts none.
LEMMA SameTable ==
  ASSUME Bookkeeping, UNCHANGED <<pipelines, mp>>,
         \A p \in Pulls : mp[p].model = None => puller'[p] = puller[p]
  PROVE  ModelsKept /\ TableInv'
BY DEF Bookkeeping, TableInv, ModelsKept, NoPull

\* A caller that asks for, registers, joins, reads or ends.
LEMMA CallerBook ==
  ASSUME TypeOK, Bookkeeping, NEW s \in Sessions, Caller(s)
  PROVE  Bookkeeping'
<1>1. SUFFICES ASSUME ~ Leave(s)
               PROVE  ModelsKept /\ TableInv' /\ \A u \in Sessions : SessionInv(u)'
  <2>1. queue' = queue /\ dist' = dist
        BY DEF Caller, PullGet, PullSet, PullAdd, Leave, Read, StreamEnd
  <2>2. ModelsKept /\ TableInv' /\ \A u \in Sessions : SessionInv(u)' BY <1>1, LeftBook
  <2> QED BY <2>1, <2>2, MessagesKept DEF Bookkeeping
<1>2. ASSUME NEW m \in Models, NEW a \in {m, None}, NEW stream \in BOOLEAN,
             PullGet(s, m, a, stream)
      PROVE  ModelsKept /\ TableInv' /\ \A u \in Sessions : SessionInv(u)'
  <2>1. UNCHANGED <<pipelines, mp, puller, queue, dist, channel>> BY <1>2 DEF PullGet
  <2>2. ModelsKept /\ TableInv' BY <2>1, SameTable
  <2>3. /\ session[s].at = "idle"
        /\ session'[s].at = IF pipelines[m] = None THEN "set" ELSE "add"
        /\ session'[s].model = m /\ session'[s].pull = pipelines[m]
        /\ \A u \in Sessions \ {s} : session'[u] = session[u]
        BY <1>2, TypeForm DEF PullGet, NoSession, SessionRecord
  <2>4. pipelines[m] # None => pipelines[m] \in Pulls /\ mp[pipelines[m]].model = m
        BY DEF TypeOK, Bookkeeping, TableInv
  <2>5. channel[s] = NoChannel /\ (\A q \in Pulls : s \notin mp[q].members) /\ s \notin dist.todo
        BY <2>3 DEF Bookkeeping, SessionInv, NoChannel
  <2>6. SessionInv(s)' BY <2>1, <2>3, <2>4, <2>5 DEF SessionInv, NoChannel
  <2>7. ASSUME NEW u \in Sessions \ {s} PROVE SessionInv(u)'
        BY <2>1, <2>3 DEF Bookkeeping, SessionInv
  <2> QED BY <2>2, <2>6, <2>7
<1>3. ASSUME NEW p \in Pulls, PullSet(s, p)
      PROVE  ModelsKept /\ TableInv' /\ \A u \in Sessions : SessionInv(u)'
  <2> DEFINE m == session[s].model
  <2>1. /\ m \in Models /\ session[s].at = "set" /\ mp[p] = NoPull
        /\ mp' = [mp EXCEPT ![p].model = m]
        /\ pipelines' = [pipelines EXCEPT ![m] = p]
        /\ UNCHANGED <<puller, queue, dist, channel>>
        BY <1>3 DEF PullSet, Bookkeeping, SessionInv
  <2>2. /\ session'[s].at = "add" /\ session'[s].pull = p /\ session'[s].model = m
        /\ \A u \in Sessions \ {s} : session'[u] = session[u]
        BY <1>3, TypeForm DEF PullSet, SessionRecord
  <2> HIDE DEF m
  <2>3. /\ mp'[p].model = m /\ mp'[p].members = {} /\ ~ mp'[p].cancelled
        /\ \A q \in Pulls \ {p} : mp'[q] = mp[q]
        BY <2>1, TypeForm DEF NoPull, PullRecord
  <2>4. mp[p].model = None BY <2>1 DEF NoPull
  <2>5. ModelsKept BY <2>3, <2>4 DEF ModelsKept
  <2>6. TableInv'
    <3>1. ASSUME NEW n \in Models, pipelines'[n] # None
          PROVE  mp'[pipelines'[n]].model = n /\ ~ mp'[pipelines'[n]].cancelled
      <4>1. CASE n = m BY <2>1, <2>3, <4>1 DEF TypeOK
      <4>2. CASE n # m
        <5>1. pipelines'[n] = pipelines[n] BY <2>1, <4>2 DEF TypeOK
        <5>2. pipelines[n] \in Pulls /\ mp[pipelines[n]].model = n /\ ~ mp[pipelines[n]].cancelled
              BY <3>1, <5>1 DEF TypeOK, Bookkeeping, TableInv
        <5>3. pipelines[n] # p BY <2>4, <5>2, NoneAssumption
        <5> QED BY <2>3, <5>1, <5>2, <5>3
      <4> QED BY <4>1, <4>2
    <3>2. ASSUME NEW q \in Pulls, mp'[q].model = None PROVE mp'[q] = NoPull /\ puller'[q] = "none"
      <4>1. q # p BY <2>1, <2>3, <3>2, NoneAssumption
      <4> QED BY <2>1, <2>3, <3>2, <4>1 DEF Bookkeeping, TableInv
    <3> QED BY <3>1, <3>2 DEF TableInv
  <2>7. \A q \in Pulls : mp'[q].members = mp[q].members
        BY <2>1, <2>3 DEF NoPull
  <2>8. SessionInv(s)' BY <2>1, <2>2, <2>3, <2>7 DEF Bookkeeping, SessionInv, m
  <2>9. ASSUME NEW u \in Sessions \ {s} PROVE SessionInv(u)'
    <3>1. session[u].at \in {"add", "follow", "done"} =>
            session[u].pull \in Pulls \ {p}
          BY <2>4, NoneAssumption DEF Bookkeeping, SessionInv
    <3> QED BY <2>1, <2>2, <2>3, <2>7, <3>1 DEF Bookkeeping, SessionInv
  <2> QED BY <2>5, <2>6, <2>8, <2>9
<1>4. CASE PullAdd(s)
  <2> DEFINE p == session[s].pull
  <2>1. session[s].at = "add" /\ UNCHANGED <<pipelines, queue, dist>> BY <1>4 DEF PullAdd
  <2>2. /\ p \in Pulls /\ session[s].model \in Models /\ mp[p].model = session[s].model
        /\ channel[s] = NoChannel /\ s \notin dist.todo
        /\ \A q \in Pulls : s \notin mp[q].members
        BY <2>1 DEF Bookkeeping, SessionInv, NoChannel
  <2>3. /\ session'[s].at \in {"follow", "done"}
        /\ session'[s].pull = p /\ session'[s].model = session[s].model
        /\ \A u \in Sessions \ {s} : session'[u] = session[u]
        BY <1>4, TypeForm DEF PullAdd, SessionRecord
  <2>4. CASE Cardinality(mp[p].members) > MaxSize
    <3>1. UNCHANGED <<mp, puller, channel>> BY <1>4, <2>4 DEF PullAdd
    <3>2. ModelsKept /\ TableInv' BY <2>1, <3>1, SameTable
    <3>3. SessionInv(s)' BY <2>1, <2>2, <2>3, <3>1 DEF Bookkeeping, SessionInv
    <3>4. ASSUME NEW u \in Sessions \ {s} PROVE SessionInv(u)'
          BY <2>1, <2>3, <3>1 DEF Bookkeeping, SessionInv
    <3> QED BY <3>2, <3>3, <3>4
  <2>5. CASE ~ (Cardinality(mp[p].members) > MaxSize)
    <3>1. /\ mp' = [mp EXCEPT ![p].members = @ \cup {s}]
          /\ channel' = [channel EXCEPT ![s].open = TRUE]
          /\ puller' = puller \/ puller' = [puller EXCEPT ![p] = "running"]
          BY <1>4, <2>5 DEF PullAdd
    <3> HIDE DEF p
    <3>2. \A q \in Pulls : /\ mp'[q].model = mp[q].model
                           /\ mp'[q].cancelled = mp[q].cancelled
                           /\ q # p => mp'[q] = mp[q] /\ puller'[q] = puller[q]
          BY <2>2, <3>1, TypeForm DEF PullRecord
    <3>3. mp'[p].members = mp[p].members \cup {s} BY <2>2, <3>1, TypeForm DEF PullRecord
    <3>4. ModelsKept BY <3>2 DEF ModelsKept
    <3>5. TableInv'
      <4>1. ASSUME NEW q \in Pulls, mp'[q].model = None PROVE mp'[q] = NoPull /\ puller'[q] = "none"
        <5>1. q # p BY <2>2, <3>2, <4>1, NoneAssumption
        <5> QED BY <3>2, <4>1, <5>1 DEF Bookkeeping, TableInv
      <4>2. \A n \in Models : pipelines[n] # None => pipelines[n] \in Pulls BY DEF TypeOK
      <4> QED BY <2>1, <3>2, <4>1, <4>2 DEF Bookkeeping, TableInv
    <3>6. /\ channel'[s].open /\ channel'[s].buf = channel[s].buf
          /\ \A u \in Sessions \ {s} : channel'[u] = channel[u]
          BY <3>1, TypeForm DEF ChannelRecord
    <3>7. SessionInv(s)'
      <4>1. \A q \in Pulls : s \in mp'[q].members => q = p BY <2>2, <3>2
      <4>2. session'[s].pull = p BY <2>3 DEF p
      <4> QED BY <2>1, <2>2, <2>3, <3>2, <3>6, <4>1, <4>2 DEF Bookkeeping, SessionInv
    <3>8. ASSUME NEW u \in Sessions \ {s} PROVE SessionInv(u)'
      <4>1. \A q \in Pulls : u \in mp'[q].members => u \in mp[q].members BY <3>2, <3>3
      <4> QED BY <2>1, <2>3, <3>2, <3>6, <4>1 DEF Bookkeeping, SessionInv
    <3> QED BY <3>4, <3>5, <3>7, <3>8
  <2> QED BY <2>4, <2>5
<1>5. CASE Read(s)
  <2>1. /\ UNCHANGED <<pipelines, mp, puller, queue, dist>> /\ session[s].at = "follow"
        /\ channel' = [channel EXCEPT ![s].buf = Tail(@)] /\ channel[s].buf # <<>>
        BY <1>5 DEF Read
  <2>2. ModelsKept /\ TableInv' BY <2>1, SameTable
  <2>3. /\ session'[s].at \in {"follow", "done"}
        /\ session'[s].pull = session[s].pull /\ session'[s].model = session[s].model
        /\ \A u \in Sessions \ {s} : session'[u] = session[u]
        BY <1>5, TypeForm DEF Read, SessionRecord
  <2>4. /\ channel'[s].open = channel[s].open /\ channel'[s].buf = Tail(channel[s].buf)
        /\ \A u \in Sessions \ {s} : channel'[u] = channel[u]
        BY <2>1, TypeForm DEF ChannelRecord
  <2>5. \A i \in 1 .. Len(channel'[s].buf) : channel'[s].buf[i].model = session'[s].model
    <3>1. channel[s].buf \in Seq(Message) BY DEF TypeOK
    <3>2. /\ Len(channel[s].buf) \in Nat
          /\ Len(channel'[s].buf) = Len(channel[s].buf) - 1
          /\ \A i \in 1 .. Len(channel'[s].buf) : channel'[s].buf[i] = channel[s].buf[i + 1]
      <4> DEFINE b == channel[s].buf
      <4>1. b \in Seq(Message) /\ b # <<>> /\ channel'[s].buf = Tail(b) BY <2>1, <2>4, <3>1
      <4> HIDE DEF b
      <4>2. Len(b) \in Nat BY <4>1, LenProperties
      <4>3. Len(Tail(b)) = Len(b) - 1 /\ \A i \in 1 .. Len(Tail(b)) : Tail(b)[i] = b[i + 1]
            BY <4>1, HeadTailProperties
      <4> QED BY <4>1, <4>2, <4>3 DEF b
    <3>3. \A i \in 1 .. Len(channel[s].buf) : channel[s].buf[i].model = session[s].model
          BY DEF Bookkeeping, SessionInv
    <3>4. \A i \in 1 .. Len(channel'[s].buf) : i + 1 \in 1 .. Len(channel[s].buf) BY <3>2
    <3> QED BY <2>3, <3>2, <3>3, <3>4
  <2>6. SessionInv(s)' BY <2>1, <2>3, <2>4, <2>5 DEF Bookkeeping, SessionInv
  <2>7. ASSUME NEW u \in Sessions \ {s} PROVE SessionInv(u)'
        BY <2>1, <2>3, <2>4 DEF Bookkeeping, SessionInv
  <2> QED BY <2>2, <2>6, <2>7
<1>6. CASE StreamEnd(s)
  <2>1. UNCHANGED <<pipelines, mp, puller, queue, dist, channel>> /\ session[s].at = "follow"
        BY <1>6 DEF StreamEnd
  <2>2. ModelsKept /\ TableInv' BY <2>1, SameTable
  <2>3. /\ session'[s].at = "done"
        /\ session'[s].pull = session[s].pull /\ session'[s].model = session[s].model
        /\ \A u \in Sessions \ {s} : session'[u] = session[u]
        BY <1>6, TypeForm DEF StreamEnd, SessionRecord
  <2>4. SessionInv(s)' BY <2>1, <2>3 DEF Bookkeeping, SessionInv
  <2>5. ASSUME NEW u \in Sessions \ {s} PROVE SessionInv(u)'
        BY <2>1, <2>3 DEF Bookkeeping, SessionInv
  <2> QED BY <2>2, <2>4, <2>5
<1> QED BY <1>1, <1>2, <1>3, <1>4, <1>5, <1>6 DEF Caller

\* A download queues messages of its own model only.
LEMMA DownloadBook ==
  ASSUME TypeOK, Bookkeeping, NEW p \in Pulls, Download(p)
  PROVE  Bookkeeping'
<1>1. UNCHANGED <<pipelines, mp, dist, session, channel>> /\ puller[p] = "running"
      BY DEF Download, Progress, PullEnds, PullSilent
<1>2. \A q \in Pulls \ {p} : puller'[q] = puller[q]
      BY DEF Download, Progress, PullEnds, PullSilent, TypeOK
<1>3. mp[p].model # None BY <1>1 DEF Bookkeeping, TableInv
<1>4. ModelsKept /\ TableInv' BY <1>1, <1>2, <1>3, SameTable
<1>5. DistInv' BY <1>1, <1>4, MessagesKept
<1>6. \A s \in Sessions : SessionInv(s)' BY <1>1 DEF Bookkeeping, SessionInv
<1>7. (\A i \in 1 .. Len(queue) : MessageInv(queue[i]))'
  <2>1. CASE queue' = queue BY <1>4, <2>1, MessagesKept
  <2>2. ASSUME NEW status \in {"progress"} \cup Terminal, Send(p, status)
        PROVE  (\A i \in 1 .. Len(queue) : MessageInv(queue[i]))'
    <3>1. /\ Len(queue') = Len(queue) + 1
          /\ \A i \in 1 .. Len(queue) : queue'[i] = queue[i]
          /\ queue'[Len(queue')] = [model |-> mp[p].model, status |-> status, pull |-> p]
          BY <1>1, <2>2, Queued DEF Bookkeeping
    <3>2. queue \in Seq(Message) BY DEF TypeOK
    <3>3. Len(queue) \in Nat BY <3>2, LenProperties
    <3>4. \A i \in 1 .. Len(queue) : MessageInv(queue[i]) BY DEF Bookkeeping
    <3>5. ASSUME NEW i \in 1 .. Len(queue') PROVE mp'[queue'[i].pull].model = queue'[i].model
      <4>1. CASE i = Len(queue') BY <1>1, <3>1, <4>1
      <4>2. CASE i # Len(queue')
        <5>1. i \in 1 .. Len(queue) BY <3>1, <3>3, <4>2
        <5> QED BY <1>1, <3>1, <3>4, <5>1 DEF MessageInv
      <4> QED BY <4>1, <4>2
    <3> QED BY <3>5 DEF MessageInv
  <2> QED BY <2>1, <2>2 DEF Download, Progress, PullEnds, PullSilent, Terminal
<1> QED BY <1>4, <1>5, <1>6, <1>7 DEF Bookkeeping

\* Stopping a model's download.
LEMMA StopBook ==
  ASSUME TypeOK, Bookkeeping, NEW m \in Models, StopPull(m)
  PROVE  Bookkeeping'
<1>1. UNCHANGED <<puller, queue, dist, session>> /\ CloseModelPipeline(m) /\ dist.todo = {}
      BY DEF StopPull, Unlocked, Bookkeeping, DistInv
<1>2. ModelsKept /\ TableInv' /\ \A s \in Sessions : SessionInv(s)' BY <1>1, ClosedBook
<1> QED BY <1>1, <1>2, MessagesKept DEF Bookkeeping

\* The distributor's steps.
LEMMA DistributorBook ==
  ASSUME TypeOK, Bookkeeping, Distributor
  PROVE  Bookkeeping'
<1>1. CASE DistReceive
  <2> DEFINE msg == Head(queue)
             p == pipelines[msg.model]
  <2>1. /\ UNCHANGED <<pipelines, mp, puller, session, channel>>
        /\ dist' = [at |-> "send", msg |-> msg, todo |-> IF p = None THEN {} ELSE mp[p].members]
        BY <1>1 DEF DistReceive
  <2>2. /\ msg \in Message /\ msg = queue[1]
        /\ Len(queue') = Len(queue) - 1 /\ Len(queue) \in Nat \ {0}
        /\ \A i \in 1 .. Len(queue') : queue'[i] = queue[i + 1]
        BY <1>1, Taken
  <2>3. ModelsKept /\ TableInv' BY <2>1, SameTable
  <2>4. \A i \in 1 .. Len(queue) : mp[queue[i].pull].model = queue[i].model
        BY DEF Bookkeeping, MessageInv
  <2>5. mp[msg.pull].model = msg.model BY <2>2, <2>4
  <2>6. DistInv' BY <2>1, <2>2, <2>5 DEF DistInv, MessageInv
  <2>7. ASSUME NEW i \in 1 .. Len(queue') PROVE mp'[queue'[i].pull].model = queue'[i].model
    <3>1. i + 1 \in 1 .. Len(queue) BY <2>2
    <3> QED BY <2>1, <2>2, <2>4, <3>1
  <2>8. ASSUME NEW s \in Sessions PROVE SessionInv(s)'
    <3>1. ASSUME s \in dist'.todo PROVE channel[s].open /\ session[s].model = dist'.msg.model
      <4>1. p # None /\ s \in mp[p].members BY <2>1, <3>1
      <4>2. msg.model \in Models BY <2>2 DEF Message
      <4>3. p \in Pulls /\ mp[p].model = msg.model
            BY <4>1, <4>2 DEF TypeOK, Bookkeeping, TableInv
      <4>4. channel[s].open /\ session[s].model = mp[p].model
            BY <4>1, <4>3 DEF Bookkeeping, SessionInv
      <4> QED BY <2>1, <4>3, <4>4
    <3> QED BY <2>1, <3>1 DEF Bookkeeping, SessionInv
  <2> QED BY <2>3, <2>6, <2>7, <2>8 DEF Bookkeeping, MessageInv
<1>2. ASSUME NEW s \in Sessions, DistSend(s) PROVE Bookkeeping'
  <2>1. /\ UNCHANGED <<pipelines, mp, puller, queue, session>>
        /\ dist.at = "send" /\ s \in dist.todo /\ dist.msg \in Message
        BY <1>2 DEF DistSend, Bookkeeping, DistInv
  <2>2. /\ dist'.at = "send" /\ dist'.msg = dist.msg /\ dist'.todo = dist.todo \ {s}
        BY <1>2, TypeForm DEF DistSend, DistRecord
  <2>3. ModelsKept /\ TableInv' BY <2>1, SameTable
  <2>4. (\A i \in 1 .. Len(queue) : MessageInv(queue[i]))' BY <2>1, <2>3, MessagesKept
  <2>5. DistInv' BY <2>1, <2>2 DEF Bookkeeping, DistInv, MessageInv
  <2>6. \A u \in Sessions \ {s} : channel'[u] = channel[u] BY <1>2, TypeForm DEF DistSend
  <2>7. ASSUME NEW u \in Sessions \ {s} PROVE SessionInv(u)'
        BY <2>1, <2>2, <2>6 DEF Bookkeeping, SessionInv
  <2>8. SessionInv(s)'
    <3>1. CASE channel' = channel BY <2>1, <2>2, <3>1 DEF Bookkeeping, SessionInv
    <3>2. CASE channel' = [channel EXCEPT ![s].buf = Append(@, dist.msg)]
      <4> DEFINE b == channel[s].buf
      <4>1. channel'[s].open = channel[s].open /\ channel'[s].buf = Append(b, dist.msg)
            BY <3>2, TypeForm DEF ChannelRecord
      <4>2. b \in Seq(Message) BY DEF TypeOK
      <4>3. \A i \in 1 .. Len(b) : b[i].model = session[s].model
            BY DEF Bookkeeping, SessionInv
      <4>4. channel[s].open /\ session[s].model = dist.msg.model /\ channel[s] # NoChannel
            BY <2>1 DEF Bookkeeping, SessionInv, NoChannel
      <4> HIDE DEF b
      <4>5. /\ Len(b) \in Nat
            /\ Len(Append(b, dist.msg)) = Len(b) + 1
            /\ \A i \in 1 .. Len(b) : Append(b, dist.msg)[i] = b[i]
            /\ Append(b, dist.msg)[Len(b) + 1] = dist.msg
            BY <2>1, <4>2, AppendProperties, LenProperties
      <4>6. ASSUME NEW i \in 1 .. Len(channel'[s].buf)
            PROVE  channel'[s].buf[i].model = session[s].model
        <5>1. CASE i = Len(b) + 1 BY <4>1, <4>4, <4>5, <5>1
        <5>2. CASE i # Len(b) + 1
          <6>1. i \in 1 .. Len(b) BY <4>1, <4>5, <5>2
          <6> QED BY <4>1, <4>3, <4>5, <6>1
        <5> QED BY <5>1, <5>2
      <4> QED BY <2>1, <2>2, <4>1, <4>4, <4>6 DEF Bookkeeping, SessionInv
    <3> QED BY <1>2, <3>1, <3>2 DEF DistSend
  <2> QED BY <2>3, <2>4, <2>5, <2>7, <2>8 DEF Bookkeeping
<1>3. CASE DistUnlock \/ DistHook
  <2>1. /\ UNCHANGED <<pipelines, mp, puller, queue, session, channel>>
        /\ dist' = Receiving \/ (dist' = [dist EXCEPT !.at = dist'.at] /\ dist'.at \in {"hook", "close"})
        /\ dist.at \in {"send", "hook"} /\ dist.todo = {}
        /\ dist' # Receiving => dist.msg.status \in Terminal
        BY <1>3, TypeForm DEF DistUnlock, DistHook, DistRecord, Bookkeeping, DistInv
  <2>2. ModelsKept /\ TableInv' BY <2>1, SameTable
  <2>3. (\A i \in 1 .. Len(queue) : MessageInv(queue[i]))' BY <2>1, <2>2, MessagesKept
  <2>4. DistInv' /\ dist'.todo = {}
    <3>1. CASE dist' = Receiving BY <3>1 DEF DistInv, Receiving
    <3>2. CASE dist' # Receiving
      <4>1. /\ dist'.at \in {"hook", "close"} /\ dist'.msg = dist.msg /\ dist'.todo = {}
            BY <2>1, <3>2, TypeForm DEF DistRecord
      <4>2. dist.msg \in Message /\ MessageInv(dist.msg) BY <2>1 DEF Bookkeeping, DistInv
      <4> QED BY <2>1, <3>2, <4>1, <4>2 DEF DistInv, MessageInv
    <3> QED BY <3>1, <3>2
  <2>5. \A s \in Sessions : SessionInv(s)' BY <2>1, <2>4 DEF Bookkeeping, SessionInv
  <2> QED BY <2>2, <2>3, <2>4, <2>5 DEF Bookkeeping
<1>4. CASE DistClose
  <2>1. /\ dist.msg.model \in Models /\ CloseModelPipeline(dist.msg.model)
        /\ dist' = Receiving /\ UNCHANGED <<puller, queue, session>>
        BY <1>4 DEF DistClose, Bookkeeping, DistInv, Message
  <2>2. dist'.todo = {} /\ DistInv' BY <2>1 DEF DistInv, Receiving
  <2>3. ModelsKept /\ TableInv' /\ \A s \in Sessions : SessionInv(s)'
        BY <2>1, <2>2, ClosedBook
  <2> QED BY <2>1, <2>2, <2>3, MessagesKept DEF Bookkeeping
<1> QED BY <1>1, <1>2, <1>3, <1>4 DEF Distributor

\* Every step keeps the executor's bookkeeping.
LEMMA BookNext == TypeOK /\ Bookkeeping /\ [Next]_vars => Bookkeeping'
<1> SUFFICES ASSUME TypeOK, Bookkeeping, [Next]_vars PROVE Bookkeeping' OBVIOUS
<1>1. CASE UNCHANGED vars
  <2>1. UNCHANGED <<pipelines, mp, puller, queue, dist, session, channel>> BY <1>1 DEF vars
  <2>2. ModelsKept /\ TableInv' BY <2>1, SameTable
  <2>3. \A s \in Sessions : SessionInv(s)' BY <2>1 DEF Bookkeeping, SessionInv
  <2> QED BY <2>1, <2>2, <2>3, MessagesKept DEF Bookkeeping
<1> QED BY <1>1, CallerBook, DownloadBook, StopBook, DistributorBook DEF Next

\* The inductive invariant.
THEOREM BookkeepingHolds == Spec => [](TypeOK /\ Bookkeeping)
<1>1. Init => TypeOK /\ Bookkeeping BY TypeInit, BookInit
<1>2. TypeOK /\ Bookkeeping /\ [Next]_vars => TypeOK' /\ Bookkeeping' BY TypeNext, BookNext
<1> QED BY <1>1, <1>2, PTL DEF Spec

\* The executor's state is always well typed: the queue and the pipelines never
\* hold more than their channels have room for.
THEOREM TypeCorrect == Spec => []TypeOK
BY BookkeepingHolds, PTL

\* No channel is closed twice and nothing is sent on a closed one.
THEOREM NothingAfterClose == Spec => []NoUseAfterClose
<1>1. TypeOK /\ Bookkeeping => NoUseAfterClose
      BY DEF Bookkeeping, SessionInv, NoUseAfterClose, TypeOK
<1> QED BY <1>1, BookkeepingHolds, PTL

\* A pipeline only ever holds messages of its own model.
THEOREM OwnMessages == Spec => []OwnModelOnly
<1>1. Bookkeeping => OwnModelOnly BY DEF Bookkeeping, SessionInv, OwnModelOnly
<1> QED BY <1>1, BookkeepingHolds, PTL

\* A model pipeline that was stopped is not in the table.
THEOREM StoppedGone == Spec => []StoppedIsUnregistered
<1>1. Bookkeeping => StoppedIsUnregistered BY DEF Bookkeeping, TableInv, StoppedIsUnregistered
<1> QED BY <1>1, BookkeepingHolds, PTL

-----------------------------------------------------------------------------
(* Ended downloads.                                                        *)

\* The last message of p is queued, or the distributor has it.
LastMessage(p) ==
  \/ \E i \in 1 .. Len(queue) : queue[i].pull = p /\ queue[i].status \in Terminal
  \/ dist.msg.pull = p /\ dist.msg.status \in Terminal

\* No ended download is registered without its last message being on the way.
LEMMA DeadNext ==
  ASSUME TypeOK, Bookkeeping, Bookkeeping', NoDeadPipeline, [Next]_vars
  PROVE  NoDeadPipeline'
<1> SUFFICES ASSUME NEW m \in Models, NEW p \in Pulls, pipelines'[m] = p, puller'[p] = "ended"
             PROVE  LastMessage(p)'
  <2>1. ASSUME NEW m \in Models, pipelines'[m] # None PROVE pipelines'[m] \in Pulls
        BY <2>1, TypeNext DEF TypeOK
  <2> QED BY <2>1 DEF NoDeadPipeline, LastMessage
<1>1. ASSUME pipelines'[m] = pipelines[m], puller[p] = "ended" PROVE LastMessage(p)
      BY <1>1, NoneAssumption DEF NoDeadPipeline, LastMessage
<1>2. CASE UNCHANGED vars
  <2>1. LastMessage(p) BY <1>1, <1>2 DEF vars
  <2> QED BY <1>2, <2>1 DEF vars, LastMessage
<1>3. ASSUME NEW s \in Sessions, Caller(s) PROVE LastMessage(p)'
  <2>1. queue' = queue /\ dist' = dist
        BY <1>3 DEF Caller, PullGet, PullSet, PullAdd, Leave, Read, StreamEnd
  <2>2. pipelines'[m] = pipelines[m] /\ puller[p] = "ended"
    <3>1. ASSUME NEW q \in Pulls, PullSet(s, q) PROVE pipelines'[m] = pipelines[m] /\ puller[p] = "ended"
      <4>1. puller' = puller /\ pipelines' = [pipelines EXCEPT ![session[s].model] = q] /\ mp[q] = NoPull
            BY <3>1 DEF PullSet
      <4>2. puller[q] = "none" BY <4>1 DEF Bookkeeping, TableInv, NoPull
      <4>3. p # q BY <4>1, <4>2
      <4> QED BY <4>1, <4>3 DEF TypeOK
    <3>2. CASE PullAdd(s) BY <3>2 DEF PullAdd, TypeOK
    <3>3. CASE pipelines' = pipelines /\ puller' = puller BY <3>3
    <3> QED BY <1>3, <3>1, <3>2, <3>3 DEF Caller, PullGet, Leave, Read, StreamEnd
  <2> QED BY <1>1, <2>1, <2>2 DEF LastMessage
<1>4. ASSUME NEW q \in Pulls, Download(q) PROVE LastMessage(p)'
  <2>1. UNCHANGED <<pipelines, dist>> BY <1>4 DEF Download, Progress, PullEnds, PullSilent
  <2>2. queue \in Seq(Message) BY DEF TypeOK
  <2>3. Len(queue) \in Nat BY <2>2, LenProperties
  <2>4. CASE Progress(q)
    <3>1. puller' = puller /\ Send(q, "progress") /\ puller[q] = "running" BY <2>4 DEF Progress
    <3>2. Len(queue') = Len(queue) + 1 /\ \A i \in 1 .. Len(queue) : queue'[i] = queue[i]
          BY <3>1, Queued DEF Bookkeeping
    <3>3. LastMessage(p) BY <1>1, <2>1, <3>1
    <3> QED BY <2>1, <2>3, <3>2, <3>3 DEF LastMessage
  <2>5. ASSUME NEW st \in Terminal, PullEnds(q, st) PROVE LastMessage(p)'
    <3>1. Send(q, st) /\ puller[q] = "running" /\ puller' = [puller EXCEPT ![q] = "ended"]
          BY <2>5 DEF PullEnds
    <3>2. /\ Len(queue') = Len(queue) + 1
          /\ \A i \in 1 .. Len(queue) : queue'[i] = queue[i]
          /\ queue'[Len(queue')] = [model |-> mp[q].model, status |-> st, pull |-> q]
          BY <3>1, Queued DEF Bookkeeping
    <3>3. CASE p = q
      <4>1. Len(queue') \in 1 .. Len(queue') BY <2>3, <3>2
      <4> QED BY <3>2, <3>3, <4>1 DEF LastMessage
    <3>4. CASE p # q
      <4>1. puller[p] = "ended" BY <2>1, <3>1, <3>4 DEF TypeOK
      <4>2. LastMessage(p) BY <1>1, <2>1, <4>1
      <4> QED BY <2>1, <2>3, <3>2, <4>2 DEF LastMessage
    <3> QED BY <3>3, <3>4
  <2>6. CASE PullSilent(q)
    <3>1. queue' = queue /\ puller' = [puller EXCEPT ![q] = "silent"] BY <2>6 DEF PullSilent
    <3>2. p \in Pulls BY <2>1 DEF TypeOK
    <3>3. puller[p] = "ended" BY <3>1, <3>2 DEF TypeOK
    <3>4. LastMessage(p) BY <1>1, <2>1, <3>3
    <3> QED BY <2>1, <3>1, <3>4 DEF LastMessage
  <2> QED BY <1>4, <2>4, <2>5, <2>6 DEF Download
<1>5. ASSUME NEW n \in Models, StopPull(n) PROVE LastMessage(p)'
  <2>1. UNCHANGED <<puller, queue, dist>> /\ CloseModelPipeline(n) BY <1>5 DEF StopPull
  <2>2. pipelines'[m] = pipelines[m] BY <2>1, ClosedModel, NoneAssumption
  <2> QED BY <1>1, <2>1, <2>2 DEF LastMessage
<1>6. CASE DistReceive
  <2>1. /\ UNCHANGED <<pipelines, puller>> /\ dist.at = "receive" /\ dist'.msg = Head(queue)
        BY <1>6 DEF DistReceive
  <2>2. /\ Head(queue) = queue[1] /\ Len(queue') = Len(queue) - 1 /\ Len(queue) \in Nat \ {0}
        /\ \A i \in 1 .. Len(queue') : queue'[i] = queue[i + 1]
        BY <1>6, Taken
  <2>3. LastMessage(p) BY <1>1, <2>1
  <2>4. ~ (dist.msg.status \in Terminal)
        BY <2>1 DEF Bookkeeping, DistInv, Receiving, NoMessage, Terminal
  <2>5. PICK i \in 1 .. Len(queue) : queue[i].pull = p /\ queue[i].status \in Terminal
        BY <2>3, <2>4 DEF LastMessage
  <2>6. CASE i = 1 BY <2>1, <2>2, <2>5, <2>6 DEF LastMessage
  <2>7. CASE i # 1
    <3>1. i - 1 \in 1 .. Len(queue') /\ queue'[i - 1] = queue[i] BY <2>2, <2>7
    <3> QED BY <2>1, <2>5, <3>1 DEF LastMessage
  <2> QED BY <2>6, <2>7
<1>7. CASE (\E s \in Sessions : DistSend(s)) \/ DistUnlock \/ DistHook
  <2>1. UNCHANGED <<pipelines, puller, queue>> BY <1>7 DEF DistSend, DistUnlock, DistHook
  <2>2. dist.msg.status \in Terminal => dist'.msg = dist.msg
        BY <1>7, TypeForm DEF DistSend, DistUnlock, DistHook, DistRecord
  <2>3. LastMessage(p) BY <1>1, <2>1
  <2> QED BY <2>1, <2>2, <2>3 DEF LastMessage
<1>8. CASE DistClose
  <2>1. /\ dist.msg.model \in Models /\ CloseModelPipeline(dist.msg.model) /\ MessageInv(dist.msg)
        /\ UNCHANGED <<puller, queue>>
        BY <1>8 DEF DistClose, Bookkeeping, DistInv, Message
  <2>2. m # dist.msg.model /\ pipelines'[m] = pipelines[m] BY <2>1, ClosedModel, NoneAssumption
  <2>3. LastMessage(p) BY <1>1, <2>1, <2>2
  <2>4. mp[p].model = m BY <2>2, NoneAssumption DEF Bookkeeping, TableInv
  <2>5. dist.msg.pull # p BY <2>1, <2>2, <2>4 DEF MessageInv
  <2> QED BY <2>1, <2>3, <2>5 DEF LastMessage
<1> QED BY <1>2, <1>3, <1>4, <1>5, <1>6, <1>7, <1>8 DEF Next, Distributor

\* Whoever ends a download leaves its last message behind: no pipeline waits in
\* the table for a download that has ended and will never be handled.
THEOREM NoneDead == Spec => []NoDeadPipeline
<1>1. Init => NoDeadPipeline BY DEF Init, NoDeadPipeline
<1>2. TypeOK /\ Bookkeeping /\ Bookkeeping' /\ NoDeadPipeline /\ [Next]_vars => NoDeadPipeline'
      BY DeadNext
<1> QED BY <1>1, <1>2, BookkeepingHolds, PTL DEF Spec

-----------------------------------------------------------------------------
(* The ends among the messages of a queue.                                 *)

\* The ends among the first n messages of q, for n up to k.
Counted(ends, q, k) == ends = [n \in 0 .. k |-> IF n = 0 THEN <<>> ELSE WithEnd(ends[n - 1], q[n])]

EndsTo(q) == CHOOSE ends : Counted(ends, q, Len(q))

\* What is wrong of some number is wrong of a least one.
LEMMA Least ==
  ASSUME NEW S \in SUBSET Nat, S # {}
  PROVE  \E n \in S : \A m \in S : n <= m
<1> DEFINE R == {p \in Nat \X Nat : p[1] < p[2]}
<1>1. IsWellFoundedOn(R, Nat) BY NatLessThanWellFounded, Zenon DEF OpToRel
<1> HIDE DEF R
<1>2. PICK n \in S : \A m \in S : ~ (<<m, n>> \in R) BY <1>1, WFMin
<1>3. \A m \in S : ~ (m < n) BY <1>2 DEF R
<1> QED BY <1>3

\* Induction up to a number, for a set.
LEMMA UpTo ==
  ASSUME NEW k \in Nat, NEW S, 0 \in S, \A n \in 0 .. k - 1 : n \in S => n + 1 \in S
  PROVE  0 .. k \subseteq S
<1> DEFINE Bad == (0 .. k) \ S
<1>1. SUFFICES ASSUME Bad # {} PROVE FALSE OBVIOUS
<1>2. PICK n \in Bad : \A m \in Bad : n <= m
  <2>1. Bad \subseteq Nat OBVIOUS
  <2> HIDE DEF Bad
  <2> QED BY <1>1, <2>1, Least
<1>3. n # 0 /\ n - 1 \in 0 .. k - 1 /\ (n - 1) + 1 = n /\ ~ (n <= n - 1) BY <1>2
<1>4. n - 1 \in S BY <1>2, <1>3
<1> QED BY <1>2, <1>3, <1>4

\* What is counted up to k can be counted one further.
LEMMA CountOne ==
  ASSUME NEW q, NEW k \in Nat, NEW g, Counted(g, q, k)
  PROVE  \E h : Counted(h, q, k + 1)
<1> DEFINE h == [n \in 0 .. k + 1 |-> IF n = 0 THEN <<>> ELSE WithEnd(g[n - 1], q[n])]
<1>1. \A n \in 0 .. k : h[n] = IF n = 0 THEN <<>> ELSE WithEnd(g[n - 1], q[n]) OBVIOUS
<1>2. \A n \in 0 .. k : g[n] = IF n = 0 THEN <<>> ELSE WithEnd(g[n - 1], q[n]) BY DEF Counted
<1>3. \A n \in 0 .. k : h[n] = g[n] BY <1>1, <1>2
<1>4. \A n \in 1 .. k + 1 : h[n - 1] = g[n - 1] BY <1>3
<1>5. \A n \in 0 .. k + 1 : (IF n = 0 THEN <<>> ELSE WithEnd(h[n - 1], q[n]))
                           = (IF n = 0 THEN <<>> ELSE WithEnd(g[n - 1], q[n]))
  <2> SUFFICES ASSUME NEW n \in 0 .. k + 1, n # 0
               PROVE  WithEnd(h[n - 1], q[n]) = WithEnd(g[n - 1], q[n])
    OBVIOUS
  <2>1. n \in 1 .. k + 1 OBVIOUS
  <2>2. h[n - 1] = g[n - 1] BY <1>4, <2>1
  <2> HIDE DEF h
  <2> QED BY <2>2
<1>6. h = [n \in 0 .. k + 1 |-> IF n = 0 THEN <<>> ELSE WithEnd(h[n - 1], q[n])]
  <2> DEFINE F(n) == IF n = 0 THEN <<>> ELSE WithEnd(g[n - 1], q[n])
             G(n) == IF n = 0 THEN <<>> ELSE WithEnd(h[n - 1], q[n])
  <2>1. h = [n \in 0 .. k + 1 |-> F(n)] OBVIOUS
  <2>2. \A n \in 0 .. k + 1 : G(n) = F(n) BY <1>5
  <2> HIDE DEF F, G, h
  <2>3. h = [n \in 0 .. k + 1 |-> G(n)] BY <2>1, <2>2
  <2> QED BY <2>3 DEF G
<1> QED BY <1>6 DEF Counted

\* The ends of a queue are counted message by message.
LEMMA EndsFrom ==
  ASSUME NEW q, Len(q) \in Nat
  PROVE  /\ Ends(q) = EndsTo(q)[Len(q)]
         /\ EndsTo(q)[0] = <<>>
         /\ \A n \in 1 .. Len(q) : EndsTo(q)[n] = WithEnd(EndsTo(q)[n - 1], q[n])
<1> DEFINE Bad == {k \in Nat : ~ \E g : Counted(g, q, k)}
<1>1. Bad = {}
  <2> SUFFICES ASSUME Bad # {} PROVE FALSE OBVIOUS
  <2>1. PICK k \in Bad : \A m \in Bad : k <= m BY Least
  <2>2. CASE k = 0
    <3>1. Counted([n \in 0 .. 0 |-> <<>>], q, 0) BY DEF Counted
    <3> QED BY <2>1, <2>2, <3>1
  <2>3. CASE k # 0
    <3>1. k - 1 \in Nat /\ ~ (k <= k - 1) /\ (k - 1) + 1 = k BY <2>1, <2>3
    <3>2. k - 1 \notin Bad BY <2>1, <3>1
    <3>3. \E g : Counted(g, q, k - 1) BY <3>1, <3>2
    <3>4. \E h : Counted(h, q, (k - 1) + 1) BY <3>1, <3>3, CountOne
    <3> QED BY <2>1, <3>1, <3>4
  <2> QED BY <2>2, <2>3
<1>2. \E g : Counted(g, q, Len(q)) BY <1>1
<1>3. Counted(EndsTo(q), q, Len(q)) BY <1>2 DEF EndsTo
<1>4. Ends(q) = EndsTo(q)[Len(q)] BY DEF Ends, EndsTo, Counted
<1>5. /\ EndsTo(q)[0] = <<>>
      /\ \A n \in 1 .. Len(q) : EndsTo(q)[n] = WithEnd(EndsTo(q)[n - 1], q[n])
  <2> HIDE DEF Bad
  <2> DEFINE e == EndsTo(q)
  <2>1. e = [n \in 0 .. Len(q) |-> IF n = 0 THEN <<>> ELSE WithEnd(e[n - 1], q[n])] BY <1>3 DEF Counted
  <2> HIDE DEF e
  <2>2. e[0] = <<>> BY <2>1
  <2>3. \A n \in 1 .. Len(q) : e[n] = WithEnd(e[n - 1], q[n]) BY <2>1
  <2> QED BY <2>2, <2>3 DEF e
<1> QED BY <1>4, <1>5

\* A message that is added at the end is the last of the ends, or none.
LEMMA EndsAppend ==
  ASSUME NEW q \in Seq(Message), NEW msg \in Message
  PROVE  Ends(Append(q, msg)) = WithEnd(Ends(q), msg)
<1> DEFINE r == Append(q, msg)
           S == {n \in Nat : EndsTo(r)[n] = EndsTo(q)[n]}
           k == Len(q)
<1>1. /\ k \in Nat /\ Len(r) = k + 1 /\ r[k + 1] = msg
      /\ \A n \in 1 .. k : r[n] = q[n]
      BY AppendProperties, LenProperties
<1>2. /\ Ends(q) = EndsTo(q)[k] /\ EndsTo(q)[0] = <<>>
      /\ \A n \in 1 .. k : EndsTo(q)[n] = WithEnd(EndsTo(q)[n - 1], q[n])
      BY <1>1, EndsFrom
<1>3. /\ Ends(r) = EndsTo(r)[k + 1] /\ EndsTo(r)[0] = <<>>
      /\ \A n \in 1 .. k + 1 : EndsTo(r)[n] = WithEnd(EndsTo(r)[n - 1], r[n])
  <2> HIDE DEF r
  <2> QED BY <1>1, EndsFrom
<1> HIDE DEF r, k
<1>4. 0 \in S BY <1>2, <1>3
<1>5. \A n \in 0 .. k - 1 : n \in S => n + 1 \in S
  <2> SUFFICES ASSUME NEW n \in 0 .. k - 1, n \in S PROVE n + 1 \in S OBVIOUS
  <2>1. n + 1 \in 1 .. k /\ n + 1 \in 1 .. k + 1 /\ (n + 1) - 1 = n BY <1>1
  <2>2. EndsTo(r)[n + 1] = WithEnd(EndsTo(r)[n], r[n + 1]) BY <1>3, <2>1
  <2>3. EndsTo(q)[n + 1] = WithEnd(EndsTo(q)[n], q[n + 1]) BY <1>2, <2>1
  <2>4. EndsTo(r)[n] = EndsTo(q)[n] /\ r[n + 1] = q[n + 1] BY <1>1, <2>1
  <2> QED BY <2>1, <2>2, <2>3, <2>4
<1>6. 0 .. k \subseteq S
  <2> HIDE DEF S
  <2> QED BY <1>1, <1>4, <1>5, UpTo
<1>7. EndsTo(r)[k] = EndsTo(q)[k] BY <1>1, <1>6
<1>8. k + 1 \in 1 .. k + 1 /\ (k + 1) - 1 = k BY <1>1
<1>9. Ends(r) = WithEnd(EndsTo(r)[k], r[k + 1]) BY <1>3, <1>8
<1>10. Ends(r) = WithEnd(Ends(q), msg) BY <1>1, <1>2, <1>7, <1>9
<1> QED BY <1>10 DEF r

\* An end that is added to more of them.
LEMMA WithEndType ==
  ASSUME NEW a \in Seq(Message), NEW b \in Seq(Message), NEW msg \in Message
  PROVE  /\ WithEnd(b, msg) \in Seq(Message)
         /\ a \o b \in Seq(Message)
         /\ WithEnd(a \o b, msg) = a \o WithEnd(b, msg)
<1>1. a \o b \in Seq(Message) BY ConcatProperties
<1>2. Append(b, msg) \in Seq(Message) BY AppendProperties
<1>3. <<msg>> \in Seq(Message) OBVIOUS
<1>4. Append(a \o b, msg) = (a \o b) \o <<msg>> BY <1>1, AppendIsConcat
<1>5. Append(b, msg) = b \o <<msg>> BY AppendIsConcat
<1>6. (a \o b) \o <<msg>> = a \o (b \o <<msg>>) BY <1>3, ConcatAssociative
<1> QED BY <1>1, <1>2, <1>4, <1>5, <1>6 DEF WithEnd

\* A message before the others is the first of the ends, or none.
LEMMA EndsPrepend ==
  ASSUME NEW q \in Seq(Message), NEW msg \in Message
  PROVE  /\ Ends(q) \in Seq(Message)
         /\ Ends(<<msg>> \o q) = WithEnd(<<>>, msg) \o Ends(q)
<1> DEFINE r == <<msg>> \o q
           a == WithEnd(<<>>, msg)
           k == Len(q)
           S == {n \in Nat : EndsTo(q)[n] \in Seq(Message) /\ EndsTo(r)[n + 1] = a \o EndsTo(q)[n]}
<1>1. /\ k \in Nat /\ Len(r) = k + 1 /\ r[1] = msg
      /\ \A n \in 1 .. k : r[n + 1] = q[n] /\ q[n] \in Message
  <2>1. <<msg>> \in Seq(Message) /\ Len(<<msg>>) = 1 /\ <<msg>>[1] = msg OBVIOUS
  <2>2. k \in Nat BY LenProperties
  <2>3. Len(r) = 1 + k BY <2>1, ConcatProperties
  <2>4. r[1] = msg BY <2>1, <2>2, ConcatProperties
  <2>5. \A n \in 1 .. k : n + 1 \in 1 .. Len(<<msg>>) + k /\ n + 1 > 1 /\ (n + 1) - 1 = n
    BY <2>1, <2>2
  <2>6. \A n \in 1 .. k : r[n + 1] = q[n] BY <2>1, <2>5, ConcatProperties
  <2>7. \A n \in 1 .. k : q[n] \in Message BY ElementOfSeq
  <2> QED BY <2>2, <2>3, <2>4, <2>6, <2>7
<1>2. /\ Ends(q) = EndsTo(q)[k] /\ EndsTo(q)[0] = <<>>
      /\ \A n \in 1 .. k : EndsTo(q)[n] = WithEnd(EndsTo(q)[n - 1], q[n])
      BY <1>1, EndsFrom
<1>3. /\ Ends(r) = EndsTo(r)[k + 1] /\ EndsTo(r)[0] = <<>>
      /\ \A n \in 1 .. k + 1 : EndsTo(r)[n] = WithEnd(EndsTo(r)[n - 1], r[n])
  <2> HIDE DEF r
  <2> QED BY <1>1, EndsFrom
<1>4. <<>> \in Seq(Message) /\ a \in Seq(Message) BY EmptySeq, WithEndType
<1> HIDE DEF r, k, a
<1>5. 0 \in S
  <2>1. 1 \in 1 .. k + 1 /\ 1 - 1 = 0 /\ 0 + 1 = 1 BY <1>1
  <2>2. EndsTo(r)[1] = WithEnd(<<>>, msg) BY <1>1, <1>3, <2>1
  <2>3. a \o <<>> = a BY <1>4, ConcatEmptySeq
  <2> QED BY <1>2, <1>4, <2>1, <2>2, <2>3 DEF a
<1>6. \A n \in 0 .. k - 1 : n \in S => n + 1 \in S
  <2> SUFFICES ASSUME NEW n \in 0 .. k - 1, n \in S PROVE n + 1 \in S OBVIOUS
  <2>1. n + 1 \in 1 .. k /\ (n + 1) + 1 \in 1 .. k + 1 /\ (n + 1) - 1 = n /\ ((n + 1) + 1) - 1 = n + 1
    BY <1>1
  <2>2. EndsTo(r)[(n + 1) + 1] = WithEnd(EndsTo(r)[n + 1], r[(n + 1) + 1]) BY <1>3, <2>1
  <2>3. EndsTo(q)[n + 1] = WithEnd(EndsTo(q)[n], q[n + 1]) BY <1>2, <2>1
  <2>4. r[(n + 1) + 1] = q[n + 1] /\ q[n + 1] \in Message BY <1>1, <2>1
  <2>5. EndsTo(q)[n] \in Seq(Message) /\ EndsTo(r)[n + 1] = a \o EndsTo(q)[n] OBVIOUS
  <2>6. WithEnd(a \o EndsTo(q)[n], q[n + 1]) = a \o WithEnd(EndsTo(q)[n], q[n + 1])
    BY <1>4, <2>4, <2>5, WithEndType
  <2>7. WithEnd(EndsTo(q)[n], q[n + 1]) \in Seq(Message) BY <2>4, <2>5, EmptySeq, WithEndType
  <2>8. EndsTo(r)[(n + 1) + 1] = a \o EndsTo(q)[n + 1] BY <2>2, <2>3, <2>4, <2>5, <2>6
  <2>9. EndsTo(q)[n + 1] \in Seq(Message) BY <2>3, <2>7
  <2> QED BY <2>1, <2>8, <2>9
<1>7. 0 .. k \subseteq S
  <2> HIDE DEF S
  <2> QED BY <1>1, <1>5, <1>6, UpTo
<1>8. EndsTo(q)[k] \in Seq(Message) /\ EndsTo(r)[k + 1] = a \o EndsTo(q)[k] BY <1>1, <1>7
<1>9. Ends(q) \in Seq(Message) /\ Ends(r) = a \o Ends(q) BY <1>2, <1>3, <1>8
<1> QED BY <1>9 DEF a, r

-----------------------------------------------------------------------------
(* PullBoard.                                                              *)

\* A sequence is its head and its tail.
LEMMA HeadAndTail ==
  /\ \A q \in Seq(Message) : q # <<>> => <<Head(q)>> \o Tail(q) = q
  /\ \A q \in Seq(Message), msg \in Message :
       <<msg>> \o q # <<>> /\ Head(<<msg>> \o q) = msg /\ Tail(<<msg>> \o q) = q
<1>1. ASSUME NEW q \in Seq(Message), q # <<>> PROVE <<Head(q)>> \o Tail(q) = q
  <2>1. Head(q) = q[1] /\ Tail(q) = SubSeq(q, 2, Len(q)) BY <1>1, TailIsSubSeq
  <2>2. Len(q) \in Nat \ {0} BY <1>1, EmptySeq
  <2>3. SubSeq(q, 1, Len(q)) = <<q[1]>> \o SubSeq(q, 1 + 1, Len(q))
    BY <2>2, SubSeqRecursiveFirst
  <2>4. 1 + 1 = 2 OBVIOUS
  <2> QED BY <2>1, <2>3, <2>4, SubSeqFull
<1>2. ASSUME NEW q \in Seq(Message), NEW msg \in Message
      PROVE  <<msg>> \o q # <<>> /\ Head(<<msg>> \o q) = msg /\ Tail(<<msg>> \o q) = q
  <2> DEFINE r == <<msg>> \o q
  <2>1. <<msg>> \in Seq(Message) /\ Len(<<msg>>) = 1 /\ <<msg>>[1] = msg OBVIOUS
  <2>2. Len(q) \in Nat BY LenProperties
  <2>3. /\ r \in Seq(Message) /\ Len(r) = 1 + Len(q)
        /\ \A i \in 1 .. 1 + Len(q) : r[i] = IF i <= 1 THEN msg ELSE q[i - 1]
    BY <2>1, ConcatProperties
  <2> HIDE DEF r
  <2>4. r # <<>> /\ Head(r) = msg
    <3>1. r # <<>> BY <2>2, <2>3, EmptySeq
    <3>2. Head(r) = r[1] BY <2>3
    <3> QED BY <2>2, <2>3, <3>1, <3>2
  <2>5. /\ Tail(r) \in Seq(Message) /\ Len(Tail(r)) = Len(r) - 1
        /\ \A i \in 1 .. Len(Tail(r)) : Tail(r)[i] = r[i + 1]
    BY <2>3, <2>4, HeadTailProperties
  <2>6. Len(Tail(r)) = Len(q) BY <2>2, <2>3, <2>5
  <2>7. \A i \in 1 .. Len(q) : Tail(r)[i] = q[i]
    <3> TAKE i \in 1 .. Len(q)
    <3>1. i + 1 \in 1 .. 1 + Len(q) /\ ~ (i + 1 <= 1) /\ (i + 1) - 1 = i BY <2>2
    <3> QED BY <2>3, <2>5, <2>6, <3>1
  <2>8. Tail(r) = q BY <2>5, <2>6, <2>7, SeqEqual
  <2> QED BY <2>4, <2>8 DEF r
<1> QED BY <1>1, <1>2

\* The board's variables.
OfModel == [p \in Pulls |-> mp[p].model]
Running == {p \in Pulls : puller[p] = "running"}
Unhandled == (IF dist.at = "send" THEN <<dist.msg>> ELSE <<>>) \o queue
Handler == IF dist.at \in {"hook", "close"} THEN [at |-> dist.at, msg |-> dist.msg]
                                            ELSE [at |-> "wait", msg |-> NoMessage]

\* Nothing of the board changes.
BoardSame == UNCHANGED <<pipelines, OfModel, Running, Ends(Unhandled), Handler>>

LEMMA SameIsStutter == BoardSame => UNCHANGED Board!boardVars
BY DEF BoardSame, OfModel, Running, Unhandled, Handler, Board!boardVars

\* Nothing is queued or taken.
LEMMA SameOutcomes == UNCHANGED <<queue, dist>> => UNCHANGED <<Ends(Unhandled), Handler>>
BY DEF Unhandled, Handler

\* What is waiting to be handled.
LEMMA UnhandledForm ==
  ASSUME TypeOK, Bookkeeping
  PROVE  /\ dist.at = "send" => Unhandled = <<dist.msg>> \o queue /\ dist.msg \in Message
         /\ dist.at # "send" => Unhandled = queue
         /\ Unhandled \in Seq(Message) /\ queue \in Seq(Message)
<1>1. queue \in Seq(Message) BY DEF TypeOK
<1>2. dist.at = "send" => dist.msg \in Message BY DEF Bookkeeping, DistInv
<1>3. <<>> \o queue = queue BY <1>1, ConcatEmptySeq
<1>4. CASE dist.at = "send"
  <2>1. <<dist.msg>> \in Seq(Message) BY <1>2, <1>4
  <2>2. <<dist.msg>> \o queue \in Seq(Message) BY <1>1, <2>1, ConcatProperties
  <2> QED BY <1>1, <1>2, <1>4, <2>2 DEF Unhandled
<1>5. CASE dist.at # "send" BY <1>1, <1>3, <1>5 DEF Unhandled
<1> QED BY <1>4, <1>5

\* A model pipeline's model stays its own, whatever leaves or joins it.
LEMMA SameModels ==
  ASSUME TypeOK, mp' \in [Pulls -> PullRecord], \A p \in Pulls : mp'[p].model = mp[p].model
  PROVE  OfModel' = OfModel
BY DEF OfModel

\* A model that is stopped or has ended is not registered any more.
LEMMA ClosedBoard ==
  ASSUME TypeOK, NEW m \in Models, CloseModelPipeline(m)
  PROVE  pipelines' = [pipelines EXCEPT ![m] = None] /\ OfModel' = OfModel
<1>1. CASE pipelines[m] = None
  <2>1. UNCHANGED <<pipelines, mp>> BY <1>1 DEF CloseModelPipeline
  <2>2. pipelines \in [Models -> Pulls \cup {None}] BY DEF TypeOK
  <2> QED BY <1>1, <2>1, <2>2 DEF OfModel
<1>2. CASE pipelines[m] # None
  <2>1. pipelines' = [pipelines EXCEPT ![m] = None] BY <1>2 DEF CloseModelPipeline
  <2>2. mp' = [mp EXCEPT ![pipelines[m]].members = {}, ![pipelines[m]].cancelled = TRUE]
    BY <1>2 DEF CloseModelPipeline
  <2>3. pipelines[m] \in Pulls /\ mp \in [Pulls -> PullRecord] BY <1>2, TypeForm
  <2>4. \A p \in Pulls : mp'[p].model = mp[p].model BY <2>2, <2>3 DEF PullRecord
  <2> QED BY <2>1, <2>4 DEF OfModel
<1> QED BY <1>1, <1>2

\* The callers: one registers a download, one that joins its own starts it.
LEMMA CallerBoard ==
  ASSUME TypeOK, Bookkeeping, NEW s \in Sessions, Caller(s)
  PROVE  Board!BoardNext \/ UNCHANGED Board!boardVars
<1>1. CASE \/ \E m \in Models, stream \in BOOLEAN, a \in Models \cup {None} : PullGet(s, m, a, stream)
           \/ Read(s) \/ StreamEnd(s)
  <2>1. UNCHANGED <<pipelines, mp, puller, queue, dist>> BY <1>1 DEF PullGet, Read, StreamEnd
  <2>2. BoardSame BY <2>1, SameOutcomes DEF BoardSame, OfModel, Running
  <2> QED BY <2>2, SameIsStutter
<1>2. ASSUME NEW p \in Pulls, PullSet(s, p) PROVE Board!BoardNext
  <2> DEFINE m == session[s].model
  <2>1. m \in Models BY <1>2 DEF PullSet, Bookkeeping, SessionInv
  <2>2. /\ mp[p] = NoPull
        /\ mp' = [mp EXCEPT ![p].model = m]
        /\ pipelines' = [pipelines EXCEPT ![m] = p]
        /\ UNCHANGED <<puller, queue, dist>>
    BY <1>2 DEF PullSet
  <2>3. OfModel[p] = None BY <2>2 DEF OfModel, NoPull
  <2>4. mp \in [Pulls -> PullRecord] BY TypeForm
  <2>5. OfModel' = [OfModel EXCEPT ![p] = m] BY <2>2, <2>4 DEF OfModel, PullRecord
  <2>6. UNCHANGED <<Running, Ends(Unhandled), Handler>> BY <2>2, SameOutcomes DEF Running
  <2>7. Board!Register(m, p)
    <3> HIDE DEF m
    <3> QED BY <2>2, <2>3, <2>5, <2>6 DEF Board!Register, OfModel, Running, Unhandled, Handler
  <2> QED BY <2>1, <2>7 DEF Board!BoardNext
<1>3. CASE PullAdd(s)
  <2>1. PICK p \in Pulls : /\ p = session[s].pull /\ session[s].model \in Models
                           /\ mp[p].model = session[s].model
    BY <1>3 DEF PullAdd, Bookkeeping, SessionInv
  <2>2. UNCHANGED <<pipelines, queue, dist>> BY <1>3 DEF PullAdd
  <2>3. mp \in [Pulls -> PullRecord] BY TypeForm
  <2>4. OfModel' = OfModel BY <1>3, <2>1, <2>3 DEF PullAdd, OfModel, PullRecord
  <2>5. UNCHANGED <<Ends(Unhandled), Handler>> BY <2>2, SameOutcomes
  <2>6. CASE puller' = puller
    <3>1. BoardSame BY <2>2, <2>4, <2>5, <2>6 DEF BoardSame, Running
    <3> QED BY <3>1, SameIsStutter
  <2>7. CASE puller' = [puller EXCEPT ![p] = "running"]
    <3>1. puller \in [Pulls -> {"none", "running", "ended", "silent"}] BY DEF TypeOK
    <3>2. Running' = Running \cup {p} BY <2>1, <2>7, <3>1 DEF Running
    <3>3. OfModel[p] # None BY <2>1, NoneAssumption DEF OfModel
    <3>4. Board!Start(p) BY <2>2, <2>4, <2>5, <3>2, <3>3
      DEF Board!Start, OfModel, Running, Unhandled, Handler
    <3> QED BY <3>4 DEF Board!BoardNext
  <2> QED BY <1>3, <2>1, <2>6, <2>7 DEF PullAdd
<1>4. CASE Leave(s)
  <2>1. UNCHANGED <<pipelines, puller, queue, dist>> BY <1>4 DEF Leave
  <2>2. pipelines \in [Models -> Pulls \cup {None}] /\ mp \in [Pulls -> PullRecord]
    BY TypeForm
  <2>3. session[s].asked \in Models \cup {None} BY TypeForm DEF SessionRecord
  <2>4. \A p \in Pulls : mp'[p].model = mp[p].model
    BY <1>4, <2>2, <2>3 DEF Leave, ClosePipeline, CloseOne, PullRecord
  <2>5. OfModel' = OfModel BY <2>4 DEF OfModel
  <2>6. BoardSame BY <2>1, <2>5, SameOutcomes DEF BoardSame, Running
  <2> QED BY <2>6, SameIsStutter
<1> QED BY <1>1, <1>2, <1>3, <1>4 DEF Caller

\* The downloads: what they report is counted when it is their end.
LEMMA DownloadBoard ==
  ASSUME TypeOK, Bookkeeping, NEW p \in Pulls, Download(p)
  PROVE  Board!BoardNext \/ UNCHANGED Board!boardVars
<1>0. puller \in [Pulls -> {"none", "running", "ended", "silent"}] BY DEF TypeOK
<1>1. ASSUME NEW status \in {"progress"} \cup Terminal, puller[p] = "running", Send(p, status),
             UNCHANGED dist
      PROVE  Ends(Unhandled)' = WithEnd(Ends(Unhandled), [model |-> mp[p].model, status |-> status, pull |-> p])
  <2> DEFINE msg == [model |-> mp[p].model, status |-> status, pull |-> p]
  <2>1. msg \in Message BY <1>1 DEF TypeOK, Bookkeeping, TableInv, Message
  <2>2. queue' = Append(queue, msg) BY <1>1 DEF Send
  <2> HIDE DEF msg
  <2>3. Unhandled' = Append(Unhandled, msg)
    <3>1. CASE dist.at # "send"
      <4>1. Unhandled = queue BY <3>1, UnhandledForm
      <4>2. Append(queue, msg) \in Seq(Message) BY <2>1, UnhandledForm, AppendProperties
      <4>3. <<>> \o Append(queue, msg) = Append(queue, msg) BY <4>2, ConcatEmptySeq
      <4>4. Unhandled' = <<>> \o queue' BY <1>1, <3>1 DEF Unhandled
      <4> QED BY <2>2, <4>1, <4>3, <4>4
    <3>2. CASE dist.at = "send"
      <4>1. Unhandled = <<dist.msg>> \o queue /\ dist.msg \in Message /\ queue \in Seq(Message)
            /\ Unhandled \in Seq(Message)
        BY <3>2, UnhandledForm
      <4>2. <<dist.msg>> \in Seq(Message) /\ <<msg>> \in Seq(Message) BY <2>1, <4>1
      <4>3. Unhandled' = <<dist.msg>> \o Append(queue, msg) BY <1>1, <2>2, <3>2 DEF Unhandled
      <4>4. Append(queue, msg) = queue \o <<msg>> BY <2>1, <4>1, AppendIsConcat
      <4>5. (<<dist.msg>> \o queue) \o <<msg>> = <<dist.msg>> \o (queue \o <<msg>>)
        BY <4>1, <4>2, ConcatAssociative
      <4>6. Append(Unhandled, msg) = Unhandled \o <<msg>> BY <2>1, <4>1, AppendIsConcat
      <4> QED BY <4>1, <4>3, <4>4, <4>5, <4>6
    <3> QED BY <3>1, <3>2
  <2>4. Ends(Append(Unhandled, msg)) = WithEnd(Ends(Unhandled), msg) BY <2>1, UnhandledForm, EndsAppend
  <2>5. Ends(Unhandled)' = WithEnd(Ends(Unhandled), msg) BY <2>3, <2>4
  <2> QED BY <2>5 DEF msg
<1>2. CASE Progress(p)
  <2>1. UNCHANGED <<pipelines, mp, puller, dist>> /\ puller[p] = "running" /\ Send(p, "progress")
    BY <1>2 DEF Progress
  <2>2. Ends(Unhandled)' = Ends(Unhandled) BY <1>1, <2>1 DEF WithEnd, Terminal
  <2>3. BoardSame BY <2>1, <2>2 DEF BoardSame, OfModel, Running, Handler
  <2> QED BY <2>3, SameIsStutter
<1>3. ASSUME NEW status \in Terminal, PullEnds(p, status) PROVE Board!BoardNext
  <2>1. /\ UNCHANGED <<pipelines, mp, dist>> /\ puller[p] = "running" /\ Send(p, status)
        /\ puller' = [puller EXCEPT ![p] = "ended"]
    BY <1>3 DEF PullEnds
  <2>2. Ends(Unhandled)' = Append(Ends(Unhandled), [model |-> OfModel[p], status |-> status, pull |-> p])
    BY <1>1, <2>1 DEF WithEnd, OfModel
  <2>3. p \in Running /\ Running' = Running \ {p} BY <1>0, <2>1 DEF Running
  <2>4. UNCHANGED <<pipelines, OfModel, Handler>> BY <2>1 DEF OfModel, Handler
  <2>5. Board!Finish(p, status) BY <2>2, <2>3, <2>4 DEF Board!Finish, OfModel, Running, Unhandled, Handler
  <2> QED BY <2>5 DEF Board!BoardNext, Terminal
<1>4. CASE PullSilent(p)
  <2>1. /\ UNCHANGED <<pipelines, mp, queue, dist>> /\ puller[p] = "running"
        /\ puller' = [puller EXCEPT ![p] = "silent"]
    BY <1>4 DEF PullSilent
  <2>2. p \in Running /\ Running' = Running \ {p} BY <1>0, <2>1 DEF Running
  <2>3. UNCHANGED <<pipelines, OfModel, Ends(Unhandled), Handler>> BY <2>1, SameOutcomes DEF OfModel
  <2>4. Board!Vanish(p) BY <2>2, <2>3 DEF Board!Vanish, OfModel, Running, Unhandled, Handler
  <2> QED BY <2>4 DEF Board!BoardNext
<1> QED BY <1>2, <1>3, <1>4 DEF Download

\* The distributor: a message is taken when it has been sent, its end handled after.
LEMMA DistributorBoard ==
  ASSUME TypeOK, Bookkeeping, Distributor
  PROVE  Board!BoardNext \/ UNCHANGED Board!boardVars
<1>1. CASE DistReceive
  <2>1. /\ dist.at = "receive" /\ dist'.at = "send" /\ dist'.msg = Head(queue)
        /\ queue # <<>> /\ queue' = Tail(queue) /\ UNCHANGED <<pipelines, mp, puller>>
    BY <1>1 DEF DistReceive
  <2>2. queue \in Seq(Message) /\ Unhandled = queue BY <2>1, UnhandledForm
  <2>3. <<Head(queue)>> \o Tail(queue) = queue BY <2>1, <2>2, HeadAndTail
  <2>4. Unhandled' = <<Head(queue)>> \o Tail(queue) BY <2>1 DEF Unhandled
  <2>5. Ends(Unhandled)' = Ends(Unhandled) BY <2>2, <2>3, <2>4
  <2>6. Handler' = Handler BY <2>1 DEF Handler
  <2>7. BoardSame BY <2>1, <2>5, <2>6 DEF BoardSame, OfModel, Running
  <2> QED BY <2>7, SameIsStutter
<1>2. ASSUME NEW s \in Sessions, DistSend(s) PROVE UNCHANGED Board!boardVars
  <2>1. dist \in DistRecord BY TypeForm
  <2>2. dist'.at = dist.at /\ dist'.msg = dist.msg BY <1>2, <2>1 DEF DistSend, DistRecord
  <2>3. UNCHANGED <<pipelines, mp, puller, queue>> BY <1>2 DEF DistSend
  <2>4. UNCHANGED <<Unhandled, Handler>> BY <2>2, <2>3 DEF Unhandled, Handler
  <2>5. BoardSame BY <2>3, <2>4 DEF BoardSame, OfModel, Running
  <2> QED BY <2>5, SameIsStutter
<1>3. CASE DistUnlock
  <2>1. dist.at = "send" /\ UNCHANGED <<pipelines, mp, puller, queue>> BY <1>3 DEF DistUnlock
  <2>2. /\ dist \in DistRecord
        /\ Unhandled = <<dist.msg>> \o queue /\ dist.msg \in Message /\ queue \in Seq(Message)
    BY <2>1, UnhandledForm, TypeForm
  <2>3. dist'.at # "send" BY <1>3, <2>2 DEF DistUnlock, Receiving, DistRecord
  <2>4. Unhandled' = queue
    <3>1. <<>> \o queue = queue BY <2>2, ConcatEmptySeq
    <3> QED BY <2>1, <2>3, <3>1 DEF Unhandled
  <2>5. Ends(queue) \in Seq(Message) /\ Ends(Unhandled) = WithEnd(<<>>, dist.msg) \o Ends(queue)
    BY <2>2, EndsPrepend
  <2>6. Ends(Unhandled)' = Ends(queue) BY <2>4
  <2>7. CASE dist.msg.status \notin Terminal
    <3>1. <<>> \o Ends(queue) = Ends(queue) BY <2>5, ConcatEmptySeq
    <3>2. Ends(Unhandled)' = Ends(Unhandled) BY <2>5, <2>6, <2>7, <3>1 DEF WithEnd
    <3>3. dist' = Receiving BY <1>3, <2>7 DEF DistUnlock
    <3>4. Handler' = Handler BY <2>1, <3>3 DEF Handler, Receiving
    <3>5. BoardSame BY <2>1, <3>2, <3>4 DEF BoardSame, OfModel, Running
    <3> QED BY <3>5, SameIsStutter
  <2>8. CASE dist.msg.status \in Terminal
    <3>1. dist'.at = "hook" /\ dist'.msg = dist.msg BY <1>3, <2>2, <2>8 DEF DistUnlock, DistRecord
    <3>2. Ends(Unhandled) = <<dist.msg>> \o Ends(queue) BY <2>5, <2>8 DEF WithEnd
    <3>3. /\ Ends(Unhandled) # <<>>
          /\ Head(Ends(Unhandled)) = dist.msg
          /\ Tail(Ends(Unhandled)) = Ends(queue)
      BY <2>2, <2>5, <3>2, HeadAndTail
    <3>4. Handler = Board!Waiting
      BY <2>1 DEF Handler, Board!Waiting, Board!NoOutcome, NoMessage
    <3>5. Handler' = [at |-> "hook", msg |-> dist.msg] BY <3>1 DEF Handler
    <3>6. UNCHANGED <<pipelines, OfModel, Running>> BY <2>1 DEF OfModel, Running
    <3>7. Board!Take BY <2>6, <3>3, <3>4, <3>5, <3>6
      DEF Board!Take, OfModel, Running, Unhandled, Handler
    <3> QED BY <3>7 DEF Board!BoardNext
  <2> QED BY <2>7, <2>8
<1>4. CASE DistHook
  <2>1. /\ dist.at = "hook" /\ dist' = [dist EXCEPT !.at = "close"]
        /\ UNCHANGED <<pipelines, mp, puller, queue>> /\ dist \in DistRecord
    BY <1>4, TypeForm DEF DistHook
  <2>2. dist'.at = "close" /\ dist'.msg = dist.msg BY <2>1 DEF DistRecord
  <2>3. Unhandled' = Unhandled BY <2>1, <2>2 DEF Unhandled
  <2>4. Handler.at = "hook" /\ Handler' = [Handler EXCEPT !.at = "close"]
    BY <2>1, <2>2 DEF Handler
  <2>5. UNCHANGED <<pipelines, OfModel, Running, Ends(Unhandled)>> BY <2>1, <2>3 DEF OfModel, Running
  <2>6. Board!Hook BY <2>4, <2>5 DEF Board!Hook, OfModel, Running, Unhandled, Handler
  <2> QED BY <2>6 DEF Board!BoardNext
<1>5. CASE DistClose
  <2>1. dist.at = "close" /\ CloseModelPipeline(dist.msg.model) /\ dist' = Receiving
        /\ UNCHANGED <<puller, queue>>
    BY <1>5 DEF DistClose
  <2>2. dist.msg \in Message /\ dist.msg.model \in Models
    BY <2>1 DEF Bookkeeping, DistInv, Message
  <2>3. pipelines' = [pipelines EXCEPT ![dist.msg.model] = None] /\ OfModel' = OfModel
    BY <2>1, <2>2, ClosedBoard
  <2>4. Unhandled' = Unhandled BY <2>1 DEF Unhandled, Receiving
  <2>5. Handler.at = "close" /\ Handler.msg = dist.msg BY <2>1 DEF Handler
  <2>6. Handler' = Board!Waiting
    BY <2>1 DEF Handler, Receiving, Board!Waiting, Board!NoOutcome, NoMessage
  <2>7. UNCHANGED <<OfModel, Running, Ends(Unhandled)>> BY <2>1, <2>3, <2>4 DEF Running
  <2>8. Board!Close BY <2>3, <2>5, <2>6, <2>7 DEF Board!Close, OfModel, Running, Unhandled, Handler
  <2> QED BY <2>8 DEF Board!BoardNext
<1> QED BY <1>1, <1>2, <1>3, <1>4, <1>5 DEF Distributor

LEMMA BoardStep == TypeOK /\ Bookkeeping /\ [Next]_vars => [Board!BoardNext]_(Board!boardVars)
<1> SUFFICES ASSUME TypeOK, Bookkeeping, [Next]_vars
             PROVE  Board!BoardNext \/ UNCHANGED Board!boardVars
  OBVIOUS
<1>1. ASSUME NEW m \in Models, StopPull(m) PROVE Board!BoardNext
  <2>1. CloseModelPipeline(m) /\ UNCHANGED <<puller, queue, dist>> BY <1>1 DEF StopPull
  <2>2. pipelines' = [pipelines EXCEPT ![m] = None] /\ OfModel' = OfModel BY <2>1, ClosedBoard
  <2>3. UNCHANGED <<Running, Ends(Unhandled), Handler>> BY <2>1, SameOutcomes DEF Running
  <2>4. Board!Stop(m) BY <2>2, <2>3 DEF Board!Stop, OfModel, Running, Unhandled, Handler
  <2> QED BY <2>4 DEF Board!BoardNext
<1>2. CASE UNCHANGED vars
  <2>1. UNCHANGED <<pipelines, mp, puller, queue, dist>> BY <1>2 DEF vars
  <2>2. BoardSame BY <2>1, SameOutcomes DEF BoardSame, OfModel, Running
  <2> QED BY <2>2, SameIsStutter
<1> QED BY <1>1, <1>2, CallerBoard, DownloadBoard, DistributorBoard DEF Next

LEMMA BoardStart == Init => Board!BoardInit
<1> SUFFICES ASSUME Init PROVE Board!BoardInit OBVIOUS
<1>1. <<>> \o <<>> = <<>> BY ConcatEmptySeq, EmptySeq
<1>2. Unhandled = <<>> BY <1>1 DEF Init, Unhandled, Receiving
<1>3. Ends(<<>>) = <<>>
  <2>1. Len(<<>>) = 0 BY EmptySeq
  <2> QED BY <2>1, EndsFrom
<1>4. OfModel = [p \in Pulls |-> None] /\ Running = {} BY DEF Init, OfModel, Running, NoPull
<1>5. Handler = Board!Waiting
  BY DEF Init, Handler, Receiving, Board!Waiting, Board!NoOutcome, NoMessage
<1>6. pipelines = [m \in Models |-> None] BY DEF Init
<1> QED BY <1>2, <1>3, <1>4, <1>5, <1>6 DEF Board!BoardInit, OfModel, Running, Unhandled, Handler

\* The executor implements the board: however callers, downloads, the queue and the
\* distributor interleave, each step is one of the board's or none.
THEOREM BoardImplemented == Spec => ImplementsBoard
<1>1. Init => Board!BoardInit BY BoardStart
<1>2. TypeOK /\ Bookkeeping /\ [Next]_vars => [Board!BoardNext]_(Board!boardVars) BY BoardStep
<1> QED BY <1>1, <1>2, BookkeepingHolds, PTL DEF Spec, ImplementsBoard, Board!BoardSpec
=============================================================================
