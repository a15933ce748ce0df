------------------------------ MODULE Strategy ------------------------------
(***************************************************************************)
(* The data-masking strategies of the whole system: their rows, which      *)
(* users edit, stop, delete and restore, the versions that were published, *)
(* and what the gateway applies.  The list compares a row with the version *)
(* published last by the second of their last change.  A deletion is       *)
(* published like any other change, and takes the row with it.             *)
(***************************************************************************)
EXTENDS Naturals, FiniteSets

CONSTANTS
  Strategies,
  Contents,   \* what a strategy says
  Requests,   \* requests that can be in progress at once
  MaxSeconds, \* bound on the clock
  None

VARIABLES
  row,      \* each strategy's row
  latest,   \* the row that was published last: the latest commit
  gateway,  \* what the gateway applies
  now,      \* the time in seconds, as the versions have it
  rq,       \* requests in progress, with what they have read
  used,     \* history: the seconds at which each strategy was changed
  hazy      \* history: strategies about which nothing is promised, see StatusHonest

vars == <<row, latest, gateway, now, rq, used, hazy>>

-----------------------------------------------------------------------------
NoRow == [content |-> None, at |-> 0, stop |-> FALSE, deleted |-> FALSE]

Idle == [step |-> "idle", id |-> None, data |-> NoRow, list |-> [s \in Strategies |-> NoRow]]

\* ToStrategy, ToRelease: a stopped strategy is released as a deleted one.
Served(v) == IF v.stop \/ v.deleted THEN None ELSE v.content

\* StrategyStatus: what the list says of a row that there is.
Status(s) ==
  IF latest[s] = NoRow THEN "offline"
  ELSE IF row[s].deleted THEN "delete"
  ELSE IF row[s].at # latest[s].at THEN "update" ELSE "online"

\* The strategies a publish has read, and those it has to delete.
Listed(r)  == {s \in Strategies : rq[r].list[s] # NoRow}
Flagged(r) == {s \in Listed(r) : rq[r].list[s].deleted}

\* A row of the latest commits is locked from its writing to the end of the transaction.
Locked == UNION {Listed(r) : r \in {q \in Requests : rq[q].step \in {"online", "end"}}}

Begin(step, s, data, list) ==
  \E r \in Requests :
    /\ rq[r] = Idle
    /\ rq' = [rq EXCEPT ![r] = [step |-> step, id |-> s, data |-> data, list |-> list]]

Done(r) == rq' = [rq EXCEPT ![r] = Idle]

Without(S) == [s \in Strategies |-> IF s \in S THEN NoRow ELSE row[s]]

-----------------------------------------------------------------------------
\* Time passes.
Tick ==
  /\ now < MaxSeconds
  /\ now' = now + 1
  /\ UNCHANGED <<row, latest, gateway, rq, used, hazy>>

\* Create: an id is used once.
Create(s, c) ==
  /\ row[s] = NoRow
  /\ \A t \in 0..MaxSeconds : <<s, t>> \notin used
  /\ row' = [row EXCEPT ![s] = [content |-> c, at |-> now, stop |-> FALSE, deleted |-> FALSE]]
  /\ used' = used \cup {<<s, now>>}
  /\ UNCHANGED <<latest, gateway, now, rq, hazy>>

\* Mutant: stopping a strategy does not count as a change.
Changed_Unnoticed(v, c, stop) == [v EXCEPT !.content = c, !.stop = stop,
                                           !.at = IF stop = v.stop THEN now ELSE v.at]

\* updateHandler.
Changed(v, c, stop) == [v EXCEPT !.content = c, !.stop = stop, !.at = now]

\* Edit, Enable, Disable: the whole row is read, changed ...
SaveRead(s) ==
  /\ row[s] # NoRow
  /\ \/ \E c \in Contents : Begin("save", s, Changed(row[s], c, row[s].stop), Idle.list)
     \/ \E stop \in BOOLEAN : Begin("save", s, Changed(row[s], row[s].content, stop), Idle.list)
  /\ used' = used \cup {<<s, now>>}
  /\ hazy' = IF <<s, now>> \in used THEN hazy \cup {s} ELSE hazy
  /\ UNCHANGED <<row, latest, gateway, now>>

\* ... and saved, whatever happened to it meanwhile.
SaveWrite(r) ==
  /\ rq[r].step = "save"
  /\ row' = [row EXCEPT ![rq[r].id] = rq[r].data]
  /\ Done(r)
  /\ UNCHANGED <<latest, gateway, now, used, hazy>>

\* Delete: a strategy that was never published is deleted, another one is flagged.
DeleteRead(s) ==
  /\ Begin(IF latest[s] = NoRow THEN "delete" ELSE "flag", s, NoRow, Idle.list)
  /\ UNCHANGED <<row, latest, gateway, now, used, hazy>>

DeleteWrite(r) ==
  LET s == rq[r].id
  IN /\ \/ /\ rq[r].step = "delete"
           /\ row' = [row EXCEPT ![s] = NoRow]
           /\ hazy' = IF latest[s] = NoRow THEN hazy ELSE hazy \cup {s}
        \/ /\ rq[r].step = "flag"
           /\ row' = IF row[s] = NoRow THEN row ELSE [row EXCEPT ![s].deleted = TRUE]
           /\ UNCHANGED hazy
     /\ Done(r)
     /\ UNCHANGED <<latest, gateway, now, used>>

Restore(s) ==
  /\ row[s].deleted
  /\ row' = [row EXCEPT ![s].deleted = FALSE]
  /\ UNCHANGED <<latest, gateway, now, rq, used, hazy>>

-----------------------------------------------------------------------------
(* Publish.                                                                *)

\* The rows are read before the transaction begins.
PublishRead ==
  /\ Begin("purge", None, NoRow, row)
  /\ UNCHANGED <<row, latest, gateway, now, used, hazy>>

\* The rows that are flagged are deleted, outside the transaction.
PublishPurge(r) ==
  /\ rq[r].step = "purge"
  /\ row' = Without(Flagged(r))
  /\ rq' = [rq EXCEPT ![r].step = "commit"]
  /\ UNCHANGED <<latest, gateway, now, used, hazy>>

\* CommitStrategy: the rows read become the latest commits, when the transaction ends.
PublishCommits(r) ==
  /\ rq[r].step = "commit"
  /\ Listed(r) \cap Locked = {}
  /\ rq' = [rq EXCEPT ![r].step = "online"]
  /\ UNCHANGED <<row, latest, gateway, now, used, hazy>>

Applied(r) == [s \in Strategies |-> IF s \in Listed(r) THEN Served(rq[r].list[s]) ELSE gateway[s]]

\* Online: the gateway takes all of it or nothing.
PublishOnline(r) ==
  /\ rq[r].step = "online"
  /\ gateway' = Applied(r)
  /\ rq' = [rq EXCEPT ![r].step = "end"]
  /\ UNCHANGED <<row, latest, now, used, hazy>>

PublishEnd(r) ==
  /\ rq[r].step = "end"
  /\ latest' = [s \in Strategies |-> IF s \in Listed(r) THEN rq[r].list[s] ELSE latest[s]]
  /\ hazy' = hazy \cup {s \in Listed(r) \ Flagged(r) : row[s] = NoRow}
  /\ Done(r)
  /\ UNCHANGED <<row, gateway, now, used>>

-----------------------------------------------------------------------------
\* A request fails, or the server stops: the transaction is rolled back, but the
\* rows that were deleted are gone, and the gateway keeps what it has taken.
GoWrong(r) ==
  /\ rq[r] # Idle
  /\ \/ /\ rq[r].step \in {"save", "delete", "flag"}
        /\ UNCHANGED <<row, hazy>>
     \/ /\ rq[r].step = "purge"
        /\ \E gone \in SUBSET Flagged(r) : row' = Without(gone) /\ hazy' = hazy \cup gone
     \/ /\ rq[r].step \in {"commit", "online"}
        /\ hazy' = hazy \cup Flagged(r)
        /\ UNCHANGED row
     \/ /\ rq[r].step = "end"
        /\ hazy' = hazy \cup Listed(r)
        /\ UNCHANGED row
  /\ Done(r)
  /\ UNCHANGED <<latest, gateway, now, used>>

\* initGateway, when the cluster's address is set: the latest commits are applied to
\* the gateway, the one there was or an empty one, or that fails.
ResetGateway(kept) ==
  LET before == IF kept THEN gateway ELSE [s \in Strategies |-> None]
  IN /\ \/ /\ gateway' = [s \in Strategies |-> IF latest[s] = NoRow THEN before[s] ELSE Served(latest[s])]
           /\ row' = Without({s \in Strategies : latest[s].deleted})
           /\ hazy' = hazy \cup Locked
        \/ /\ gateway' = before
           /\ row' = row
           /\ hazy' = Strategies
     /\ UNCHANGED <<latest, now, rq, used>>

-----------------------------------------------------------------------------
Init ==
  /\ row = [s \in Strategies |-> NoRow]
  /\ latest = [s \in Strategies |-> NoRow]
  /\ gateway = [s \in Strategies |-> None]
  /\ now = 0
  /\ rq = [r \in Requests |-> Idle]
  /\ used = {}
  /\ hazy = {}

Next ==
  \/ Tick
  \/ \E s \in Strategies : \/ \E c \in Contents : Create(s, c)
                           \/ SaveRead(s) \/ DeleteRead(s) \/ Restore(s)
  \/ PublishRead
  \/ \E r \in Requests : \/ SaveWrite(r) \/ DeleteWrite(r)
                         \/ PublishPurge(r) \/ PublishCommits(r) \/ PublishOnline(r) \/ PublishEnd(r)
                         \/ GoWrong(r)
  \/ \E kept \in BOOLEAN : ResetGateway(kept)

Spec == Init /\ [][Next]_vars

-----------------------------------------------------------------------------
(* Properties.                                                             *)

Publishing == UNION {Listed(r) : r \in {q \in Requests : rq[q].step \in {"commit", "online", "end"}}}

\* The list does not lie about what the gateway does to calls: a strategy it shows
\* as online is applied as its row says, one it shows as offline or does not show is
\* not applied, and the gateway is at what was published last.  Excepted, besides
\* strategies that are being published, are those that were changed twice in a second,
\* which were to be deleted by a publish that failed, or published by one that failed
\* after the gateway took it, which were deleted for good while they were published,
\* or whose gateway was reset unsuccessfully or while they were published: the code
\* does get these wrong.
StatusHonest ==
  \A s \in Strategies \ (hazy \cup Publishing) :
    /\ gateway[s] = Served(latest[s])
    /\ row[s] = NoRow => gateway[s] = None
    /\ row[s] # NoRow /\ Status(s) = "offline" => gateway[s] = None
    /\ row[s] # NoRow /\ Status(s) = "online" => gateway[s] = Served(row[s])
=============================================================================
