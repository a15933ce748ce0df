----------------------------- MODULE TokenCount -----------------------------
(***************************************************************************)
(* The process that counts the tokens of calls (app/ai-event-handler): it   *)
(* receives a message of the gateway for each call and adds its tokens to   *)
(* the key that answered it and to the route, in different transactions.    *)
(*                                                                         *)
(* NSQ delivers a message again when the process has not acknowledged it:   *)
(* its handler answered an error, or the process stopped.  One message is   *)
(* handled at a time.  The pages of the server save the row of a key as a   *)
(* whole, with the count they have read.                                    *)
(*                                                                         *)
(* A call has one token; all calls are of one route and one minute.         *)
(***************************************************************************)
EXTENDS Naturals, FiniteSets

CONSTANTS
  None,
  Messages,
  Keys,
  KeyOf,        \* the key that answered a message's call
  MaxAttempts   \* deliveries after which a message is given up

VARIABLES
  used,      \* column use_token of each key, None for a key without a row
  total,     \* column total_token of the route
  message,   \* whether a message is in the queue, and how often it was delivered
  handler,   \* the message in progress
  edit,      \* a page's save of a key: what it has read
  passed,    \* history: messages that are acknowledged without a count of the key, of the route
  torn       \* history: keys of which a page has undone a count, or a deletion

vars == <<used, total, message, handler, edit, passed, torn>>

-----------------------------------------------------------------------------
Idle   == [at |-> "idle", of |-> None, used |-> None]
NoEdit == [key |-> None, used |-> None]

Acknowledged == {m \in Messages : ~ message[m].queued /\ m # handler.of}

Stored == {k \in Keys : used[k] # None}

\* The transaction of a message holds the row of its key.
Locked(k) == handler.at \in {"route", "commit"} /\ KeyOf[handler.of] = k

Goes(step) == handler' = [handler EXCEPT !.at = step]

\* A message is acknowledged, some time, without having been counted here.
Pass(m, where) == passed' = [w \in DOMAIN passed |-> passed[w] \cup (IF w \in where THEN {m} ELSE {})]

\* A message goes back to the queue.
Requeue(m) ==
  /\ handler' = Idle
  /\ message' = [message EXCEPT ![m].queued = TRUE]
  /\ passed' = [w \in DOMAIN passed |-> passed[w] \ {m}]

\* Mutant: the error of a commit is answered like all others.
Refused_Logged(m) == Goes("acknowledge") /\ UNCHANGED <<message, passed>>

\* What becomes of a message whose commit is refused: its error is NSQ's client's.
Refused(m) == Requeue(m)

-----------------------------------------------------------------------------
\* A message is delivered, and leaves the queue unless it comes back; NSQ's client gives it
\* up after too many attempts.
Receive(m) ==
  /\ handler = Idle /\ message[m].queued
  /\ message' = [message EXCEPT ![m] = [queued |-> FALSE, attempts |-> @.attempts + 1]]
  /\ IF message[m].attempts < MaxAttempts
       THEN /\ handler' = [Idle EXCEPT !.at = "key", !.of = m]
            /\ UNCHANGED passed
       ELSE Pass(m, {"key", "route"}) /\ UNCHANGED handler
  /\ UNCHANGED <<used, total, edit, torn>>

\* The transaction: the states of keys are saved, IncrUseToken adds to the last one.  Any
\* error ends it, such as that a key has no row, and the message is acknowledged.
CountKey ==
  LET m == handler.of
      k == KeyOf[m]
  IN /\ handler.at = "key"
     /\ \/ /\ k \in Stored
           /\ handler' = [handler EXCEPT !.at = "route", !.used = used[k] + 1]
           /\ UNCHANGED passed
        \/ Goes("acknowledge") /\ Pass(m, {"key", "route"})
     /\ UNCHANGED <<used, total, message, edit, torn>>

\* Incr, outside the transaction; when it fails the transaction is committed all the same.
CountRoute ==
  /\ handler.at = "route"
  /\ Goes("commit")
  /\ \/ total' = total + 1 /\ UNCHANGED passed
     \/ Pass(handler.of, {"route"}) /\ UNCHANGED total
  /\ UNCHANGED <<used, message, edit, torn>>

Commit ==
  /\ handler.at = "commit"
  /\ used' = [used EXCEPT ![KeyOf[handler.of]] = handler.used]
  /\ Goes("acknowledge")
  /\ UNCHANGED <<total, message, edit, passed, torn>>

\* The commit is refused; or the process stops, and NSQ waits in vain for an answer.
Fail ==
  /\ handler.at = "commit"
  /\ Refused(handler.of)
  /\ UNCHANGED <<used, total, edit, torn>>

Crash ==
  /\ handler # Idle
  /\ Requeue(handler.of)
  /\ UNCHANGED <<used, total, edit, torn>>

Acknowledge ==
  /\ handler.at = "acknowledge"
  /\ handler' = Idle
  /\ UNCHANGED <<used, total, message, edit, passed, torn>>

-----------------------------------------------------------------------------
\* Edit, UpdateKeyStatus and the sorts of keys: a row is read, and saved as a whole; one
\* deleted in between is inserted again.
EditRead(k) ==
  /\ edit = NoEdit /\ k \in Stored
  /\ edit' = [key |-> k, used |-> used[k]]
  /\ UNCHANGED <<used, total, message, handler, passed, torn>>

EditWrite ==
  /\ edit # NoEdit
  /\ LET k == edit.key
     IN /\ ~ Locked(k)
        /\ used' = [used EXCEPT ![k] = edit.used]
        /\ torn' = IF used' = used THEN torn ELSE torn \cup {k}
  /\ edit' = NoEdit
  /\ UNCHANGED <<total, message, handler, passed>>

Delete(k) ==
  /\ k \in Stored /\ ~ Locked(k)
  /\ used' = [used EXCEPT ![k] = None]
  /\ UNCHANGED <<total, message, handler, edit, passed, torn>>

-----------------------------------------------------------------------------
Init ==
  /\ used = [k \in Keys |-> 0]
  /\ total = 0
  /\ message = [m \in Messages |-> [queued |-> TRUE, attempts |-> 0]]
  /\ handler = Idle
  /\ edit = NoEdit
  /\ passed = [where \in {"key", "route"} |-> {}]
  /\ torn = {}

\* Bound: there are no more calls than Messages.
Over == Acknowledged = Messages /\ UNCHANGED vars

Next ==
  \/ \E m \in Messages : Receive(m)
  \/ CountKey \/ CountRoute \/ Commit \/ Fail \/ Crash \/ Acknowledge
  \/ \E k \in Keys : EditRead(k) \/ Delete(k)
  \/ EditWrite
  \/ Over

Spec == Init /\ [][Next]_vars

-----------------------------------------------------------------------------
\* Every delivery of these messages.
Deliveries(M) == UNION {{m} \X (1 .. message[m].attempts) : m \in M}

\* A call whose message is acknowledged is counted at least once for its key and for its
\* route, whatever fails and stops in between, and never more often than its message was
\* delivered: without a failure exactly once.  Not counted are the messages that were
\* given up, those of keys without a row, and, for the route, those whose Incr failed; and
\* a page may undo the counts of a key.
CallsCounted ==
  /\ \A k \in Stored \ torn :
       LET calls == {m \in Messages : KeyOf[m] = k}
       IN used[k] \in Cardinality(calls \cap (Acknowledged \ passed.key))
                        .. Cardinality(Deliveries(calls))
  /\ total \in Cardinality(Acknowledged \ passed.route) .. Cardinality(Deliveries(Messages))

=============================================================================
