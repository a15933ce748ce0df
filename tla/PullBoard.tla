----------------------------- MODULE PullBoard -----------------------------
(***************************************************************************)
(* What the executor of local model downloads promises to the module that  *)
(* keeps the models' records, without its pipelines and messages: which    *)
(* download is registered for a model, how downloads end, and that each    *)
(* end is handled, one at a time and in order, by the callback of the      *)
(* download registered by then, which is afterwards unregistered.          *)
(* PullExecutor implements it; LocalModel is built on it.                  *)
(***************************************************************************)
EXTENDS Naturals, Sequences

CONSTANTS Models, Pulls, None

VARIABLES
  registered,  \* the download registered for each model
  ofModel,     \* the model of each download that was ever registered
  running,     \* the downloads in progress
  outcomes,    \* how downloads ended, not handled yet
  handler      \* the end being handled

boardVars == <<registered, ofModel, running, outcomes, handler>>

Outcome == [model : Models, status : {"success", "error"}, pull : Pulls]
NoOutcome == [model |-> None, status |-> "none", pull |-> None]
Waiting == [at |-> "wait", msg |-> NoOutcome]

BoardInit ==
  /\ registered = [m \in Models |-> None]
  /\ ofModel = [p \in Pulls |-> None]
  /\ running = {}
  /\ outcomes = <<>>
  /\ handler = Waiting

\* A new download takes the model's place, whatever was there.
Register(m, p) ==
  /\ ofModel[p] = None
  /\ ofModel' = [ofModel EXCEPT ![p] = m]
  /\ registered' = [registered EXCEPT ![m] = p]
  /\ UNCHANGED <<running, outcomes, handler>>

Start(p) ==
  /\ ofModel[p] # None
  /\ running' = running \cup {p}
  /\ UNCHANGED <<registered, ofModel, outcomes, handler>>

Finish(p, status) ==
  /\ p \in running
  /\ running' = running \ {p}
  /\ outcomes' = Append(outcomes, [model |-> ofModel[p], status |-> status, pull |-> p])
  /\ UNCHANGED <<registered, ofModel, handler>>

Vanish(p) ==
  /\ p \in running
  /\ running' = running \ {p}
  /\ UNCHANGED <<registered, ofModel, outcomes, handler>>

Stop(m) ==
  /\ registered' = [registered EXCEPT ![m] = None]
  /\ UNCHANGED <<ofModel, running, outcomes, handler>>

Take ==
  /\ handler = Waiting
  /\ outcomes # <<>>
  /\ handler' = [at |-> "hook", msg |-> Head(outcomes)]
  /\ outcomes' = Tail(outcomes)
  /\ UNCHANGED <<registered, ofModel, running>>

Hook ==
  /\ handler.at = "hook"
  /\ handler' = [handler EXCEPT !.at = "close"]
  /\ UNCHANGED <<registered, ofModel, running, outcomes>>

Close ==
  /\ handler.at = "close"
  /\ registered' = [registered EXCEPT ![handler.msg.model] = None]
  /\ handler' = Waiting
  /\ UNCHANGED <<ofModel, running, outcomes>>

BoardNext ==
  \/ \E m \in Models : Stop(m) \/ \E p \in Pulls : Register(m, p)
  \/ \E p \in Pulls : Start(p) \/ Vanish(p) \/ \E st \in {"success", "error"} : Finish(p, st)
  \/ Take \/ Hook \/ Close

BoardSpec == BoardInit /\ [][BoardNext]_boardVars
=============================================================================
