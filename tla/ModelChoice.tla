----------------------------- MODULE ModelChoice -----------------------------
(***************************************************************************)
(* Choosing a model in the console: for a route of an AI service            *)
(* (aiService/api/AiServiceInsideRouterCreate.tsx, with the dialog          *)
(* AiServiceInsideRouterModelConfig.tsx), and for the list the gateway      *)
(* falls back to (loadBalancing/AddModel.tsx).                              *)
(*                                                                         *)
(* A dialog has a kind of model, a provider, the list of the provider's     *)
(* models, one of these, and its parameters.  All but the kind come with    *)
(* answers of the server, which may overtake each other and be lost.        *)
(***************************************************************************)
EXTENDS Naturals, SequencesExt

CONSTANTS
  None,
  Providers,  \* of online models
  Local,      \* stands for the local models, as one more provider
  Models,
  Owner,      \* the provider of a model
  Balancing,  \* whether the page is that of the fallback list
  MaxAsked    \* bound: requests without an answer

VARIABLES
  llm,      \* the model the page has, or was last sent, or None
  dialog,   \* the dialog, or None
  asked,    \* requests without an answer, of the page and of the dialog, in their order
  strayed   \* history: what is known to be wrong of the page, and of the dialog

vars == <<llm, dialog, asked, strayed>>

-----------------------------------------------------------------------------
ModelsOf(o) == {m \in Models : Owner[m] = o}

\* The first of a list, and the model a provider proposes.
FirstOf(S) == IF S = {} THEN None ELSE CHOOSE x \in S : TRUE
Default(o) == FirstOf(ModelsOf(o))

\* Whose models a choice is about.
Chosen(f) == IF f.type = "local" THEN Local ELSE f.provider

Ask(what, owner, pick) == [what |-> what, owner |-> owner, pick |-> pick, late |-> FALSE]

\* The models of a provider: ai/provider/llms or simple/ai/models/local/configured.
AskModels(owner, pick) == Ask("models", owner, pick)
AskProviders(pick)     == Ask("providers", None, pick)

Room(n) == Len(asked.page) + Len(asked.dialog) + n <= MaxAsked

Send(q) == Room(1) /\ asked' = [asked EXCEPT !.dialog = Append(@, q)]

Waits(to) == asked[to] # <<>>

\* Without the i-th request.  Those that were sent before it are late from now on.
Without(Q, i) ==
  LET marked == [j \in DOMAIN Q |-> [Q[j] EXCEPT !.late = @ \/ j < i]]
  IN RemoveAt(marked, i)

\* A list of providers that is only shown can come at any time.
Overtaken(q) == q.late /\ ~ (q.what = "providers" /\ ~ q.pick)

-----------------------------------------------------------------------------
(* The page.                                                               *)

\* getDefaultModelConfig with replaceDefaultLlm, for a new route.
Replaced(o) ==
  LET m == Default(o) IN
  [type |-> IF o = Local THEN "local" ELSE "online",
   provider |-> IF o = Local THEN None ELSE o, id |-> m, config |-> m, name |-> m]

\* ... and without, which finds the name the model is called by.
Renamed(o) == [llm EXCEPT !.name = IF llm.id \in ModelsOf(o) THEN llm.id ELSE None]

PageAnswer(i) ==
  LET q == asked.page[i] IN
  /\ llm' = IF q.pick THEN Replaced(q.owner) ELSE Renamed(q.owner)
  /\ asked' = [asked EXCEPT !.page = Without(@, i)]
  /\ strayed' = [strayed EXCEPT !.page = @ \/ Overtaken(q)]
  /\ UNCHANGED dialog

-----------------------------------------------------------------------------
(* The dialog.                                                             *)

Dialog(type, provider, id, config) ==
  [type |-> type, provider |-> provider, id |-> id, config |-> config,
   list |-> None, providers |-> FALSE]

\* The page has nothing to show in the dialog before it has a model.
OpenForRoute ==
  /\ ~ Balancing /\ dialog = None /\ llm # None
  /\ Room(2)
  /\ dialog' = Dialog(llm.type, llm.provider, llm.id, llm.config)
  /\ asked' = [asked EXCEPT !.dialog =
                 IF llm.type = "online" THEN <<AskProviders(FALSE), AskModels(llm.provider, FALSE)>>
                 ELSE <<AskModels(Local, FALSE)>>]
  /\ strayed' = [strayed EXCEPT !.dialog = strayed.page]
  /\ UNCHANGED llm

OpenForBalance ==
  /\ Balancing /\ dialog = None
  /\ dialog' = Dialog("online", None, None, None)
  /\ Send(AskProviders(TRUE))
  /\ strayed' = [strayed EXCEPT !.dialog = FALSE]
  /\ UNCHANGED llm

\* modelTypeChange.
ChangeType(type) ==
  /\ dialog # None /\ dialog.type # type
  /\ dialog' = Dialog(type, None, None, None)
  /\ Send(IF type = "online" THEN AskProviders(TRUE) ELSE AskModels(Local, TRUE))
  /\ UNCHANGED <<llm, strayed>>

\* The model that was chosen stays until the answer.
ChooseProvider(p) ==
  /\ dialog # None /\ dialog.type = "online" /\ dialog.providers /\ dialog.provider # p
  /\ dialog' = [dialog EXCEPT !.provider = p]
  /\ Send(AskModels(p, TRUE))
  /\ UNCHANGED <<llm, strayed>>

\* Mutant: the parameters stay those of the model that was chosen before.
With_KeepsConfig(d, m) == [d EXCEPT !.id = m]

\* A model comes with its parameters.
With(d, m) == [d EXCEPT !.id = m, !.config = m]

ChooseModel(m) ==
  /\ dialog # None /\ m \in ModelsOf(dialog.list) \ {dialog.id}
  /\ dialog' = With(dialog, m)
  /\ UNCHANGED <<llm, asked, strayed>>

\* The first provider is chosen, also when the kind has been changed meanwhile.
ProvidersAnswer(i) ==
  LET q     == asked.dialog[i]
      picks == q.pick /\ Providers # {}
  IN /\ q.what = "providers"
     /\ dialog' = [dialog EXCEPT !.providers = TRUE,
                                 !.provider = IF picks THEN FirstOf(Providers) ELSE @]
     /\ asked' = [asked EXCEPT !.dialog =
                    IF picks THEN Append(Without(@, i), AskModels(FirstOf(Providers), TRUE))
                    ELSE Without(@, i)]
     /\ strayed' = [strayed EXCEPT !.dialog = \/ @ \/ Overtaken(q)
                                              \/ q.pick /\ dialog.type = "local"]
     /\ UNCHANGED llm

\* Without models to choose from, the dialog of a route keeps the one it had.
ModelsAnswer(i) ==
  LET q    == asked.dialog[i]
      here == [dialog EXCEPT !.list = q.owner]
      open == Balancing /\ q.owner # Local
  IN /\ q.what = "models"
     /\ dialog' = IF q.pick /\ (open \/ ModelsOf(q.owner) # {})
                    THEN With(here, Default(q.owner)) ELSE here
     /\ asked' = [asked EXCEPT !.dialog = Without(@, i)]
     /\ strayed' = [strayed EXCEPT !.dialog = @ \/ Overtaken(q)]
     /\ UNCHANGED llm

\* The dialog is destroyed: what it waits for is nobody's.
Closed(page) == dialog' = None /\ asked' = [page |-> page, dialog |-> <<>>]

Cancel ==
  /\ dialog # None
  /\ Closed(asked.page)
  /\ UNCHANGED <<llm, strayed>>

\* What is known of a choice that is submitted: it came too early, or fits nothing.
Doubtful == strayed.dialog \/ Waits("dialog") \/ ModelsOf(Chosen(dialog)) = {}

Complete == dialog # None /\ dialog.id # None /\ Chosen(dialog) # None

\* handlerSubmit: the name is asked for, and until then it is that of the model before.
SubmitRoute ==
  /\ ~ Balancing /\ Complete
  /\ llm' = [llm EXCEPT !.type = dialog.type, !.provider = dialog.provider,
                        !.id = dialog.id, !.config = dialog.config]
  /\ strayed' = [strayed EXCEPT !.page = Doubtful]
  /\ Closed(Append(asked.page, AskModels(Chosen(dialog), FALSE)))

\* The server finds the parameters and the name.
SubmitBalance ==
  /\ Balancing /\ Complete
  /\ llm' = [type |-> dialog.type, provider |-> dialog.provider, id |-> dialog.id,
             config |-> dialog.id, name |-> dialog.id]
  /\ strayed' = [strayed EXCEPT !.page = Doubtful]
  /\ Closed(asked.page)

\* An answer is lost, or is an error.
Lose(to, i) ==
  /\ asked' = [asked EXCEPT ![to] = RemoveAt(@, i)]
  /\ strayed' = [strayed EXCEPT ![to] = TRUE]
  /\ UNCHANGED <<llm, dialog>>

-----------------------------------------------------------------------------
\* What the page starts with: for a new route, a route that has been stored, and the
\* fallback list.
Starts ==
  IF Balancing THEN {[llm |-> None, asked |-> <<>>]}
  ELSE {[llm |-> None, asked |-> <<AskModels(o, TRUE)>>] : o \in Providers \cup {Local}}
         \cup {[llm |-> [Replaced(Owner[m]) EXCEPT !.id = m, !.config = m, !.name = m],
                asked |-> <<AskModels(Owner[m], FALSE)>>] : m \in Models}

Certain == [page |-> FALSE, dialog |-> FALSE]

Init ==
  /\ \E s \in Starts : llm = s.llm /\ asked = [page |-> s.asked, dialog |-> <<>>]
  /\ dialog = None
  /\ strayed = Certain

\* The page is left and opened again.
Leave ==
  /\ \E s \in Starts : llm' = s.llm /\ Closed(s.asked)
  /\ strayed' = Certain

Next ==
  \/ OpenForRoute \/ OpenForBalance \/ Cancel \/ SubmitRoute \/ SubmitBalance \/ Leave
  \/ \E type \in {"online", "local"} : ChangeType(type)
  \/ \E p \in Providers : ChooseProvider(p)
  \/ \E m \in Models : ChooseModel(m)
  \/ \E i \in DOMAIN asked.page : PageAnswer(i) \/ Lose("page", i)
  \/ \E i \in DOMAIN asked.dialog : ProvidersAnswer(i) \/ ModelsAnswer(i) \/ Lose("dialog", i)

Spec == Init /\ [][Next]_vars

-----------------------------------------------------------------------------
\* The model is the provider's, and comes with its own parameters.
Fits(f) ==
  \/ ModelsOf(Chosen(f)) = {}
  \/ /\ f.id \in ModelsOf(Chosen(f))
     /\ Balancing \/ f.config = f.id

\* What is chosen belongs together once every answer is there, if none was lost or overtaken
\* and the kind was not changed before the providers came: the dialog has a model of its
\* provider, with its parameters, and offers the models of that provider, if it has one; and
\* the page, when its dialog was submitted like this, has in addition the name the gateway
\* calls the model by, which the route is saved with.
ChoiceFits ==
  /\ dialog # None /\ ~ Waits("dialog") /\ ~ strayed.dialog =>
       Fits(dialog) /\ (Chosen(dialog) # None => dialog.list = Chosen(dialog))
  /\ llm # None /\ ~ Waits("page") /\ ~ strayed.page => Fits(llm) /\ llm.name = llm.id
=============================================================================
