---------------------------- MODULE DeployDialog ----------------------------
(***************************************************************************)
(* The console's dialog about the deployment of a local model, and the     *)
(* stream it follows.  The code is openLogsModal of LocalModelList and     *)
(* SystemList, ServiceDeployment with its footer, and the stream reader of *)
(* useFetch.  The server is what LocalModel and PullExecutor say of one    *)
(* model: a download that goes through its phases, a message for each that *)
(* a pipeline may be too full to take, and a callback after the last one.  *)
(*                                                                         *)
(* A message is a line of text, which chunks may cut anywhere: it is made  *)
(* of its head, its tail and the end of the line.                          *)
(***************************************************************************)
EXTENDS Naturals, Sequences, SequencesExt, FiniteSetsExt

CONSTANT MaxLines  \* bound: lines of one stream

VARIABLES
  row,      \* the state of the model in the table
  task,     \* the download: its phase, or how it ended until its callback has run
  reached,  \* history: the furthest phase of a download since the dialog opened
  stream,   \* the request the dialog follows the download with
  wire,     \* what of it has been sent and not been read
  buffer,   \* what the reader holds of a line that is not complete
  sent,     \* history: the lines of the stream
  handled,  \* history: the lines that were handed to the dialog
  dialog,   \* the dialog and the confirmation on top of it
  record,   \* the state in the list's row, which the dialog shares
  shown,    \* the step the dialog is at, and how each step is shown
  silent    \* history: the stream was refused, stopped, or will not say how it ends

server == <<row, task, reached>>
reader == <<stream, wire, buffer, sent, handled, silent>>
screen == <<dialog, record, shown>>
vars == <<server, reader, screen>>

-----------------------------------------------------------------------------
Phases == <<"download", "deploy", "initializing">>
Phase  == {Phases[n] : n \in 1 .. 3}
States == Phase \cup {"finish", "error", "refused"}
EndOfLine == <<"\n", "end">>

Characters(state) == <<<<state, "head">>, <<state, "tail">>, EndOfLine>>

\* The i-th character of lines, one after the other, is one of the three of a line.
Text(lines) == [i \in 1 .. 3 * Len(lines) |-> Characters(lines[(i + 2) \div 3])[((i + 2) % 3) + 1]]

NoDialog == [at |-> "none", timer |-> FALSE, confirm |-> "none"]

Pending == [step |-> 1, mark |-> <<"pending", "pending", "pending">>]

-----------------------------------------------------------------------------
(* The server.                                                             *)

\* A message goes to the dialog's pipeline, which drops it when it is full.
Send(state) ==
  \/ /\ stream = "open"
     /\ Len(sent) < MaxLines
     /\ wire' = wire \o Characters(state)
     /\ sent' = Append(sent, state)
     /\ UNCHANGED <<stream, buffer, handled, silent>>
  \/ /\ silent' = (silent \/ (stream = "open" /\ state \in {"finish", "error"}))
     /\ UNCHANGED <<stream, wire, buffer, sent, handled>>

Progress(n) ==
  /\ task \in {Phases[i] : i \in 1 .. n}
  /\ task' = Phases[n]
  /\ reached' = Max({reached, n})
  /\ Send(Phases[n])
  /\ UNCHANGED <<row, screen>>

Ends(state) ==
  /\ task \in Phase
  /\ state = "finish" => task = "initializing"
  /\ task' = state
  /\ Send(state)
  /\ UNCHANGED <<row, reached, screen>>

\* The callback comes after the last message, and closes the pipelines.
Hook ==
  /\ task \in {"finish", "error"}
  /\ task' = "none"
  /\ row' = IF row = "none" THEN row ELSE IF task = "finish" THEN "normal" ELSE "deploying_error"
  /\ stream' = IF stream = "open" THEN "ended" ELSE stream
  /\ UNCHANGED <<reached, wire, buffer, sent, handled, screen, silent>>

\* Deploy: a download that is going on is joined.
Deploys ==
  /\ row' = IF row \in {"none", "deploying_error"} THEN "deploying" ELSE row
  /\ task' = IF task = "none" THEN "download" ELSE task
  /\ UNCHANGED reached

\* CancelDeploy deletes the model whatever its state is, and closes the pipelines.
Cancels ==
  /\ row # "none"
  /\ row' = "none"
  /\ task' = "none"
  /\ stream' = IF stream = "open" THEN "ended" ELSE stream
  /\ silent' = (silent \/ stream = "open")
  /\ UNCHANGED <<reached, wire, buffer, sent, handled>>

\* Another user.
Elsewhere ==
  /\ (Deploys /\ UNCHANGED reader) \/ Cancels
  /\ UNCHANGED screen

-----------------------------------------------------------------------------
(* What the dialog does with a line.                                       *)

Marked(n, mark) ==
  [step |-> n, mark |-> [i \in 1 .. 3 |-> IF i < n THEN "completed" ELSE IF i = n THEN mark ELSE "pending"]]

\* The step of a state: the first whose name is a part of it.
StepOf(state) ==
  IF state \in Phase THEN CHOOSE n \in 1 .. 3 : Phases[n] = state ELSE 5

\* handleStream.  A refusal has no state and shows nothing.
Show(d, state) ==
  IF state = "error"
    THEN [d EXCEPT !.shown = [step |-> @.step,
                              mark |-> [i \in 1 .. 3 |-> IF i = @.step THEN "error" ELSE @.mark[i]]],
                   !.record = "error"]
    ELSE IF state = "refused" THEN d
    ELSE [d EXCEPT !.shown = Marked(StepOf(state), "inProgress"), !.timer = @ \/ state = "finish"]

\* What it is after all the lines.
ShowAll(lines) ==
  LET after[n \in 0 .. Len(lines)] ==
        IF n = 0 THEN [shown |-> shown, record |-> record, timer |-> dialog.timer]
        ELSE Show(after[n - 1], lines[n])
  IN after[Len(lines)]

Handle(lines) ==
  LET d == ShowAll(lines)
  IN /\ handled' = handled \o lines
     /\ shown' = d.shown
     /\ record' = d.record
     /\ dialog' = [dialog EXCEPT !.timer = d.timer]

\* The lines that are complete in a text, by the states they carry.
Lines(text) ==
  [n \in 1 .. Cardinality({i \in DOMAIN text : text[i] = EndOfLine}) |->
     LET end == CHOOSE i \in DOMAIN text :
                  text[i] = EndOfLine /\ Cardinality({j \in 1 .. i : text[j] = EndOfLine}) = n
     IN text[end - 1][1]]

\* Mutant: what follows the last complete line is dropped.
Rest_Dropped(text) == <<>>

\* What follows the last complete line.
Rest(text) ==
  LET end == {i \in DOMAIN text : text[i] = EndOfLine}
  IN IF end = {} THEN text ELSE SubSeq(text, Max(end) + 1, Len(text))

-----------------------------------------------------------------------------
(* The stream.                                                             *)

\* The request is answered: the download's messages follow, or a refusal.  A
\* download whose callback is still to run is joined too, and says no more.
Accept ==
  /\ stream = "asked"
  /\ Deploys
  /\ stream' = "open"
  /\ silent' = (task \in {"finish", "error"})
  /\ UNCHANGED <<wire, buffer, sent, handled, screen>>

Refuse ==
  /\ stream = "asked"
  /\ stream' = "ended"
  /\ wire' = Front(Characters("refused"))
  /\ sent' = <<"refused">>
  /\ silent' = TRUE
  /\ UNCHANGED <<server, buffer, handled, screen>>

\* A chunk arrives.
Read(n) ==
  /\ n \in 1 .. Len(wire)
  /\ wire' = SubSeq(wire, n + 1, Len(wire))
  /\ LET text == buffer \o SubSeq(wire, 1, n)
     IN Handle(Lines(text)) /\ buffer' = Rest(text)
  /\ UNCHANGED <<server, stream, sent, silent>>

\* The end: what is left is a line too.
ReadEnd ==
  /\ stream = "ended"
  /\ wire = <<>>
  /\ stream' = "none"
  /\ Handle(IF buffer = <<>> THEN <<>> ELSE <<buffer[1][1]>>)
  /\ buffer' = <<>>
  /\ UNCHANGED <<server, wire, sent, silent>>

Drop ==
  /\ stream' = "none"
  /\ wire' = <<>>
  /\ buffer' = <<>>
  /\ sent' = <<>>
  /\ handled' = <<>>
  /\ silent' = FALSE

\* Anything may cut the connection: the reader throws, and nobody catches it.
Break ==
  /\ stream # "none"
  /\ stream' = "none"
  /\ wire' = <<>>
  /\ silent' = TRUE
  /\ UNCHANGED <<server, buffer, sent, handled, screen>>

-----------------------------------------------------------------------------
(* The dialog.                                                             *)

\* The list is loaded.
Load ==
  /\ dialog.at # "open"
  /\ record' = row
  /\ UNCHANGED <<server, reader, dialog, shown>>

\* A model being deployed is deployed (joined, if it still is) and followed.
OpenDeploying ==
  /\ dialog = NoDialog
  /\ record = "deploying"
  /\ dialog' = [NoDialog EXCEPT !.at = "open"]
  /\ shown' = Pending
  /\ stream' = "asked"
  /\ reached' = IF task \in Phase THEN StepOf(task) ELSE 1
  /\ UNCHANGED <<row, task, wire, buffer, sent, handled, record, silent>>

\* Of one that failed the state is read: the server knows no other failure than
\* that of the download.
OpenFailed ==
  /\ dialog = NoDialog
  /\ record = "deploying_error"
  /\ dialog' = [NoDialog EXCEPT !.at = "open"]
  /\ shown' \in {Pending, Marked(1, "error"), Marked(1, "inProgress")}
  /\ UNCHANGED <<server, reader, record>>

\* modalInstance.destroy(): the dialog is still there until it has faded.
Destroy == dialog' = [dialog EXCEPT !.at = IF @ = "open" THEN "closing" ELSE @, !.timer = FALSE]

\* closeModal, half a second after the last step.
CloseItself ==
  /\ dialog.timer
  /\ Destroy
  /\ record' = row
  /\ UNCHANGED <<server, reader, shown>>

\* The cross, or "keep waiting", which loads the list.
Close(reload) ==
  /\ dialog.at = "open"
  /\ dialog' = [dialog EXCEPT !.at = "closing"]
  /\ record' = IF reload THEN row ELSE record
  /\ UNCHANGED <<server, reader, shown>>

\* Mutant: the request is not cancelled with the dialog.
AfterClose_KeepsStream ==
  /\ dialog.at = "closing"
  /\ dialog' = [dialog EXCEPT !.at = "none"]
  /\ shown' = Pending
  /\ UNCHANGED <<server, reader, record>>

\* afterClose cancels the request.
AfterClose ==
  /\ dialog.at = "closing"
  /\ dialog' = [dialog EXCEPT !.at = "none"]
  /\ shown' = Pending
  /\ Drop
  /\ UNCHANGED <<server, record>>

\* The footer offers to stop what is being deployed, to delete what failed.
Ask ==
  /\ dialog.at = "open"
  /\ dialog.confirm = "none"
  /\ dialog' = [dialog EXCEPT !.confirm = IF record \in {"deploying_error", "error"} THEN "delete" ELSE "stop"]
  /\ UNCHANGED <<server, reader, record, shown>>

\* The confirmation stays when the dialog closes itself.
Confirm ==
  /\ dialog.confirm # "none"
  /\ \/ dialog.confirm = "stop" /\ Cancels
     \/ /\ dialog.confirm = "delete" /\ row # "deploying"
        /\ row' = "none"
        /\ task' = "none"
        /\ stream' = IF stream = "open" THEN "ended" ELSE stream
        /\ silent' = (silent \/ stream = "open")
        /\ UNCHANGED <<reached, wire, buffer, sent, handled>>
  /\ dialog' = [dialog EXCEPT !.confirm = "none", !.at = IF @ = "open" THEN "closing" ELSE @]
  /\ record' = row'
  /\ UNCHANGED shown

\* An error leaves it where it was, as does its cancel button closing it.
Withdraw ==
  /\ dialog.confirm # "none"
  /\ dialog' = [dialog EXCEPT !.confirm = "none"]
  /\ UNCHANGED <<server, reader, record, shown>>

-----------------------------------------------------------------------------
Init ==
  /\ row \in {"none", "deploying"}
  /\ task = "none" /\ reached = 1
  /\ stream = "none" /\ wire = <<>> /\ buffer = <<>> /\ sent = <<>> /\ handled = <<>>
  /\ dialog = NoDialog /\ record = "none" /\ shown = Pending
  /\ silent = FALSE

Next ==
  \/ \E n \in 1 .. 3 : Progress(n)
  \/ \E state \in {"finish", "error"} : Ends(state)
  \/ Hook \/ Elsewhere
  \/ Accept \/ Refuse \/ (\E n \in DOMAIN wire : Read(n)) \/ ReadEnd \/ Break
  \/ Load \/ OpenDeploying \/ OpenFailed \/ CloseItself \/ AfterClose
  \/ (\E reload \in BOOLEAN : Close(reload))
  \/ Ask \/ Confirm \/ Withdraw

Spec == Init /\ [][Next]_vars

-----------------------------------------------------------------------------
(* Properties.                                                             *)

\* However the text is cut into chunks, the dialog is handed the lines that were
\* sent, whole, once and in order.
LinesInOrder ==
  stream \in {"open", "ended"} => Text(handled) \o buffer \o wire \in
    {Text(sent), SubSeq(Text(sent), 1, Len(Text(sent)) - 1)}

\* The dialog never shows a step that no download has got to while it is open,
\* though it joins late, misses messages and reads others long after they were sent.
NeverAhead ==
  dialog.at = "open" /\ record = "deploying" /\ shown.step \in 1 .. 3 => shown.step <= reached

\* A request that follows a download is cancelled with its dialog.
StreamHasDialog == stream # "none" => dialog.at # "none"

\* A dialog that shows a deployment in progress has something to wait for, unless
\* its stream said nothing of its end.
WaitsForSomething ==
  dialog.at = "open" /\ record = "deploying" /\ stream = "none" => dialog.timer \/ silent

\* The dialog follows one deployment from when it opens until it is closed.
FollowsDeployment == NeverAhead /\ StreamHasDialog /\ WaitsForSomething
=============================================================================
