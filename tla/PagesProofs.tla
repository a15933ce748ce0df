------------------------------ MODULE PagesProofs ------------------------------
(***************************************************************************)
(* The modules about pages of the console of which something is proved, for *)
(* all values of their constants.  MCConsole instantiates this module, and  *)
(* takes the pages from it.                                                 *)
(***************************************************************************)
EXTENDS Naturals, FiniteSets, Sequences, FiniteSetTheorems, SequenceTheorems,
        WellFoundedInduction, TLAPS

CONSTANTS
  None,
  Urls, Clients,                                   \* MCP inspector
  Users, Teams, Requests,                          \* rights
  Cats, Waiting, Calm,                             \* categories
  Providers, Local, Models, Owner, Balancing, MaxAsked,  \* models
  Services, Parent, Tags, Words, MaxTyped,         \* market
  Remotes, Statics, Patterns, Items, RuleContents, MaxRules, MaxReads,  \* strategy
  MaxLines                                         \* deployment

VARIABLES
  url, status, mcpClient, conn, listing, tools, failed, overlapped,  \* McpConnection
  user, page, system, team, flushed, menu, carried,                  \* TeamAccess
  rows, astray, gData, cateData, back, loading, excused,             \* CataloguePage
  llm,                                                               \* ModelChoice
  option, typed, touched, late,                                      \* Market
  stored, filters, rules, ready, open, form, kept, settled,          \* PolicyEditor
  row, task, reached, stream, wire, buffer, sent, handled, record, silent,  \* DeployDialog
  rq,       \* TeamAccess, CataloguePage
  asked,    \* ModelChoice, Market, PolicyEditor
  dialog,   \* CataloguePage, ModelChoice, PolicyEditor, DeployDialog
  shown,    \* Market, DeployDialog
  strayed   \* TeamAccess, ModelChoice

Mcp    == INSTANCE McpConnection
Access == INSTANCE TeamAccess
Drag   == INSTANCE CataloguePage WITH Requests <- Waiting
Choice == INSTANCE ModelChoice
Browse == INSTANCE Market
Editor == INSTANCE PolicyEditor
Deploy == INSTANCE DeployDialog

-----------------------------------------------------------------------------
(* MCP connections of the inspector.                                       *)

At   == {"idle", "connecting", "open", "orphaned"}
Conn == [at : At, url : Urls \cup {None}]

McpTypes ==
  /\ url \in Urls \cup {None}
  /\ status \in {"disconnected", "connected", "error"}
  /\ mcpClient \in Clients \cup {None}
  /\ conn \in [Clients -> Conn]
  /\ listing \in SUBSET Clients
  /\ failed \in BOOLEAN
  /\ overlapped \in BOOLEAN

\* While no page connected twice: a client that is connecting is the only one, and
\* for the page that is open; an open one is the page's, and for its server.
Alone ==
  /\ \A c \in Clients : conn[c].at # "orphaned"
  /\ \A c, d \in Mcp!Connecting : c = d
  /\ \A c \in Mcp!Connecting \cup Mcp!Open : conn[c].url = url
  /\ listing \subseteq Mcp!Open

\* A page holds a client only as long as it is connected, and connects with none.
Held ==
  /\ status # "connected" => mcpClient = None /\ Mcp!Open = {}
  /\ status = "connected" => Mcp!Connecting = {} /\ Mcp!Open \subseteq {mcpClient}

\* The tools a connected page got are its server's.
Fresh == status = "connected" /\ listing = {} /\ ~ failed => tools = url

McpInv == McpTypes /\ (~ overlapped => Alone /\ Held /\ Fresh)

-----------------------------------------------------------------------------
LEMMA McpInitStep == Mcp!Init => McpInv
<1> SUFFICES ASSUME Mcp!Init PROVE McpInv OBVIOUS
<1>1. McpTypes BY DEF Mcp!Init, McpTypes, Conn, At, Mcp!Idle
<1>2. Mcp!Connecting = {} /\ Mcp!Open = {} BY DEF Mcp!Init, Mcp!Connecting, Mcp!Open, Mcp!Idle
<1>3. \A c \in Clients : conn[c].at # "orphaned" BY DEF Mcp!Init, Mcp!Idle
<1> QED BY <1>1, <1>2, <1>3 DEF McpInv, Alone, Held, Fresh, Mcp!Init

\* Closing a client.
LEMMA ClosedForm ==
  ASSUME McpTypes, NEW c \in Clients
  PROVE  /\ Mcp!Closed(c) \in [Clients -> Conn]
         /\ Mcp!Closed(c)[c].at = "idle"
         /\ \A d \in Clients \ {c} : Mcp!Closed(c)[d] = conn[d]
BY DEF McpTypes, Mcp!Closed, Mcp!Idle, Conn, At

LEMMA ConnectStep ==
  ASSUME McpInv, None \notin Clients, NEW u \in Urls, Mcp!Connect(u)
  PROVE  McpInv'
<1> DEFINE new == [at |-> "connecting", url |-> u]
<1>1. PICK c \in Clients :
        /\ conn[c] = Mcp!Idle /\ url' = u /\ tools' = tools
        /\ overlapped' = (overlapped \/ Mcp!Connecting # {})
        /\ IF status = "connected"
             THEN Mcp!Disconnected /\ conn' = [Mcp!WithoutHeld EXCEPT ![c] = new]
             ELSE /\ conn' = [conn EXCEPT ![c] = new]
                  /\ UNCHANGED <<status, mcpClient, listing, failed>>
  BY DEF Mcp!Connect
<1>2. McpTypes /\ new \in Conn BY DEF McpInv, Conn, At
<1>3. new.at = "connecting" /\ new.url = u OBVIOUS
<1> HIDE DEF new
<1>4. CASE status = "connected"
  <2>1. /\ mcpClient' = None /\ status' = "disconnected" /\ listing' = listing \ {mcpClient}
        /\ failed' = (failed \/ mcpClient \in listing)
        /\ conn' = [Mcp!WithoutHeld EXCEPT ![c] = new]
    BY <1>1, <1>4 DEF Mcp!Disconnected
  <2>2. /\ Mcp!WithoutHeld \in [Clients -> Conn]
        /\ \A d \in Clients : IF d = mcpClient THEN Mcp!WithoutHeld[d].at = "idle"
                                               ELSE Mcp!WithoutHeld[d] = conn[d]
    BY <1>2, ClosedForm DEF Mcp!WithoutHeld, McpTypes
  <2>3. /\ conn' \in [Clients -> Conn] /\ conn'[c] = new
        /\ \A d \in Clients \ {c} : conn'[d] = Mcp!WithoutHeld[d]
    BY <1>2, <2>1, <2>2
  <2>4. McpTypes' BY <1>1, <1>2, <2>1, <2>3 DEF McpTypes
  <2>5. ASSUME ~ overlapped' PROVE (Alone /\ Held /\ Fresh)'
    <3>1. ~ overlapped /\ Mcp!Connecting = {} /\ Alone /\ Held
      BY <1>1, <1>2, <2>5 DEF McpInv, McpTypes
    <3>2. \A d \in Clients : conn[d].at # "connecting" /\ conn[d].at # "orphaned"
      BY <3>1 DEF Mcp!Connecting, Alone
    <3>3. \A d \in Clients : conn[d].at = "open" => d = mcpClient
      BY <1>4, <3>1 DEF Held, Mcp!Open
    <3>4. \A d \in Clients \ {c} : conn'[d].at = "idle"
      <4> TAKE d \in Clients \ {c}
      <4>1. CASE d = mcpClient BY <2>2, <2>3, <4>1
      <4>2. CASE d # mcpClient
        <5>1. conn'[d] = conn[d] BY <2>2, <2>3, <4>2
        <5>2. conn[d].at \in At BY <1>2 DEF McpTypes, Conn
        <5> QED BY <5>1, <5>2, <3>2, <3>3, <4>2 DEF At
      <4> QED BY <4>1, <4>2
    <3>5. Mcp!Connecting' = {c} /\ Mcp!Open' = {}
      BY <1>3, <2>3, <3>4 DEF Mcp!Connecting, Mcp!Open
    <3>6. listing' = {} BY <2>1, <3>1, <1>4 DEF Alone, Held
    <3>7. conn'[c].url = url' BY <1>1, <1>3, <2>3
    <3>8. Alone' BY <1>3, <2>3, <3>4, <3>5, <3>6, <3>7 DEF Alone
    <3> QED BY <2>1, <3>5, <3>8 DEF Held, Fresh
  <2> QED BY <2>4, <2>5 DEF McpInv
<1>5. CASE status # "connected"
  <2>1. conn' = [conn EXCEPT ![c] = new] /\ UNCHANGED <<status, mcpClient, listing, failed>>
    BY <1>1, <1>5
  <2>2. /\ conn' \in [Clients -> Conn] /\ conn'[c] = new
        /\ \A d \in Clients \ {c} : conn'[d] = conn[d]
    BY <1>2, <2>1 DEF McpTypes
  <2>3. McpTypes' BY <1>1, <1>2, <2>1, <2>2 DEF McpTypes
  <2>4. ASSUME ~ overlapped' PROVE (Alone /\ Held /\ Fresh)'
    <3>1. ~ overlapped /\ Mcp!Connecting = {} /\ Alone /\ Held
      BY <1>1, <1>2, <2>4 DEF McpInv, McpTypes
    <3>2. Mcp!Open = {} /\ mcpClient = None BY <1>5, <3>1 DEF Held
    <3>3. Mcp!Connecting' = {c} /\ Mcp!Open' = {}
      BY <1>3, <2>2, <3>1, <3>2 DEF Mcp!Connecting, Mcp!Open
    <3>4. Alone'
      BY <1>1, <1>3, <2>1, <2>2, <3>1, <3>2, <3>3 DEF Alone
    <3> QED BY <1>5, <2>1, <3>2, <3>3, <3>4 DEF Held, Fresh
  <2> QED BY <2>3, <2>4 DEF McpInv
<1> QED BY <1>4, <1>5

LEMMA ConnectedStep ==
  ASSUME McpInv, NEW c \in Clients, Mcp!Connected(c)
  PROVE  McpInv'
<1>1. /\ conn[c].at = "connecting" /\ conn' = [conn EXCEPT ![c].at = "open"]
      /\ mcpClient' = c /\ status' = "connected" /\ UNCHANGED <<url, tools, overlapped>>
      /\ IF status # "connected"
           THEN listing' = listing \cup {c} /\ failed' = FALSE
           ELSE UNCHANGED listing /\ failed' = TRUE
  BY DEF Mcp!Connected
<1>2. McpTypes BY DEF McpInv
<1>3. /\ conn' \in [Clients -> Conn] /\ conn'[c].at = "open" /\ conn'[c].url = conn[c].url
      /\ \A d \in Clients \ {c} : conn'[d] = conn[d]
  BY <1>1, <1>2 DEF McpTypes, Conn, At
<1>4. McpTypes' BY <1>1, <1>2, <1>3 DEF McpTypes
<1>5. ASSUME ~ overlapped' PROVE (Alone /\ Held /\ Fresh)'
  <2>1. Alone /\ Held /\ c \in Mcp!Connecting BY <1>1, <1>5 DEF McpInv, Mcp!Connecting
  <2>2. status # "connected" /\ Mcp!Open = {} /\ listing = {} BY <2>1 DEF Held, Alone
  <2>3. Mcp!Connecting' = {} BY <1>3, <2>1 DEF Alone, Mcp!Connecting
  <2>4. Mcp!Open' = {c} BY <1>3, <2>2 DEF Mcp!Open
  <2>5. listing' = {c} BY <1>1, <2>2
  <2>6. Alone' BY <1>1, <1>3, <2>1, <2>3, <2>4, <2>5 DEF Alone
  <2> QED BY <1>1, <2>3, <2>4, <2>5, <2>6 DEF Held, Fresh
<1> QED BY <1>4, <1>5 DEF McpInv

LEMMA ConnectedForNobodyStep ==
  ASSUME McpInv, NEW c \in Clients, Mcp!ConnectedForNobody(c)
  PROVE  McpInv'
<1>1. /\ conn[c].at = "orphaned" /\ conn' = [conn EXCEPT ![c].at = "open"]
      /\ UNCHANGED <<url, status, mcpClient, listing, tools, failed, overlapped>>
  BY DEF Mcp!ConnectedForNobody
<1>2. overlapped BY <1>1 DEF McpInv, Alone, McpTypes
<1>3. McpTypes' BY <1>1 DEF McpInv, McpTypes, Conn, At
<1> QED BY <1>1, <1>2, <1>3 DEF McpInv

\* A client that is closed leaves those that are open or connecting as they were.
LEMMA Fewer ==
  ASSUME McpTypes, NEW c \in Clients, conn' = Mcp!Closed(c)
  PROVE  /\ conn' \in [Clients -> Conn]
         /\ Mcp!Connecting' = Mcp!Connecting \ {c} /\ Mcp!Open' = Mcp!Open \ {c}
         /\ \A d \in (Mcp!Connecting \cup Mcp!Open) \ {c} : conn'[d] = conn[d]
         /\ \A d \in Clients : conn'[d].at = "orphaned" => conn[d].at = "orphaned"
BY ClosedForm DEF Mcp!Connecting, Mcp!Open

LEMMA McpFailsStep ==
  ASSUME McpInv, NEW c \in Clients, NEW unauthorized \in BOOLEAN, Mcp!Fails(c, unauthorized)
  PROVE  McpInv'
<1>1. /\ conn[c].at \in {"connecting", "orphaned"} /\ conn' = Mcp!Closed(c)
      /\ status' = IF unauthorized \/ conn[c].at = "orphaned" THEN status ELSE "error"
      /\ UNCHANGED <<url, mcpClient, listing, tools, failed, overlapped>>
  BY DEF Mcp!Fails
<1>2. McpTypes BY DEF McpInv
<1>3. /\ conn' \in [Clients -> Conn]
      /\ Mcp!Connecting' = Mcp!Connecting \ {c} /\ Mcp!Open' = Mcp!Open \ {c}
      /\ \A d \in (Mcp!Connecting \cup Mcp!Open) \ {c} : conn'[d] = conn[d]
      /\ \A d \in Clients : conn'[d].at = "orphaned" => conn[d].at = "orphaned"
  BY <1>1, <1>2, Fewer
<1>4. McpTypes' BY <1>1, <1>2, <1>3 DEF McpTypes
<1>5. ASSUME ~ overlapped' PROVE (Alone /\ Held /\ Fresh)'
  <2>1. Alone /\ Held BY <1>1, <1>5 DEF McpInv
  <2>2. c \in Mcp!Connecting BY <1>1, <2>1 DEF Alone, Mcp!Connecting
  <2>3. status # "connected" /\ status' # "connected" /\ Mcp!Open = {} /\ mcpClient = None
    BY <1>1, <2>1, <2>2 DEF Held
  <2>4. Alone' BY <1>1, <1>3, <2>1, <2>3 DEF Alone
  <2> QED BY <1>1, <1>3, <2>3, <2>4 DEF Held, Fresh
<1> QED BY <1>4, <1>5 DEF McpInv

LEMMA DiesStep ==
  ASSUME McpInv, NEW c \in Clients, Mcp!Dies(c)
  PROVE  McpInv'
<1>1. /\ conn[c].at = "open" /\ conn' = Mcp!Closed(c)
      /\ listing' = listing \ {c} /\ failed' = (failed \/ c \in listing)
      /\ UNCHANGED <<url, status, mcpClient, tools, overlapped>>
  BY DEF Mcp!Dies
<1>2. McpTypes BY DEF McpInv
<1>3. /\ conn' \in [Clients -> Conn]
      /\ Mcp!Connecting' = Mcp!Connecting \ {c} /\ Mcp!Open' = Mcp!Open \ {c}
      /\ \A d \in (Mcp!Connecting \cup Mcp!Open) \ {c} : conn'[d] = conn[d]
      /\ \A d \in Clients : conn'[d].at = "orphaned" => conn[d].at = "orphaned"
  BY <1>1, <1>2, Fewer
<1>4. McpTypes' BY <1>1, <1>2, <1>3 DEF McpTypes
<1>5. ASSUME ~ overlapped' PROVE (Alone /\ Held /\ Fresh)'
  <2>1. Alone /\ Held /\ Fresh BY <1>1, <1>5 DEF McpInv
  <2>2. Alone' BY <1>1, <1>3, <2>1 DEF Alone
  <2>3. Held' BY <1>1, <1>3, <2>1 DEF Held
  <2>4. Fresh'
    <3>1. SUFFICES ASSUME status = "connected", listing \ {c} = {}, ~ failed, c \notin listing
                   PROVE  tools = url
      BY <1>1 DEF Fresh
    <3> QED BY <2>1, <3>1 DEF Fresh
  <2> QED BY <2>2, <2>3, <2>4
<1> QED BY <1>4, <1>5 DEF McpInv

LEMMA ListedStep ==
  ASSUME McpInv, NEW c \in Clients, Mcp!Listed(c)
  PROVE  McpInv'
<1>1. /\ c \in listing /\ listing' = listing \ {c} /\ tools' = conn[c].url
      /\ UNCHANGED <<url, status, mcpClient, conn, failed, overlapped>>
  BY DEF Mcp!Listed
<1>2. McpTypes' BY <1>1 DEF McpInv, McpTypes
<1>3. Mcp!Connecting' = Mcp!Connecting /\ Mcp!Open' = Mcp!Open BY <1>1 DEF Mcp!Connecting, Mcp!Open
<1>4. ASSUME ~ overlapped' PROVE (Alone /\ Held /\ Fresh)'
  <2>1. Alone /\ Held BY <1>1, <1>4 DEF McpInv
  <2>2. tools' = url BY <1>1, <2>1 DEF Alone
  <2>3. Alone' BY <1>1, <1>3, <2>1 DEF Alone
  <2> QED BY <1>1, <1>3, <2>1, <2>2, <2>3 DEF Held, Fresh
<1> QED BY <1>2, <1>4 DEF McpInv

LEMMA TimesOutStep ==
  ASSUME McpInv, NEW c \in Clients, Mcp!TimesOut(c)
  PROVE  McpInv'
<1>1. /\ listing' = listing \ {c} /\ failed' = TRUE
      /\ UNCHANGED <<url, status, mcpClient, conn, tools, overlapped>>
  BY DEF Mcp!TimesOut
<1>2. McpTypes' BY <1>1 DEF McpInv, McpTypes
<1>3. Mcp!Connecting' = Mcp!Connecting /\ Mcp!Open' = Mcp!Open BY <1>1 DEF Mcp!Connecting, Mcp!Open
<1>4. ASSUME ~ overlapped' PROVE (Alone /\ Held /\ Fresh)'
  <2>1. Alone /\ Held BY <1>1, <1>4 DEF McpInv
  <2>2. Alone' BY <1>1, <1>3, <2>1 DEF Alone
  <2> QED BY <1>1, <1>3, <2>1, <2>2 DEF Held, Fresh
<1> QED BY <1>2, <1>4 DEF McpInv

LEMMA McpLeaveStep ==
  ASSUME McpInv, Mcp!Leave
  PROVE  McpInv'
<1> DEFINE to(c) == IF c \in Mcp!Connecting THEN [conn[c] EXCEPT !.at = "orphaned"]
                    ELSE IF c = mcpClient THEN Mcp!Idle ELSE conn[c]
<1>1. /\ url' = None /\ status' = "disconnected" /\ mcpClient' = None
      /\ conn' = [c \in Clients |-> to(c)]
      /\ listing' = {} /\ tools' = None /\ failed' = FALSE
      /\ overlapped' = (overlapped \/ Mcp!Connecting # {})
  BY DEF Mcp!Leave
<1>2. \A c \in Clients : to(c) \in Conn BY DEF McpInv, McpTypes, Conn, At, Mcp!Idle
<1>3. McpTypes'
  <2> HIDE DEF to
  <2> QED BY <1>1, <1>2 DEF McpInv, McpTypes
<1>4. ASSUME ~ overlapped' PROVE (Alone /\ Held /\ Fresh)'
  <2>1. ~ overlapped /\ Mcp!Connecting = {} /\ Alone /\ Held
    BY <1>1, <1>4 DEF McpInv, McpTypes
  <2>2. \A c \in Clients : conn[c].at \in {"idle", "open"} /\ (conn[c].at = "open" => c = mcpClient)
    BY <2>1 DEF McpInv, McpTypes, Conn, At, Mcp!Connecting, Mcp!Open, Alone, Held
  <2>3. \A c \in Clients : to(c).at = "idle" BY <2>1, <2>2 DEF Mcp!Idle
  <2> HIDE DEF to
  <2>4. Mcp!Connecting' = {} /\ Mcp!Open' = {} /\ \A c \in Clients : conn'[c].at # "orphaned"
    BY <1>1, <2>3 DEF Mcp!Connecting, Mcp!Open
  <2>5. Alone' BY <1>1, <2>4 DEF Alone
  <2> QED BY <1>1, <2>4, <2>5 DEF Held, Fresh
<1> QED BY <1>3, <1>4 DEF McpInv

LEMMA McpReloadStep == Mcp!Reload => McpInv'
<1> SUFFICES ASSUME Mcp!Reload PROVE McpInv' OBVIOUS
<1>1. McpTypes' BY DEF Mcp!Reload, McpTypes, Conn, At, Mcp!Idle
<1>2. Mcp!Connecting' = {} /\ Mcp!Open' = {} /\ \A c \in Clients : conn'[c].at # "orphaned"
  BY DEF Mcp!Reload, Mcp!Connecting, Mcp!Open, Mcp!Idle
<1>3. Alone' BY <1>2 DEF Alone, Mcp!Reload
<1>4. Held' /\ Fresh' BY <1>2 DEF Held, Fresh, Mcp!Reload
<1> QED BY <1>1, <1>3, <1>4 DEF McpInv

LEMMA McpNextStep ==
  ASSUME McpInv, None \notin Clients, [Mcp!Next]_(Mcp!vars)
  PROVE  McpInv'
<1>1. CASE \E u \in Urls : Mcp!Connect(u) BY <1>1, ConnectStep
<1>2. CASE \E c \in Clients : Mcp!Connected(c) BY <1>2, ConnectedStep
<1>3. CASE \E c \in Clients : Mcp!ConnectedForNobody(c) BY <1>3, ConnectedForNobodyStep
<1>4. CASE \E c \in Clients, unauthorized \in BOOLEAN : Mcp!Fails(c, unauthorized)
  BY <1>4, McpFailsStep
<1>5. CASE \E c \in Clients : Mcp!Dies(c) BY <1>5, DiesStep
<1>6. CASE \E c \in Clients : Mcp!Listed(c) BY <1>6, ListedStep
<1>7. CASE \E c \in Clients : Mcp!TimesOut(c) BY <1>7, TimesOutStep
<1>8. CASE Mcp!Leave BY <1>8, McpLeaveStep
<1>9. CASE Mcp!Reload BY <1>9, McpReloadStep
<1>10. CASE UNCHANGED Mcp!vars
  <2>1. Mcp!Connecting' = Mcp!Connecting /\ Mcp!Open' = Mcp!Open
    BY <1>10 DEF Mcp!vars, Mcp!Connecting, Mcp!Open
  <2>2. McpTypes' /\ (Alone' <=> Alone) /\ (Held' <=> Held) /\ (Fresh' <=> Fresh)
    BY <1>10, <2>1 DEF Mcp!vars, McpInv, McpTypes, Alone, Held, Fresh
  <2>3. overlapped' = overlapped BY <1>10 DEF Mcp!vars
  <2> QED BY <2>2, <2>3 DEF McpInv
<1> QED BY <1>1, <1>2, <1>3, <1>4, <1>5, <1>6, <1>7, <1>8, <1>9, <1>10 DEF Mcp!Next

\* Whatever servers a user looks at, and whenever connections come, fail and break:
\* a page never holds more than one, and shows its own server's tools.
THEOREM OnlyOne ==
  ASSUME None \notin Clients
  PROVE  Mcp!Spec => []Mcp!OneConnection
<1>1. Mcp!Init => McpInv BY McpInitStep
<1>2. McpInv /\ [Mcp!Next]_(Mcp!vars) => McpInv' BY McpNextStep
<1>3. McpInv => Mcp!OneConnection
  <2> SUFFICES ASSUME McpInv, ~ overlapped PROVE Mcp!OneConnection BY DEF Mcp!OneConnection
  <2>1. Held /\ Fresh BY DEF McpInv
  <2>2. Mcp!Open \subseteq {mcpClient} BY <2>1 DEF Held
  <2> QED BY <2>1, <2>2 DEF Fresh, Mcp!OneConnection
<1> QED BY <1>1, <1>2, <1>3, PTL DEF Mcp!Spec

-----------------------------------------------------------------------------
(* Rights.                                                                 *)

\* Requests for rights in a team name one, and only what is on its way strays.
Asked ==
  /\ rq \in [Requests -> [kind : {"idle", "system", "team"},
                          user : Users \cup {None}, team : Teams \cup {None}]]
  /\ \A r \in Requests : /\ rq[r].kind = "idle" => rq[r] = Access!Idle
                         /\ rq[r].kind = "team" => rq[r].team # None
  /\ strayed \in SUBSET {"system", "team"}

\* Where no page is open, none is known to have rights.
Clean0 == page = None /\ "team" \notin strayed => team = Access!NoRights /\ flushed = FALSE

AccessInv ==
  /\ Asked
  /\ user \in Users \cup {None}
  /\ user = None => page = None
  /\ Clean0
  /\ Access!OwnRights

-----------------------------------------------------------------------------
LEMMA AccessInitStep == Access!Init => AccessInv
<1> SUFFICES ASSUME Access!Init PROVE AccessInv OBVIOUS
<1>1. Asked BY DEF Access!Init, Asked, Access!Idle
<1> QED BY <1>1 DEF Access!Init, AccessInv, Clean0, Access!OwnRights, Access!Own

LEMMA AskStep ==
  ASSUME Asked, NEW kind \in {"system", "team"}, NEW u \in Users \cup {None},
         NEW t \in Teams \cup {None}, kind = "team" => t # None,
         Access!Ask(kind, u, t), strayed' \in SUBSET {"system", "team"}
  PROVE  Asked'
BY DEF Access!Ask, Asked

LEMMA AnsweredStep ==
  ASSUME Asked, NEW r \in Requests, rq' = [rq EXCEPT ![r] = Access!Idle],
         strayed' \in SUBSET {"system", "team"}
  PROVE  Asked'
BY DEF Asked, Access!Idle

LEMMA LoginStep ==
  ASSUME AccessInv, NEW u \in Users, Access!Login(u)
  PROVE  AccessInv'
<1>1. /\ user = None /\ user' = u /\ Access!Ask("system", u, None)
      /\ UNCHANGED <<page, system, team, flushed, menu, strayed, carried>>
  BY DEF Access!Login
<1>2. Asked' BY <1>1, AskStep DEF AccessInv, Asked
<1>3. page = None BY <1>1 DEF AccessInv
<1> QED BY <1>1, <1>2, <1>3 DEF AccessInv, Clean0, Access!OwnRights

LEMMA GoStep ==
  ASSUME AccessInv, None \notin Teams, NEW t \in Teams \cup {None}, Access!Go(t)
  PROVE  AccessInv'
<1>1. /\ user # None /\ page' = t /\ UNCHANGED <<user, system>>
      /\ menu' = IF t = None THEN Access!NoMenu ELSE [system |-> system, team |-> team]
      /\ carried' = (t # None /\ (page # None \/ "team" \in strayed))
      /\ IF page = None THEN UNCHANGED <<team, flushed, strayed>> ELSE Access!Clean
      /\ IF t = None THEN UNCHANGED rq ELSE Access!Ask("team", user, t)
  BY DEF Access!Go
<1>2. strayed' \in SUBSET {"system", "team"} /\ ("system" \in strayed' <=> "system" \in strayed)
  BY <1>1 DEF AccessInv, Asked, Access!Clean
<1>3. Asked'
  <2>1. CASE t = None BY <1>1, <1>2, <2>1 DEF AccessInv, Asked
  <2>2. CASE t # None BY <1>1, <1>2, <2>2, AskStep DEF AccessInv
  <2> QED BY <2>1, <2>2
<1>4. CASE page = None
  <2>1. UNCHANGED <<team, flushed, strayed>> BY <1>1, <1>4
  <2>2. "team" \notin strayed => team = Access!NoRights /\ flushed = FALSE
    BY <1>4 DEF AccessInv, Clean0
  <2>3. Clean0' BY <2>1, <2>2 DEF Clean0
  <2>4. Access!OwnRights' BY <1>1, <1>2, <2>1, <2>2 DEF AccessInv, Access!OwnRights, Access!Own
  <2> QED BY <1>1, <1>3, <2>3, <2>4 DEF AccessInv
<1>5. CASE page # None
  <2>1. team' = Access!NoRights /\ flushed' = FALSE BY <1>1, <1>5 DEF Access!Clean
  <2>2. Access!OwnRights' BY <1>1, <1>2, <1>5, <2>1 DEF AccessInv, Access!OwnRights, Access!Own
  <2> QED BY <1>1, <1>3, <2>1, <2>2 DEF AccessInv, Clean0
<1> QED BY <1>4, <1>5

LEMMA AnswerStep ==
  ASSUME AccessInv, NEW r \in Requests, Access!Answer(r)
  PROVE  AccessInv'
<1> DEFINE q == rq[r]
           mine == q.user = user /\ (q.kind = "system" \/ q.team = page)
<1>1. /\ q # Access!Idle /\ rq' = [rq EXCEPT ![r] = Access!Idle]
      /\ IF q.kind = "system"
           THEN Access!Renew(q.user, team) /\ UNCHANGED flushed
           ELSE Access!Renew(system, [user |-> q.user, team |-> q.team]) /\ flushed' = TRUE
      /\ strayed' = IF mine THEN strayed \ {q.kind} ELSE strayed \cup {q.kind}
      /\ carried' = FALSE /\ UNCHANGED <<user, page>>
  BY DEF Access!Answer
<1>2. /\ strayed \in SUBSET {"system", "team"} /\ q.kind \in {"idle", "system", "team"}
      /\ q.kind = "idle" => q = Access!Idle
      /\ q.kind = "team" => q.team # None
  BY DEF AccessInv, Asked
<1>a. CASE q.kind = "system"
  <2>1. strayed' \in SUBSET {"system", "team"} /\ ("team" \in strayed' <=> "team" \in strayed)
    BY <1>1, <1>2, <1>a
  <2>2. Asked' BY <1>1, <2>1, AnsweredStep DEF AccessInv
  <2>3. "system" \notin strayed' => q.user = user BY <1>1, <1>a
  <2>4. /\ system' = q.user /\ team' = team /\ flushed' = flushed
        /\ page # None => menu'.team = team
    BY <1>1, <1>a DEF Access!Renew
  <2> HIDE DEF q, mine
  <2>5. Access!OwnRights' BY <1>1, <2>1, <2>3, <2>4 DEF AccessInv, Access!OwnRights, Access!Own
  <2>6. Clean0' BY <1>1, <2>1, <2>4 DEF AccessInv, Clean0
  <2> QED BY <1>1, <2>2, <2>5, <2>6 DEF AccessInv
<1>b. CASE q.kind = "team"
  <2>1. strayed' \in SUBSET {"system", "team"} /\ ("system" \in strayed' <=> "system" \in strayed)
    BY <1>1, <1>2, <1>b
  <2>2. Asked' BY <1>1, <2>1, AnsweredStep DEF AccessInv
  <2>3. "team" \notin strayed' => q.user = user /\ q.team = page BY <1>1, <1>b
  <2>4. /\ system' = system /\ team' = [user |-> q.user, team |-> q.team] /\ flushed' = TRUE
        /\ page # None => menu'.team = team'
    BY <1>1, <1>b DEF Access!Renew
  <2>5. q.team # None BY <1>2, <1>b
  <2> HIDE DEF q, mine
  <2>6. Access!OwnRights' BY <1>1, <2>1, <2>3, <2>4 DEF AccessInv, Access!OwnRights, Access!Own
  <2>7. Clean0' BY <1>1, <2>3, <2>5 DEF Clean0
  <2> QED BY <1>1, <2>2, <2>6, <2>7 DEF AccessInv
<1>c. q.kind # "idle" BY <1>1, <1>2
<1> QED BY <1>2, <1>a, <1>b, <1>c

LEMMA AccessFailsStep ==
  ASSUME AccessInv, NEW r \in Requests, Access!Fails(r)
  PROVE  AccessInv'
<1>1. /\ rq' = [rq EXCEPT ![r] = Access!Idle]
      /\ UNCHANGED <<user, page, system, team, flushed, menu, strayed, carried>>
  BY DEF Access!Fails
<1>2. Asked' BY <1>1, AnsweredStep DEF AccessInv, Asked
<1> QED BY <1>1, <1>2 DEF AccessInv, Clean0, Access!OwnRights, Access!Own

LEMMA LogoutStep ==
  ASSUME AccessInv, Access!Logout
  PROVE  AccessInv'
<1>1. /\ user' = None /\ page' = None /\ system' = None /\ team' = Access!NoRights
      /\ flushed' = IF page = None THEN flushed ELSE FALSE
      /\ strayed' = IF page = None THEN strayed \ {"system"} ELSE {}
      /\ rq' = rq
  BY DEF Access!Logout
<1>2. Asked' BY <1>1 DEF AccessInv, Asked
<1>3. Clean0' BY <1>1 DEF AccessInv, Clean0
<1>4. Access!OwnRights' BY <1>1 DEF Access!OwnRights
<1> QED BY <1>1, <1>2, <1>3, <1>4 DEF AccessInv

LEMMA AccessReloadStep ==
  ASSUME AccessInv, Access!Reload
  PROVE  AccessInv'
<1>1. Asked' BY DEF AccessInv, Asked, Access!Reload, Access!Idle
<1> QED BY <1>1 DEF Access!Reload, AccessInv, Clean0, Access!OwnRights

LEMMA AccessNextStep ==
  ASSUME AccessInv, None \notin Teams, [Access!Next]_(Access!vars)
  PROVE  AccessInv'
<1>1. CASE \E u \in Users : Access!Login(u) BY <1>1, LoginStep
<1>2. CASE \E t \in Teams \cup {None} : Access!Go(t) BY <1>2, GoStep
<1>3. CASE \E r \in Requests : Access!Answer(r) BY <1>3, AnswerStep
<1>4. CASE \E r \in Requests : Access!Fails(r) BY <1>4, AccessFailsStep
<1>5. CASE Access!Logout BY <1>5, LogoutStep
<1>6. CASE Access!Reload BY <1>6, AccessReloadStep
<1>7. CASE UNCHANGED Access!vars BY <1>7 DEF Access!vars, AccessInv, Asked, Clean0,
                                    Access!OwnRights, Access!Own
<1> QED BY <1>1, <1>2, <1>3, <1>4, <1>5, <1>6, <1>7 DEF Access!Next

\* Through any pages, sessions and delays: unless an answer strayed, what a page
\* offers is what its user may do in its team.
THEOREM OnlyOwnRights ==
  ASSUME None \notin Teams
  PROVE  Access!Spec => []Access!OwnRights
<1>1. Access!Init => AccessInv BY AccessInitStep
<1>2. AccessInv /\ [Access!Next]_(Access!vars) => AccessInv' BY AccessNextStep
<1>3. AccessInv => Access!OwnRights BY DEF AccessInv
<1> QED BY <1>1, <1>2, <1>3, PTL DEF Access!Spec

-----------------------------------------------------------------------------
(* Categories.                                                             *)

Kinds == {Drag!Nothing, "list", "sort", "add", "rename", "delete"}

TreeDialogs == [kind : {Drag!Nothing, "add", "rename", "delete"}, cat : Cats \cup {Drag!Root, Drag!Nothing},
            sent : Waiting \cup {Drag!Nothing}]

PageShape ==
  /\ rq = [r \in Waiting |-> rq[r]]
  /\ back = [r \in Waiting |-> back[r]]
  /\ \A r \in Waiting :
       /\ rq[r].kind \in Kinds
       /\ rq[r].kind = Drag!Nothing => rq[r].pc = Drag!Nothing
       /\ rq[r].kind = "list" => rq[r].pc # "done"
       /\ rq[r].kind = "list" /\ rq[r].pc = "sent" => rq[r] = Drag!List
  /\ dialog \in TreeDialogs
  /\ excused \in BOOLEAN

\* A page that has to show what is stored has one request in progress at most.
OneRequest == ~excused => \A r, s \in Drag!InProgress : r = s

\* What it shows, or will show when its request is refused or its list comes.
WillFollow ==
  ~excused =>
    /\ Drag!InProgress = {} => gData = Drag!Tree /\ cateData = Drag!Tree
    /\ \A r \in Drag!InProgress :
         /\ rq[r].kind = "list" /\ rq[r].pc = "read" => rq[r].tree = Drag!Tree
         /\ rq[r].kind # "list" /\ rq[r].pc # "done" =>
              /\ cateData = Drag!Tree
              /\ IF rq[r].kind = "sort" THEN back[r] = Drag!Tree ELSE gData = Drag!Tree

PageInv == PageShape /\ OneRequest /\ WillFollow

LEMMA PagePut ==
  ASSUME PageShape, NEW r \in Waiting, NEW q, Drag!Put(r, q)
  PROVE  /\ rq' = [s \in Waiting |-> rq'[s]]
         /\ rq'[r] = q
         /\ \A s \in Waiting : s # r => rq'[s] = rq[s]
         /\ Drag!InProgress' = IF q.kind # Drag!Nothing THEN Drag!InProgress \cup {r} ELSE Drag!InProgress \ {r}
<1>1. /\ rq' = [s \in Waiting |-> rq'[s]]
      /\ rq'[r] = q
      /\ \A s \in Waiting : s # r => rq'[s] = rq[s]
  BY DEF PageShape, Drag!Put
<1> QED BY <1>1 DEF Drag!InProgress

LEMMA PageInitially == Drag!PageInit => PageInv
BY DEF Drag!PageInit, PageInv, PageShape, OneRequest, WillFollow, Kinds, Drag!List, Drag!Request,
   Drag!Free,
       Drag!Nothing, Drag!NoDialog, TreeDialogs

LEMMA TreeSame == ASSUME rows' = rows PROVE Drag!Tree' = Drag!Tree
BY DEF Drag!Tree

\* A request that is sent when the page shows what is stored.
LEMMA PageSend ==
  ASSUME PageInv, NEW r \in Waiting, NEW q, Drag!Send(r, q), q.kind \in Kinds \ {Drag!Nothing, "list"},
         cateData' = cateData, dialog' \in TreeDialogs, back' = [s \in Waiting |-> back'[s]],
         q.kind = "sort" => back'[r] = cateData,
         q.kind # "sort" => gData' = gData
  PROVE  PageInv'
<1>1. /\ rq' = [s \in Waiting |-> rq'[s]] /\ rq'[r] = q
      /\ \A s \in Waiting : s # r => rq'[s] = rq[s]
      /\ Drag!InProgress' = Drag!InProgress \cup {r}
  BY PagePut DEF Drag!Send, PageInv
<1>2. rows' = rows /\ excused' = (excused \/ Drag!InProgress # {})
  BY DEF Drag!Send, Drag!Unwritten
<1>3. PageShape' BY <1>1, <1>2 DEF PageInv, PageShape
<1>4. ~excused' => ~excused /\ Drag!InProgress = {} /\ Drag!InProgress' = {r}
  BY <1>1, <1>2 DEF PageInv, PageShape
<1>5. OneRequest' BY <1>4 DEF OneRequest
<1>6. WillFollow'
  <2> SUFFICES ASSUME ~excused' PROVE WillFollow'
    BY DEF WillFollow
  <2>1. gData = Drag!Tree /\ cateData = Drag!Tree /\ Drag!Tree' = Drag!Tree
    BY <1>2, <1>4, TreeSame DEF PageInv, WillFollow
  <2> QED BY <2>1, <1>1, <1>4 DEF WillFollow
<1> QED BY <1>3, <1>5, <1>6 DEF PageInv

LEMMA DropStep ==
  ASSUME PageInv, NEW r \in Waiting, NEW c, NEW to, Drag!Drop(r, c, to)
  PROVE  PageInv'
<1>1. /\ Drag!Send(r, Drag!Sort(gData')) /\ cateData' = cateData /\ back' = [back EXCEPT ![r] = cateData]
      /\ dialog' = dialog
  BY DEF Drag!Drop
<1>2. back' = [s \in Waiting |-> back'[s]] /\ back'[r] = cateData /\ dialog' \in TreeDialogs
  BY <1>1 DEF PageInv, PageShape
<1>3. Drag!Sort(gData').kind = "sort" BY DEF Drag!Sort, Drag!Request
<1> QED BY <1>1, <1>2, <1>3, PageSend DEF Kinds, Drag!Nothing

LEMMA ConfirmStep ==
  ASSUME PageInv, NEW r \in Waiting, Drag!Confirm(r)
  PROVE  PageInv'
<1>1. UNCHANGED <<gData, cateData, back>> /\ dialog' = [dialog EXCEPT !.sent = r]
  BY DEF Drag!Confirm
<1>2. back' = [s \in Waiting |-> back'[s]] /\ dialog' \in TreeDialogs
  BY <1>1 DEF PageInv, PageShape, TreeDialogs
<1>3. ASSUME NEW q, Drag!Send(r, q), q.kind \in {"add", "rename", "delete"} PROVE PageInv'
  BY <1>1, <1>2, <1>3, PageSend DEF Kinds, Drag!Nothing
<1>4. ASSUME NEW c, Drag!Send(r, Drag!Add(c, dialog.cat)) PROVE PageInv'
  <2>1. Drag!Add(c, dialog.cat).kind = "add" BY DEF Drag!Add, Drag!Request
  <2> QED BY <1>3, <1>4, <2>1
<1>5. ASSUME Drag!Send(r, Drag!About(dialog.kind, dialog.cat)), dialog.kind # "add" PROVE PageInv'
  <2>1. Drag!About(dialog.kind, dialog.cat).kind = dialog.kind BY DEF Drag!About, Drag!Request
  <2>2. dialog.kind \in {"rename", "delete"}
    BY <1>5 DEF Drag!Confirm, PageInv, PageShape, TreeDialogs
  <2> QED BY <1>3, <1>5, <2>1, <2>2
<1> QED BY <1>4, <1>5 DEF Drag!Confirm

\* A step of the dialog or of another page, which leaves the requests alone.
LEMMA PageStays ==
  ASSUME PageInv, UNCHANGED <<rq, back>>, dialog' \in TreeDialogs, excused' \in BOOLEAN,
         ~excused' => ~excused /\ UNCHANGED <<rows, gData, cateData>>
  PROVE  PageInv'
<1>1. Drag!InProgress' = Drag!InProgress BY DEF Drag!InProgress
<1>2. ~excused' => Drag!Tree' = Drag!Tree BY TreeSame
<1>3. PageShape' BY DEF PageInv, PageShape
<1>4. OneRequest' BY <1>1 DEF PageInv, OneRequest
<1>5. WillFollow' BY <1>1, <1>2 DEF PageInv, WillFollow
<1> QED BY <1>3, <1>4, <1>5 DEF PageInv

-----------------------------------------------------------------------------
(* The server.                                                             *)

\* A request that goes on, to be refused or to be done.
LEMMA Proceeds ==
  ASSUME PageInv, NEW r \in Waiting, NEW q, Drag!Put(r, q), UNCHANGED <<Drag!page, excused>>,
         rq[r].kind # Drag!Nothing, q.kind = rq[r].kind,
         q.pc # "done" => rows' = rows /\ rq[r].pc # "done",
         q.kind = "list" => q.pc = "refused"
  PROVE  PageInv'
<1>1. /\ rq' = [s \in Waiting |-> rq'[s]] /\ rq'[r] = q
      /\ \A s \in Waiting : s # r => rq'[s] = rq[s]
      /\ Drag!InProgress' = Drag!InProgress
  BY PagePut DEF PageInv, Drag!InProgress
<1>2. r \in Drag!InProgress BY DEF Drag!InProgress
<1>3. PageShape' BY <1>1 DEF PageInv, PageShape, Drag!page
<1>4. OneRequest' BY <1>1 DEF PageInv, OneRequest
<1>5. WillFollow'
  <2> SUFFICES ASSUME ~excused PROVE WillFollow'
    BY DEF WillFollow
  <2>1. Drag!InProgress' = {r} BY <1>1, <1>2 DEF PageInv, OneRequest
  <2>2. q.pc # "done" => Drag!Tree' = Drag!Tree BY TreeSame
  <2> QED BY <1>1, <1>2, <2>1, <2>2 DEF PageInv, WillFollow, Drag!page
<1> QED BY <1>3, <1>4, <1>5 DEF PageInv

LEMMA SortWriteDone ==
  ASSUME NEW r \in Waiting, Drag!SortWrite(r) PROVE Drag!Put(r, Drag!Done(r))
<1>1. Drag!Restrict(rq[r].tree, DOMAIN rq[r].tree \ DOMAIN rq[r].tree) = Drag!Empty
  BY DEF Drag!Restrict, Drag!Empty
<1> QED BY <1>1 DEF Drag!SortWrite, Drag!Commits

LEMMA ServeStep ==
  ASSUME PageInv, NEW r \in Waiting, Drag!Serve(r)
  PROVE  PageInv'
<1>1. UNCHANGED <<Drag!page, excused>> BY DEF Drag!Serve
<1>2. /\ Drag!Done(r).kind = rq[r].kind /\ Drag!Done(r).pc = "done"
      /\ Drag!Refused(r).kind = rq[r].kind /\ Drag!Refused(r).pc = "refused"
  BY DEF Drag!Done, Drag!Refused, Drag!Request
<1>3. ASSUME Drag!Put(r, Drag!Done(r)), rq[r].kind \in {"sort", "add", "rename", "delete"} PROVE PageInv'
  BY <1>1, <1>2, <1>3, Proceeds DEF Drag!Nothing
<1>4. ASSUME Drag!Put(r, Drag!Refused(r)), rq[r].kind # Drag!Nothing, rq[r].pc # "done", rows' = rows
      PROVE  PageInv'
  BY <1>1, <1>2, <1>4, Proceeds
<1>5. ASSUME NEW q, Drag!Put(r, q), q.kind = rq[r].kind, q.pc = "read", rows' = rows,
             rq[r].kind \in {"sort", "add", "rename", "delete"}, rq[r].pc # "done"
      PROVE  PageInv'
  BY <1>1, <1>5, Proceeds DEF Drag!Nothing
<1>6. ASSUME NEW kind \in {"sort", "add", "rename", "delete"}, Drag!Read(r, kind)
      PROVE  /\ rq[r].kind \in {"sort", "add", "rename", "delete"} /\ rq[r].kind # Drag!Nothing
             /\ rq[r].pc # "done"
             /\ Drag!Goes(r).kind = rq[r].kind /\ Drag!Goes(r).pc = "read"
  BY <1>6 DEF Drag!Read, Drag!Goes, Drag!Nothing
<1>7. CASE Drag!SortRead(r)
  <2>1. Drag!Read(r, "sort") /\ rows' = rows BY <1>7 DEF Drag!SortRead, Drag!Unwritten
  <2>2. CASE Drag!Put(r, Drag!Goes(r)) BY <1>5, <1>6, <2>1, <2>2
  <2>3. CASE Drag!Put(r, Drag!Refused(r)) BY <1>4, <1>6, <2>1, <2>3
  <2> QED BY <1>7, <2>2, <2>3 DEF Drag!SortRead
<1>8. CASE Drag!SortWrite(r)
  <2>1. Drag!Put(r, Drag!Done(r)) BY <1>8, SortWriteDone
  <2> QED BY <1>3, <1>8, <2>1 DEF Drag!SortWrite, Drag!Write
<1>9. CASE Drag!AddRead(r)
  <2>1. Drag!Read(r, "add") /\ rows' = rows BY <1>9 DEF Drag!AddRead, Drag!Unwritten
  <2>2. CASE Drag!Put(r, Drag!Goes(r)) BY <1>5, <1>6, <2>1, <2>2
  <2>3. CASE Drag!Put(r, Drag!Refused(r)) BY <1>4, <1>6, <2>1, <2>3
  <2> QED BY <1>9, <2>2, <2>3 DEF Drag!AddRead
<1>10. CASE Drag!AddWrite(r) BY <1>3, <1>10 DEF Drag!AddWrite, Drag!Write
<1>11. CASE Drag!RenameRead(r)
  <2> DEFINE q == [Drag!Goes(r) EXCEPT !.parent = rows[rq[r].cat]]
  <2>1. Drag!Read(r, "rename") /\ rows' = rows BY <1>11 DEF Drag!RenameRead, Drag!Unwritten
  <2>2. CASE Drag!Put(r, q)
    <3>1. q.kind = rq[r].kind /\ q.pc = "read" BY <1>6, <2>1
    <3> QED BY <1>5, <1>6, <2>1, <2>2, <3>1
  <2>3. CASE Drag!Put(r, Drag!Refused(r)) BY <1>4, <1>6, <2>1, <2>3
  <2> QED BY <1>11, <2>2, <2>3 DEF Drag!RenameRead
<1>12. CASE Drag!RenameWrite(r) BY <1>3, <1>12 DEF Drag!RenameWrite, Drag!Write
<1>13. CASE Drag!DeleteRead(r)
  <2> DEFINE q == [Drag!Goes(r) EXCEPT !.had = Drag!Children(rq[r].cat)]
  <2>1. Drag!Read(r, "delete") /\ rows' = rows BY <1>13 DEF Drag!DeleteRead, Drag!Unwritten
  <2>2. CASE Drag!Put(r, q)
    <3>1. q.kind = rq[r].kind /\ q.pc = "read" BY <1>6, <2>1
    <3> QED BY <1>5, <1>6, <2>1, <2>2, <3>1
  <2>3. CASE Drag!Put(r, Drag!Refused(r)) BY <1>4, <1>6, <2>1, <2>3
  <2> QED BY <1>13, <2>2, <2>3 DEF Drag!DeleteRead
<1>14. CASE Drag!DeleteWrite(r)
  <2>1. rq[r].kind = "delete" /\ rq[r].pc = "read" BY <1>14 DEF Drag!DeleteWrite, Drag!Write
  <2>2. CASE Drag!Put(r, Drag!Done(r)) BY <1>3, <2>1, <2>2
  <2>3. CASE Drag!Put(r, Drag!Refused(r)) /\ rows' = rows BY <1>4, <2>1, <2>3 DEF Drag!Nothing
  <2> QED BY <1>14, <2>2, <2>3 DEF Drag!DeleteWrite, Drag!Unwritten
<1>15. CASE Drag!GoWrong(r)
  <2>1. rq[r].kind # Drag!Nothing /\ rq[r].pc # "done"
    BY <1>15 DEF Drag!GoWrong, PageInv, PageShape, Drag!Nothing
  <2> QED BY <1>4, <1>15, <2>1 DEF Drag!GoWrong, Drag!Unwritten
<1> QED BY <1>7, <1>8, <1>9, <1>10, <1>11, <1>12, <1>13, <1>14, <1>15 DEF Drag!Serve, Drag!Handle

LEMMA ListReadStep ==
  ASSUME PageInv, NEW r \in Waiting, Drag!ListRead(r)
  PROVE  PageInv'
<1> DEFINE q == [Drag!Goes(r) EXCEPT !.tree = Drag!Tree]
<1>1. /\ rq[r].kind = "list" /\ rq[r].pc = "sent" /\ Drag!Put(r, q) /\ UNCHANGED Drag!page
      /\ rows' = rows /\ excused' = (excused /\ Drag!InProgress # {r})
  BY DEF Drag!ListRead, Drag!Read, Drag!Unwritten
<1>2. q.kind = "list" /\ q.pc = "read"
  BY <1>1 DEF Drag!Goes
<1>3. /\ rq' = [s \in Waiting |-> rq'[s]] /\ rq'[r] = q
      /\ \A s \in Waiting : s # r => rq'[s] = rq[s]
      /\ Drag!InProgress' = Drag!InProgress /\ r \in Drag!InProgress
  BY <1>1, <1>2, PagePut DEF PageInv, Drag!InProgress, Drag!Nothing
<1>4. PageShape' BY <1>1, <1>2, <1>3 DEF PageInv, PageShape, Drag!page, Kinds, Drag!Nothing
<1>5. ~excused' => Drag!InProgress' = {r} BY <1>1, <1>3 DEF PageInv, OneRequest
<1>6. WillFollow'
  <2> SUFFICES ASSUME ~excused' PROVE WillFollow'
    BY DEF WillFollow
  <2>1. Drag!Tree' = Drag!Tree BY <1>1, TreeSame
  <2>2. rq'[r].tree = Drag!Tree /\ rq'[r].kind = "list"
    BY <1>1, <1>2, <1>3 DEF PageInv, PageShape, Drag!Goes, Drag!List, Drag!Request
  <2> HIDE DEF q
  <2> QED BY <1>5, <2>1, <2>2 DEF WillFollow
<1> QED BY <1>4, <1>5, <1>6 DEF PageInv, OneRequest

-----------------------------------------------------------------------------
(* The answers.                                                            *)

LEMMA AnswersShape ==
  ASSUME PageShape, NEW r \in Waiting, NEW ok \in BOOLEAN, Drag!Answers(r, ok), excused' \in BOOLEAN
  PROVE  /\ PageShape' /\ rq[r].kind # Drag!Nothing
         /\ rq'[r].kind = Drag!Nothing \/ (rq'[r].kind = "list" /\ rq'[r].pc = "sent" /\ ok /\ rq[r].kind # "list")
         /\ \A s \in Waiting : s # r => rq'[s] = rq[s]
         /\ Drag!InProgress' = IF rq'[r].kind = Drag!Nothing THEN Drag!InProgress \ {r} ELSE Drag!InProgress
         /\ rq[r].kind # "list" /\ ok => rq'[r].kind # Drag!Nothing
         /\ rq[r].kind = "list" /\ ok => gData' = rq[r].tree /\ cateData' = rq[r].tree
         /\ rq[r].kind = "sort" /\ ~ok => gData' = back[r] /\ cateData' = cateData
         /\ rq[r].kind \in {"add", "rename", "delete"} => gData' = gData /\ cateData' = cateData
<1>1. back' = [s \in Waiting |-> back'[s]] /\ dialog' \in TreeDialogs
  <2>1. CASE Drag!ListAnswer(r, ok) BY <2>1 DEF Drag!ListAnswer, PageShape
  <2>2. CASE Drag!SortAnswer(r, ok) BY <2>2 DEF Drag!SortAnswer, PageShape
  <2>3. CASE Drag!DialogAnswer(r, ok)
    <3>1. back' = back BY <2>3 DEF Drag!DialogAnswer
    <3>2. dialog' \in {Drag!NoDialog, dialog, [dialog EXCEPT !.sent = Drag!Nothing]}
      BY <2>3 DEF Drag!DialogAnswer
    <3>3. Drag!NoDialog \in TreeDialogs /\ dialog \in TreeDialogs /\ [dialog EXCEPT !.sent = Drag!Nothing] \in TreeDialogs
      BY DEF PageShape, TreeDialogs, Drag!NoDialog
    <3> QED BY <3>1, <3>2, <3>3 DEF PageShape
  <2> QED BY <2>1, <2>2, <2>3 DEF Drag!Answers
<1>2. /\ Drag!Free.kind = Drag!Nothing /\ Drag!Free.pc = Drag!Nothing
      /\ Drag!List.kind = "list" /\ Drag!List.pc = "sent"
  BY DEF Drag!Free, Drag!List, Drag!Request
<1>3. CASE Drag!ListAnswer(r, ok)
  <2>1. Drag!Put(r, Drag!Free) BY <1>3 DEF Drag!ListAnswer
  <2>2. /\ rq' = [s \in Waiting |-> rq'[s]] /\ rq'[r] = Drag!Free
        /\ \A s \in Waiting : s # r => rq'[s] = rq[s]
        /\ Drag!InProgress' = Drag!InProgress \ {r}
    BY <1>2, <2>1, PagePut
  <2>3. PageShape' BY <1>1, <1>2, <2>2 DEF PageShape, Kinds
  <2> QED BY <1>2, <1>3, <2>2, <2>3 DEF Drag!ListAnswer, Drag!Nothing
<1>4. CASE Drag!SortAnswer(r, ok) \/ Drag!DialogAnswer(r, ok)
  <2>1. rq[r].kind \in {"sort", "add", "rename", "delete"} /\ r \in Drag!InProgress
    BY <1>4 DEF Drag!SortAnswer, Drag!DialogAnswer, Drag!InProgress, Drag!Nothing
  <2>2. CASE ok
    <3>1. Drag!Put(r, Drag!List) BY <1>4, <2>2 DEF Drag!SortAnswer, Drag!DialogAnswer, Drag!Again
    <3>2. /\ rq' = [s \in Waiting |-> rq'[s]] /\ rq'[r] = Drag!List
          /\ \A s \in Waiting : s # r => rq'[s] = rq[s]
          /\ Drag!InProgress' = Drag!InProgress \cup {r}
      BY <1>2, <3>1, PagePut DEF Drag!Nothing
    <3>3. PageShape' BY <1>1, <1>2, <3>2 DEF PageShape, Kinds, Drag!Nothing
    <3> QED BY <1>2, <1>4, <2>1, <2>2, <3>2, <3>3 DEF Drag!SortAnswer, Drag!DialogAnswer,
               Drag!Nothing
  <2>3. CASE ~ok
    <3>1. Drag!Put(r, Drag!Free) BY <1>4, <2>3 DEF Drag!SortAnswer, Drag!DialogAnswer
    <3>2. /\ rq' = [s \in Waiting |-> rq'[s]] /\ rq'[r] = Drag!Free
          /\ \A s \in Waiting : s # r => rq'[s] = rq[s]
          /\ Drag!InProgress' = Drag!InProgress \ {r}
      BY <1>2, <3>1, PagePut
    <3>3. PageShape' BY <1>1, <1>2, <3>2 DEF PageShape, Kinds
    <3> QED BY <1>2, <1>4, <2>1, <2>3, <3>2, <3>3
            DEF Drag!SortAnswer, Drag!DialogAnswer, Drag!Nothing, Drag!Reverted
  <2> QED BY <2>2, <2>3
<1> QED BY <1>3, <1>4 DEF Drag!Answers

LEMMA LoseStep ==
  ASSUME PageInv, NEW r \in Waiting, Drag!Lose(r)
  PROVE  PageInv'
<1>1. Drag!Answers(r, FALSE) /\ excused' = TRUE BY DEF Drag!Lose
<1>2. PageShape' BY <1>1, AnswersShape DEF PageInv
<1> QED BY <1>1, <1>2 DEF PageInv, OneRequest, WillFollow

LEMMA ArriveStep ==
  ASSUME PageInv, NEW r \in Waiting, Drag!Arrive(r)
  PROVE  PageInv'
<1> DEFINE ok == rq[r].pc # "refused"
<1>1. /\ Drag!Answers(r, ok) /\ rows' = rows
      /\ excused' = (excused \/ (rq[r].kind = "list" /\ rq[r].pc = "refused"))
      /\ rq[r].pc = "done" \/ rq[r].pc = "refused" \/ (rq[r].kind = "list" /\ rq[r].pc = "read")
  BY DEF Drag!Arrive, Drag!Unwritten, Drag!Write
<1>2. ok \in BOOLEAN /\ excused' \in BOOLEAN BY <1>1
<1>3. /\ PageShape' /\ rq[r].kind # Drag!Nothing
      /\ rq'[r].kind = Drag!Nothing \/ (rq'[r].kind = "list" /\ rq'[r].pc = "sent" /\ ok /\ rq[r].kind # "list")
      /\ \A s \in Waiting : s # r => rq'[s] = rq[s]
      /\ Drag!InProgress' = IF rq'[r].kind = Drag!Nothing THEN Drag!InProgress \ {r} ELSE Drag!InProgress
      /\ rq[r].kind # "list" /\ ok => rq'[r].kind # Drag!Nothing
      /\ rq[r].kind = "list" /\ ok => gData' = rq[r].tree /\ cateData' = rq[r].tree
      /\ rq[r].kind = "sort" /\ ~ok => gData' = back[r] /\ cateData' = cateData
      /\ rq[r].kind \in {"add", "rename", "delete"} => gData' = gData /\ cateData' = cateData
  BY <1>1, <1>2, AnswersShape DEF PageInv
<1>4. r \in Drag!InProgress BY <1>3 DEF Drag!InProgress
<1>5. OneRequest'
  BY <1>1, <1>3 DEF PageInv, OneRequest
<1>6. WillFollow'
  <2> SUFFICES ASSUME ~excused' PROVE WillFollow'
    BY DEF WillFollow
  <2>1. ~excused /\ Drag!InProgress = {r} /\ Drag!Tree' = Drag!Tree
    BY <1>1, <1>4, TreeSame DEF PageInv, OneRequest
  <2>2. /\ rq[r].kind = "list" /\ rq[r].pc = "read" => rq[r].tree = Drag!Tree
        /\ rq[r].kind # "list" /\ rq[r].pc # "done" =>
             /\ cateData = Drag!Tree
             /\ IF rq[r].kind = "sort" THEN back[r] = Drag!Tree ELSE gData = Drag!Tree
    BY <2>1, <1>4 DEF PageInv, WillFollow
  <2>3. CASE rq'[r].kind # Drag!Nothing
    <3>1. Drag!InProgress' = {r} /\ rq'[r].kind = "list" /\ rq'[r].pc = "sent" BY <2>1, <2>3, <1>3
    <3> QED BY <3>1 DEF WillFollow
  <2>4. CASE rq'[r].kind = Drag!Nothing
    <3>1. Drag!InProgress' = {} BY <2>1, <2>4, <1>3
    <3>2. CASE rq[r].kind = "list"
      <4>1. ok /\ rq[r].pc = "read" BY <3>2, <1>1 DEF PageInv, PageShape
      <4> QED BY <4>1, <3>1, <3>2, <2>1, <2>2, <1>3 DEF WillFollow
    <3>3. CASE rq[r].kind # "list"
      <4>1. ~ok BY <3>3, <2>4, <1>3
      <4>2. rq[r].kind \in {"sort", "add", "rename", "delete"}
        BY <3>3, <1>3 DEF PageInv, PageShape, Kinds
      <4> QED BY <4>1, <4>2, <3>1, <3>3, <2>1, <2>2, <1>3 DEF WillFollow
    <3> QED BY <3>2, <3>3
  <2> QED BY <2>3, <2>4
<1> QED BY <1>3, <1>5, <1>6 DEF PageInv

-----------------------------------------------------------------------------
LEMMA PageStep == PageInv /\ [Drag!PageNext]_(Drag!vars) => PageInv'
<1> SUFFICES ASSUME PageInv, [Drag!PageNext]_(Drag!vars) PROVE PageInv'
  OBVIOUS
<1>1. CASE Drag!Withdraw
  BY <1>1, PageStays DEF Drag!Withdraw, Drag!catVars, PageInv, PageShape, TreeDialogs,
     Drag!NoDialog
<1>2. CASE Drag!Elsewhere
  BY <1>2, PageStays DEF Drag!Elsewhere, Drag!page, PageInv, PageShape
<1>3. ASSUME NEW kind \in {"add", "rename", "delete"}, NEW c \in Cats \cup {Drag!Root}, Drag!Open(kind, c)
      PROVE  PageInv'
  <2>1. dialog' \in TreeDialogs BY <1>3 DEF Drag!Open, TreeDialogs
  <2> QED BY <1>3, <2>1, PageStays DEF Drag!Open, Drag!catVars, PageInv, PageShape
<1>4. ASSUME NEW r \in Waiting, NEW c \in Cats, NEW to \in Cats \cup {Drag!Root}, Drag!Drop(r, c, to)
      PROVE  PageInv'
  BY <1>4, DropStep
<1>5. ASSUME NEW r \in Waiting, Drag!Confirm(r) PROVE PageInv' BY <1>5, ConfirmStep
<1>6. ASSUME NEW r \in Waiting, Drag!Serve(r) PROVE PageInv' BY <1>6, ServeStep
<1>7. ASSUME NEW r \in Waiting, Drag!ListRead(r) PROVE PageInv' BY <1>7, ListReadStep
<1>8. ASSUME NEW r \in Waiting, Drag!Arrive(r) PROVE PageInv' BY <1>8, ArriveStep
<1>9. ASSUME NEW r \in Waiting, Drag!Lose(r) PROVE PageInv' BY <1>9, LoseStep
<1>10. CASE UNCHANGED Drag!vars
  BY <1>10, PageStays DEF Drag!vars, Drag!catVars, Drag!page, PageInv, PageShape
<1> QED BY <1>1, <1>2, <1>3, <1>4, <1>5, <1>6, <1>7, <1>8, <1>9, <1>10 DEF Drag!PageNext

\* Through drags, dialogs, refusals and lists that are read again: a page of categories
\* that waits for nothing shows the tree that is stored.
THEOREM TreeFollows == Drag!PageSpec => []Drag!PageFollows
<1>1. PageInv => Drag!PageFollows BY DEF PageInv, WillFollow, Drag!PageFollows
<1> QED BY <1>1, PageInitially, PageStep, PTL DEF Drag!PageSpec

-----------------------------------------------------------------------------
(* Models.                                                                 *)

Kind    == {"online", "local"}
Sources == Providers \cup {Local}

Picked == [type : Kind, provider : Providers \cup {None}, id : Models \cup {None},
            config : Models \cup {None}, name : Models \cup {None}]

ChoiceDialogs == [type : Kind, provider : Providers \cup {None}, id : Models \cup {None},
            config : Models \cup {None}, list : Sources \cup {None}, providers : BOOLEAN]

Asks == [what : {"models", "providers"}, owner : Sources \cup {None}, pick : BOOLEAN, late : BOOLEAN]

ChoiceConstants ==
  /\ Owner \in [Models -> Sources]
  /\ Balancing \in BOOLEAN
  /\ Local \notin Providers
  /\ None \notin Sources \cup Models \cup Picked \cup ChoiceDialogs

ChoiceTypes ==
  /\ llm \in Picked \cup {None}
  /\ dialog \in ChoiceDialogs \cup {None}
  /\ asked \in [page : Seq(Asks), dialog : Seq(Asks)]
  /\ strayed \in [page : BOOLEAN, dialog : BOOLEAN]

\* The model a route starts with is asked for before anything else, and a page that waits
\* for a name has a model.
PageAsks ==
  /\ Balancing => asked.page = <<>>
  /\ ~Balancing /\ dialog # None => llm \in Picked
  /\ \A i \in DOMAIN asked.page :
       /\ asked.page[i].what = "models" /\ asked.page[i].owner \in Sources
       /\ asked.page[i].pick => Len(asked.page) = 1 /\ llm = None /\ dialog = None
       /\ ~asked.page[i].pick => llm \in Picked

\* What changes the dialog when it comes.
Counts(q) == q.what = "models" \/ q.pick

Latest(Q, i) == Counts(Q[i]) /\ \A j \in DOMAIN Q : j > i => ~Counts(Q[j])

\* A page's choice always belongs together, and its name does when the last answer is there.
PageFits ==
  llm # None /\ ~strayed.page =>
    /\ Choice!Fits(llm)
    /\ asked.page = <<>> => llm.name = llm.id
    /\ \A i \in DOMAIN asked.page : (\A j \in DOMAIN asked.page : j <= i) =>
         asked.page[i].late \/ (/\ asked.page[i].owner = Choice!Chosen(llm)
                                /\ llm.id \in Choice!ModelsOf(Choice!Chosen(llm)))

\* What a dialog was opened with is asked for first.
FirstAsked ==
  \A i \in DOMAIN asked.dialog :
    asked.dialog[i].what = "models" /\ ~asked.dialog[i].pick =>
      \A j \in DOMAIN asked.dialog : j < i => ~Counts(asked.dialog[j])

\* The last request will bring what is missing, unless it has been overtaken.
Brings(q, d) ==
  \/ q.late
  \/ q.what = "providers" /\ d.type = "online"
  \/ q.what = "models" /\ q.owner = Choice!Chosen(d) /\ (q.pick \/ (Choice!Fits(d) /\ d.list = None))

DialogFits ==
  dialog # None /\ ~strayed.dialog =>
    /\ \A i \in DOMAIN asked.dialog : Latest(asked.dialog, i) => Brings(asked.dialog[i], dialog)
    /\ (\A i \in DOMAIN asked.dialog : ~Counts(asked.dialog[i])) =>
         Choice!Fits(dialog) /\ (Choice!Chosen(dialog) # None => dialog.list = Choice!Chosen(dialog))

ChoiceInv ==
  /\ ChoiceTypes /\ PageAsks /\ PageFits
  /\ dialog = None => asked.dialog = <<>>
  /\ FirstAsked /\ DialogFits

-----------------------------------------------------------------------------
(* Operators.                                                              *)

LEMMA FirstInside == ASSUME NEW S PROVE Choice!FirstOf(S) \in S \/ (S = {} /\ Choice!FirstOf(S) = None)
BY DEF Choice!FirstOf

LEMMA DefaultModel ==
  ASSUME NEW o
  PROVE  /\ Choice!Default(o) \in Models \cup {None}
         /\ Choice!ModelsOf(o) # {} => Choice!Default(o) \in Choice!ModelsOf(o)
         /\ Choice!ModelsOf(o) = {} => Choice!Default(o) = None
BY FirstInside DEF Choice!Default, Choice!ModelsOf

LEMMA NobodysModels == ASSUME ChoiceConstants PROVE Choice!ModelsOf(None) = {}
BY DEF ChoiceConstants, Choice!ModelsOf, Sources

LEMMA AsksType ==
  ASSUME NEW o \in Sources \cup {None}, NEW pick \in BOOLEAN
  PROVE  /\ Choice!AskModels(o, pick) \in Asks
         /\ Choice!AskProviders(pick) \in Asks
BY DEF Choice!AskModels, Choice!AskProviders, Choice!Ask, Asks

LEMMA RemovedAt ==
  ASSUME NEW T, NEW Q \in Seq(T), NEW i \in DOMAIN Q
  PROVE  /\ Choice!RemoveAt(Q, i) \in Seq(T)
         /\ Len(Choice!RemoveAt(Q, i)) = Len(Q) - 1
         /\ \A j \in DOMAIN Choice!RemoveAt(Q, i) :
              Choice!RemoveAt(Q, i)[j] = Q[IF j < i THEN j ELSE j + 1]
<1> DEFINE A == SubSeq(Q, 1, i - 1)
           B == SubSeq(Q, i + 1, Len(Q))
<1>1. A \in Seq(T) /\ Len(A) = i - 1 /\ \A j \in 1 .. i - 1 : A[j] = Q[j]
  OBVIOUS
<1>2. B \in Seq(T) /\ Len(B) = Len(Q) - i /\ \A j \in 1 .. Len(Q) - i : B[j] = Q[i + j]
  OBVIOUS
<1>3. Choice!RemoveAt(Q, i) = A \o B BY DEF Choice!RemoveAt
<1>4. i \in 1 .. Len(Q) /\ Len(Q) \in Nat BY LenProperties
<1> HIDE DEF A, B
<1>5. A \o B \in Seq(T) BY <1>1, <1>2
<1>6. Len(A \o B) = Len(Q) - 1 BY <1>1, <1>2, <1>4
<1>7. DOMAIN (A \o B) = 1 .. Len(Q) - 1 BY <1>5, <1>6, LenProperties
<1>8. ASSUME NEW j \in 1 .. Len(Q) - 1
      PROVE  (A \o B)[j] = Q[IF j < i THEN j ELSE j + 1]
  <2>1. CASE j < i
    <3>1. j \in 1 .. i - 1 BY <2>1, <1>4
    <3>2. (A \o B)[j] = A[j] BY <3>1, <1>1, <1>2
    <3> QED BY <3>1, <3>2, <2>1, <1>1
  <2>2. CASE ~ (j < i)
    <3>1. j - (i - 1) \in 1 .. Len(Q) - i /\ i + (j - (i - 1)) = j + 1 BY <2>2, <1>4
    <3>2. (A \o B)[j] = B[j - (i - 1)] BY <3>1, <2>2, <1>1, <1>2, <1>4
    <3> QED BY <3>1, <3>2, <2>2, <1>2
  <2> QED BY <2>1, <2>2
<1> QED BY <1>3, <1>5, <1>6, <1>7, <1>8

\* Where a request is among those that were there before one was answered.
Place(i, j) == IF j < i THEN j ELSE j + 1

\* Q without the i-th, R, in which the others are the same but for what is late.
Lacks(R, Q, i) ==
  /\ R \in Seq(Asks)
  /\ Len(R) = Len(Q) - 1
  /\ \A j \in DOMAIN R :
       /\ Place(i, j) \in DOMAIN Q
       /\ R[j].what = Q[Place(i, j)].what
       /\ R[j].owner = Q[Place(i, j)].owner
       /\ R[j].pick = Q[Place(i, j)].pick
       /\ R[j].late = (Q[Place(i, j)].late \/ j < i)

LEMMA WithoutOne ==
  ASSUME NEW Q \in Seq(Asks), NEW i \in DOMAIN Q
  PROVE  Lacks(Choice!Without(Q, i), Q, i)
<1> DEFINE marked == [j \in DOMAIN Q |-> [Q[j] EXCEPT !.late = @ \/ j < i]]
<1>0. ASSUME NEW q \in Asks, NEW b \in BOOLEAN
      PROVE  /\ [q EXCEPT !.late = b] \in Asks
             /\ [q EXCEPT !.late = b].what = q.what
             /\ [q EXCEPT !.late = b].owner = q.owner
             /\ [q EXCEPT !.late = b].pick = q.pick
             /\ [q EXCEPT !.late = b].late = b
  BY DEF Asks
<1>1. \A j \in DOMAIN Q : /\ marked[j] \in Asks
                          /\ marked[j].what = Q[j].what
                          /\ marked[j].owner = Q[j].owner
                          /\ marked[j].pick = Q[j].pick
                          /\ marked[j].late = (Q[j].late \/ j < i)
  <2> TAKE j \in DOMAIN Q
  <2> DEFINE b == Q[j].late \/ j < i
  <2>1. Q[j] \in Asks /\ b \in BOOLEAN OBVIOUS
  <2>2. marked[j] = [Q[j] EXCEPT !.late = b] OBVIOUS
  <2> HIDE DEF b, marked
  <2>3. /\ marked[j] \in Asks /\ marked[j].what = Q[j].what /\ marked[j].owner = Q[j].owner
        /\ marked[j].pick = Q[j].pick /\ marked[j].late = b
    BY <1>0, <2>1, <2>2
  <2> QED BY <2>3 DEF b
<1>2. marked \in Seq(Asks) /\ Len(marked) = Len(Q) /\ DOMAIN marked = DOMAIN Q
  <2>1. DOMAIN Q = 1 .. Len(Q) OBVIOUS
  <2>2. marked = [j \in 1 .. Len(Q) |-> marked[j]] BY <2>1
  <2> HIDE DEF marked
  <2>3. marked \in [1 .. Len(Q) -> Asks] BY <1>1, <2>1, <2>2
  <2> QED BY <2>1, <2>3
<1>3. Choice!Without(Q, i) = Choice!RemoveAt(marked, i) BY DEF Choice!Without
<1> HIDE DEF marked
<1>4. /\ Choice!Without(Q, i) \in Seq(Asks)
      /\ Len(Choice!Without(Q, i)) = Len(Q) - 1
      /\ \A j \in DOMAIN Choice!Without(Q, i) : Choice!Without(Q, i)[j] = marked[Place(i, j)]
  <2>1. i \in DOMAIN marked BY <1>2
  <2> QED BY <1>2, <1>3, <2>1, RemovedAt DEF Place
<1>5. \A j \in DOMAIN Choice!Without(Q, i) : Place(i, j) \in DOMAIN Q /\ (j < i <=> Place(i, j) < i)
  BY <1>4 DEF Place
<1> QED BY <1>1, <1>4, <1>5 DEF Lacks

-----------------------------------------------------------------------------
(* The page.                                                               *)

LEMMA ReplacedFits ==
  ASSUME ChoiceConstants, NEW o \in Sources
  PROVE  /\ Choice!Replaced(o) \in Picked
         /\ Choice!Replaced(o).name = Choice!Replaced(o).id
         /\ Choice!Fits(Choice!Replaced(o))
         /\ Choice!Chosen(Choice!Replaced(o)) = o
<1>1. Choice!Replaced(o) \in Picked
  BY DefaultModel DEF Choice!Replaced, Picked, Kind, Sources
<1>2. Choice!Replaced(o).name = Choice!Replaced(o).id /\ Choice!Replaced(o).config = Choice!Replaced(o).id
  BY DEF Choice!Replaced
<1>3. Choice!Chosen(Choice!Replaced(o)) = o
  BY DEF Choice!Replaced, Choice!Chosen, ChoiceConstants, Sources
<1>4. Choice!Replaced(o).id = Choice!Default(o) BY DEF Choice!Replaced
<1>5. Choice!Fits(Choice!Replaced(o))
  BY <1>2, <1>3, <1>4, DefaultModel DEF Choice!Fits
<1> QED BY <1>1, <1>2, <1>3, <1>5

\* What a page that waits is told in the end is what it asked for last.
LEMMA PageAnswerStep ==
  ASSUME ChoiceConstants, ChoiceInv, NEW i \in DOMAIN asked.page, Choice!PageAnswer(i)
  PROVE  ChoiceInv'
<1> DEFINE q == asked.page[i]
<1>1. /\ asked.page \in Seq(Asks) /\ asked.dialog \in Seq(Asks) /\ q \in Asks
      /\ strayed \in [page : BOOLEAN, dialog : BOOLEAN]
      /\ q.what = "models" /\ q.owner \in Sources
  BY DEF ChoiceInv, ChoiceTypes, PageAsks
<1>2. /\ Lacks(asked'.page, asked.page, i) /\ asked'.dialog = asked.dialog
      /\ asked' \in [page : Seq(Asks), dialog : Seq(Asks)]
  <2>1. Lacks(Choice!Without(asked.page, i), asked.page, i) BY <1>1, WithoutOne
  <2> QED BY <1>1, <2>1 DEF Choice!PageAnswer, ChoiceInv, ChoiceTypes, Lacks
<1>3. /\ strayed'.dialog = strayed.dialog
      /\ strayed'.page = (strayed.page \/ q.late)
      /\ strayed' \in [page : BOOLEAN, dialog : BOOLEAN]
  BY <1>1 DEF Choice!PageAnswer, Choice!Overtaken, Asks
<1>4. CASE q.pick
  <2>1. Len(asked.page) = 1 /\ dialog = None
    BY <1>4 DEF ChoiceInv, PageAsks
  <2>2. asked'.page = <<>> BY <1>2, <2>1 DEF Lacks
  <2>3. llm' = Choice!Replaced(q.owner) BY <1>4 DEF Choice!PageAnswer
  <2>4. dialog' = None /\ asked'.dialog = <<>>
    BY <1>2, <2>1 DEF ChoiceInv, Choice!PageAnswer
  <2>5. ChoiceTypes'
    BY <1>1, <1>2, <1>3, <2>3, <2>4, ReplacedFits DEF ChoiceTypes
  <2> QED BY <1>1, <2>2, <2>3, <2>4, <2>5, ReplacedFits
         DEF ChoiceInv, PageAsks, PageFits, FirstAsked, DialogFits, Choice!Fits
<1>5. CASE ~q.pick
  <2>1. llm \in Picked /\ llm # None /\ \A j \in DOMAIN asked.page : ~asked.page[j].pick
    BY <1>5, <1>1 DEF ChoiceInv, PageAsks, ChoiceConstants
  <2>2. /\ llm' \in Picked /\ llm'.type = llm.type /\ llm'.provider = llm.provider
        /\ llm'.id = llm.id /\ llm'.config = llm.config
        /\ llm.id \in Choice!ModelsOf(q.owner) => llm'.name = llm'.id
    BY <1>5, <2>1 DEF Choice!PageAnswer, Choice!Renamed, Picked
  <2>3. (Choice!Fits(llm) <=> Choice!Fits(llm')) /\ Choice!Chosen(llm') = Choice!Chosen(llm)
    BY <2>2 DEF Choice!Fits, Choice!Chosen, Choice!ModelsOf
  <2>4. dialog' = dialog BY DEF Choice!PageAnswer
  <2>5. ChoiceTypes'
    BY <1>2, <1>3, <2>2, <2>4 DEF ChoiceInv, ChoiceTypes
  <2>6. PageAsks'
    <3>1. \A j \in DOMAIN asked'.page :
            /\ ~asked'.page[j].pick
            /\ asked'.page[j].what = "models" /\ asked'.page[j].owner \in Sources
      BY <1>2, <2>1 DEF Lacks, ChoiceInv, PageAsks
    <3>2. ~Balancing BY <1>1 DEF ChoiceInv, PageAsks
    <3> QED BY <3>1, <3>2, <2>2 DEF PageAsks
  <2>7. PageFits'
    <3> SUFFICES ASSUME ~strayed'.page PROVE PageFits'
      BY DEF PageFits
    <3>1. ~strayed.page /\ ~q.late
      BY <1>3
    <3>2. Choice!Fits(llm) /\ \A j \in DOMAIN asked.page : (\A k \in DOMAIN asked.page : k <= j) =>
            asked.page[j].late \/ (/\ asked.page[j].owner = Choice!Chosen(llm)
                                   /\ llm.id \in Choice!ModelsOf(Choice!Chosen(llm)))
      BY <3>1, <2>1 DEF ChoiceInv, PageFits
    <3>3. asked'.page = <<>> => llm'.name = llm'.id
      <4>1. asked'.page = <<>> => \A k \in DOMAIN asked.page : k <= i
        BY <1>1, <1>2 DEF Lacks
      <4> QED BY <4>1, <2>2, <3>1, <3>2
    <3>4. ASSUME NEW j \in DOMAIN asked'.page, \A k \in DOMAIN asked'.page : k <= j
          PROVE  asked'.page[j].late \/ (/\ asked'.page[j].owner = Choice!Chosen(llm)
                                         /\ llm.id \in Choice!ModelsOf(Choice!Chosen(llm)))
      <4>1. CASE j < i BY <4>1, <1>2 DEF Lacks
      <4>2. CASE ~(j < i)
        <5>1. Place(i, j) = j + 1 /\ j + 1 \in DOMAIN asked.page /\ j = Len(asked'.page)
          <6>1. /\ asked'.page \in Seq(Asks) /\ j \in 1 .. Len(asked'.page) /\ i \in Nat
                /\ Len(asked'.page) = Len(asked.page) - 1 /\ DOMAIN asked.page = 1 .. Len(asked.page)
            BY <1>1, <1>2 DEF Lacks
          <6>2. Len(asked'.page) \in DOMAIN asked'.page BY <6>1
          <6>3. Len(asked'.page) <= j BY <6>2, <3>4
          <6> QED BY <6>1, <6>3, <4>2 DEF Place
        <5>2. \A k \in DOMAIN asked.page : k <= j + 1
          BY <1>1, <1>2, <5>1 DEF Lacks
        <5> QED BY <1>2, <3>2, <5>1, <5>2 DEF Lacks
      <4> QED BY <4>1, <4>2
    <3> QED BY <2>2, <2>3, <3>2, <3>3, <3>4 DEF PageFits, Choice!ModelsOf
  <2>8. (dialog = None => asked.dialog = <<>>)' /\ FirstAsked'
    BY <1>2, <2>4 DEF ChoiceInv, FirstAsked, Counts
  <2>9. DialogFits'
    BY <1>2, <1>3, <2>4 DEF ChoiceInv, DialogFits, Latest, Counts, Brings, Choice!Fits,
       Choice!Chosen, Choice!ModelsOf
  <2> QED BY <2>5, <2>6, <2>7, <2>8, <2>9 DEF ChoiceInv
<1> QED BY <1>1, <1>4, <1>5 DEF Asks

-----------------------------------------------------------------------------
(* The dialog's answers.                                                   *)

\* What is the last to change the dialog was so before the answer, or has been overtaken.
LEMMA RestLatest ==
  ASSUME NEW Q \in Seq(Asks), NEW i \in DOMAIN Q, NEW R, Lacks(R, Q, i),
         NEW j \in DOMAIN R, Latest(R, j), ~R[j].late
  PROVE  /\ j + 1 \in DOMAIN Q /\ i < j + 1 /\ Latest(Q, j + 1)
         /\ R[j].what = Q[j + 1].what /\ R[j].owner = Q[j + 1].owner
         /\ R[j].pick = Q[j + 1].pick /\ R[j].late = Q[j + 1].late
<1>1. i \in Nat /\ j \in Nat /\ Len(R) = Len(Q) - 1 /\ R \in Seq(Asks) BY DEF Lacks
<1>2. ~(j < i) BY DEF Lacks
<1>3. Place(i, j) = j + 1 /\ j + 1 \in DOMAIN Q /\ i < j + 1
  BY <1>1, <1>2 DEF Place, Lacks
<1>4. /\ R[j].what = Q[j + 1].what /\ R[j].owner = Q[j + 1].owner
      /\ R[j].pick = Q[j + 1].pick /\ (R[j].late <=> Q[j + 1].late)
  BY <1>2, <1>3 DEF Lacks
<1>5. R[j].late \in BOOLEAN /\ Q[j + 1].late \in BOOLEAN
  <2>1. R[j] \in Asks /\ Q[j + 1] \in Asks BY <1>1, <1>3
  <2> QED BY <2>1 DEF Asks
<1>6. ASSUME NEW k \in DOMAIN Q, k > j + 1 PROVE ~Counts(Q[k])
  <2>1. k - 1 \in DOMAIN R /\ Place(i, k - 1) = k /\ k - 1 > j
    BY <1>6, <1>1, <1>2 DEF Place
  <2> QED BY <2>1 DEF Latest, Counts, Lacks
<1> QED BY <1>3, <1>4, <1>5, <1>6 DEF Latest, Counts

LEMMA RestNone ==
  ASSUME NEW Q \in Seq(Asks), NEW i \in DOMAIN Q, NEW R, Lacks(R, Q, i),
         \A j \in DOMAIN R : ~Counts(R[j]), NEW k \in DOMAIN Q, k # i
  PROVE  ~Counts(Q[k])
<1>1. i \in Nat /\ k \in Nat /\ Len(R) = Len(Q) - 1 /\ R \in Seq(Asks) BY DEF Lacks
<1>2. PICK j \in DOMAIN R : Place(i, j) = k
  <2>1. CASE k < i BY <2>1, <1>1 DEF Place
  <2>2. CASE k > i
    <3>1. k - 1 \in DOMAIN R /\ Place(i, k - 1) = k BY <2>2, <1>1 DEF Place
    <3> QED BY <3>1
  <2> QED BY <2>1, <2>2, <1>1
<1> QED BY <1>2 DEF Lacks, Counts

LEMMA RestFirst ==
  ASSUME NEW Q \in Seq(Asks), NEW i \in DOMAIN Q, NEW R, Lacks(R, Q, i),
         \A k \in DOMAIN Q : Q[k].what = "models" /\ ~Q[k].pick =>
            \A j \in DOMAIN Q : j < k => ~Counts(Q[j])
  PROVE  \A k \in DOMAIN R : R[k].what = "models" /\ ~R[k].pick =>
            \A j \in DOMAIN R : j < k => ~Counts(R[j])
<1> SUFFICES ASSUME NEW k \in DOMAIN R, NEW j \in DOMAIN R, j < k,
                    R[k].what = "models", ~R[k].pick
             PROVE  ~Counts(R[j])
  OBVIOUS
<1>1. i \in Nat /\ k \in Nat /\ j \in Nat BY DEF Lacks
<1>2. Place(i, k) \in DOMAIN Q /\ Place(i, j) \in DOMAIN Q /\ Place(i, j) < Place(i, k)
  BY <1>1 DEF Lacks, Place
<1> QED BY <1>2 DEF Lacks, Counts

\* A list of models, of which the first is taken if it was asked for to choose from.
LEMMA ModelsAnswerStep ==
  ASSUME ChoiceConstants, ChoiceInv, NEW i \in DOMAIN asked.dialog, Choice!ModelsAnswer(i)
  PROVE  ChoiceInv'
<1> DEFINE q == asked.dialog[i]
<1>1. /\ asked.page \in Seq(Asks) /\ asked.dialog \in Seq(Asks) /\ q \in Asks
      /\ strayed \in [page : BOOLEAN, dialog : BOOLEAN]
      /\ q.what = "models" /\ dialog # None /\ dialog \in ChoiceDialogs
  <2>1. asked.dialog # <<>> OBVIOUS
  <2> QED BY <2>1 DEF ChoiceInv, ChoiceTypes, Choice!ModelsAnswer
<1>2. /\ Lacks(asked'.dialog, asked.dialog, i) /\ asked'.page = asked.page
      /\ asked' \in [page : Seq(Asks), dialog : Seq(Asks)]
  <2>1. Lacks(Choice!Without(asked.dialog, i), asked.dialog, i) BY <1>1, WithoutOne
  <2> QED BY <1>1, <2>1 DEF Choice!ModelsAnswer, ChoiceInv, ChoiceTypes, Lacks
<1>3. /\ strayed'.page = strayed.page
      /\ strayed'.dialog = (strayed.dialog \/ q.late)
      /\ strayed' \in [page : BOOLEAN, dialog : BOOLEAN]
  BY <1>1 DEF Choice!ModelsAnswer, Choice!Overtaken, Asks
<1>4. /\ dialog' \in ChoiceDialogs /\ dialog' # None
      /\ dialog'.type = dialog.type /\ dialog'.provider = dialog.provider
      /\ dialog'.list = q.owner
      /\ q.pick /\ Choice!ModelsOf(q.owner) # {} =>
           dialog'.id \in Choice!ModelsOf(q.owner) /\ dialog'.config = dialog'.id
      /\ ~q.pick => dialog'.id = dialog.id /\ dialog'.config = dialog.config
  <2> DEFINE here == [dialog EXCEPT !.list = q.owner]
             take == q.pick /\ ((Balancing /\ q.owner # Local) \/ Choice!ModelsOf(q.owner) # {})
  <2>1. dialog' = IF take THEN Choice!With(here, Choice!Default(q.owner)) ELSE here
    BY DEF Choice!ModelsAnswer
  <2>2. /\ here \in ChoiceDialogs /\ here.type = dialog.type /\ here.provider = dialog.provider
        /\ here.list = q.owner /\ here.id = dialog.id /\ here.config = dialog.config
    BY <1>1 DEF ChoiceDialogs, Asks
  <2> HIDE DEF here
  <2>3. ASSUME NEW m \in Models \cup {None}
        PROVE  /\ Choice!With(here, m) \in ChoiceDialogs
               /\ Choice!With(here, m).type = here.type /\ Choice!With(here, m).provider = here.provider
               /\ Choice!With(here, m).list = here.list
               /\ Choice!With(here, m).id = m /\ Choice!With(here, m).config = m
    BY <2>2 DEF Choice!With, ChoiceDialogs
  <2>4. CASE take
    BY <2>1, <2>2, <2>3, <2>4, DefaultModel DEF ChoiceConstants
  <2>5. CASE ~take
    BY <2>1, <2>2, <2>5 DEF ChoiceConstants
  <2> QED BY <2>4, <2>5
<1>5. Choice!Chosen(dialog') = Choice!Chosen(dialog) BY <1>4 DEF Choice!Chosen
<1>6. llm' = llm BY DEF Choice!ModelsAnswer
<1>7. ChoiceTypes' BY <1>2, <1>3, <1>4, <1>6 DEF ChoiceInv, ChoiceTypes
<1>8. PageAsks' /\ PageFits'
  <2>1. \A j \in DOMAIN asked.page : ~asked.page[j].pick BY <1>1 DEF ChoiceInv, PageAsks
  <2> QED BY <1>1, <1>2, <1>3, <1>6, <2>1 DEF ChoiceInv, PageAsks, PageFits, Choice!Fits,
             Choice!Chosen, Choice!ModelsOf
<1>9. FirstAsked'
  BY <1>1, <1>2, RestFirst DEF ChoiceInv, FirstAsked
<1>10. DialogFits'
  <2> SUFFICES ASSUME ~strayed'.dialog PROVE DialogFits'
    BY DEF DialogFits
  <2>1. ~strayed.dialog /\ ~q.late BY <1>3
  <2>2. ASSUME NEW j \in DOMAIN asked'.dialog, Latest(asked'.dialog, j)
        PROVE  Brings(asked'.dialog[j], dialog')
    <3> SUFFICES ASSUME ~asked'.dialog[j].late PROVE Brings(asked'.dialog[j], dialog')
      BY DEF Brings
    <3>1. /\ j + 1 \in DOMAIN asked.dialog /\ i < j + 1 /\ Latest(asked.dialog, j + 1)
          /\ asked'.dialog[j].what = asked.dialog[j + 1].what
          /\ asked'.dialog[j].owner = asked.dialog[j + 1].owner
          /\ asked'.dialog[j].pick = asked.dialog[j + 1].pick
          /\ asked'.dialog[j].late = asked.dialog[j + 1].late
      BY <2>2, <1>1, <1>2, RestLatest
    <3>2. Brings(asked.dialog[j + 1], dialog)
      BY <3>1, <2>1, <1>1 DEF ChoiceInv, DialogFits
    <3>3. asked.dialog[j + 1].what = "models" => asked.dialog[j + 1].pick
      BY <3>1, <1>1 DEF ChoiceInv, FirstAsked, Counts
    <3> QED BY <3>1, <3>2, <3>3, <1>4, <1>5 DEF Brings
  <2>3. ASSUME \A j \in DOMAIN asked'.dialog : ~Counts(asked'.dialog[j])
        PROVE  Choice!Fits(dialog') /\ dialog'.list = Choice!Chosen(dialog')
    <3>1. \A k \in DOMAIN asked.dialog : k # i => ~Counts(asked.dialog[k])
      BY <2>3, <1>1, <1>2, RestNone
    <3>2. Latest(asked.dialog, i)
      BY <3>1, <1>1 DEF Latest, Counts
    <3>3. Brings(q, dialog)
      BY <3>2, <2>1, <1>1 DEF ChoiceInv, DialogFits
    <3>4. q.owner = Choice!Chosen(dialog) /\ (q.pick \/ Choice!Fits(dialog))
      BY <3>3, <2>1, <1>1 DEF Brings
    <3> QED BY <3>4, <1>4, <1>5 DEF Choice!Fits
  <2> QED BY <2>2, <2>3 DEF DialogFits, Counts, Latest
<1> QED BY <1>4, <1>7, <1>8, <1>9, <1>10 DEF ChoiceInv

LEMMA ProvidersAnswerStep ==
  ASSUME ChoiceConstants, ChoiceInv, NEW i \in DOMAIN asked.dialog, Choice!ProvidersAnswer(i)
  PROVE  ChoiceInv'
<1> DEFINE q == asked.dialog[i]
           picks == q.pick /\ Providers # {}
           R == Choice!Without(asked.dialog, i)
           p == Choice!FirstOf(Providers)
           new == Choice!AskModels(p, TRUE)
<1>1. /\ asked.page \in Seq(Asks) /\ asked.dialog \in Seq(Asks) /\ q \in Asks
      /\ strayed \in [page : BOOLEAN, dialog : BOOLEAN]
      /\ q.what = "providers" /\ dialog # None /\ dialog \in ChoiceDialogs
  <2>1. asked.dialog # <<>> OBVIOUS
  <2> QED BY <2>1 DEF ChoiceInv, ChoiceTypes, Choice!ProvidersAnswer
<1>2. Lacks(R, asked.dialog, i) /\ R \in Seq(Asks)
  BY <1>1, WithoutOne DEF Lacks
<1>3. /\ strayed'.page = strayed.page
      /\ ~strayed'.dialog =>
           /\ ~strayed.dialog /\ (q.pick => ~q.late /\ dialog.type # "local")
      /\ strayed' \in [page : BOOLEAN, dialog : BOOLEAN]
  BY <1>1 DEF Choice!ProvidersAnswer, Choice!Overtaken, Asks
<1>4. /\ dialog' \in ChoiceDialogs /\ dialog' # None
      /\ dialog'.type = dialog.type /\ dialog'.provider = IF picks THEN p ELSE dialog.provider
      /\ dialog'.list = dialog.list /\ dialog'.id = dialog.id /\ dialog'.config = dialog.config
  <2>1. p \in Providers \cup {None} BY FirstInside
  <2>2. dialog' = [dialog EXCEPT !.providers = TRUE, !.provider = IF picks THEN p ELSE @]
    BY DEF Choice!ProvidersAnswer
  <2> HIDE DEF p, picks
  <2>3. dialog' \in ChoiceDialogs /\ dialog'.type = dialog.type
        /\ dialog'.provider = (IF picks THEN p ELSE dialog.provider)
        /\ dialog'.list = dialog.list /\ dialog'.id = dialog.id /\ dialog'.config = dialog.config
    BY <1>1, <2>1, <2>2 DEF ChoiceDialogs
  <2> QED BY <2>3 DEF ChoiceConstants
<1>5. asked'.page = asked.page /\ asked'.dialog = IF picks THEN Append(R, new) ELSE R
  BY DEF Choice!ProvidersAnswer, ChoiceInv, ChoiceTypes
<1>6. /\ new \in Asks /\ new.what = "models" /\ new.owner = p /\ new.pick /\ ~new.late
      /\ picks => p \in Providers
  <2>1. p \in Sources \cup {None} BY FirstInside DEF Sources
  <2> QED BY <2>1, FirstInside, AsksType DEF Choice!AskModels, Choice!Ask
<1>7. llm' = llm BY DEF Choice!ProvidersAnswer
<1> HIDE DEF picks, R, p, new
<1>8. ChoiceTypes'
  <2>1. asked' \in [page : Seq(Asks), dialog : Seq(Asks)]
    <3>1. asked'.dialog \in Seq(Asks) BY <1>2, <1>5, <1>6
    <3>2. asked' = [asked EXCEPT !.dialog = asked'.dialog]
      BY DEF Choice!ProvidersAnswer, ChoiceInv, ChoiceTypes
    <3> QED BY <1>1, <3>1, <3>2 DEF ChoiceInv, ChoiceTypes
  <2> QED BY <2>1, <1>3, <1>4, <1>7 DEF ChoiceInv, ChoiceTypes
<1>9. PageAsks' /\ PageFits'
  <2>1. \A j \in DOMAIN asked.page : ~asked.page[j].pick BY <1>1 DEF ChoiceInv, PageAsks
  <2> QED BY <1>1, <1>3, <1>5, <1>7, <2>1
          DEF ChoiceInv, PageAsks, PageFits, Choice!Fits, Choice!Chosen, Choice!ModelsOf
<1>10. \A k \in DOMAIN R : R[k].what = "models" /\ ~R[k].pick =>
            \A j \in DOMAIN R : j < k => ~Counts(R[j])
  BY <1>1, <1>2, RestFirst DEF ChoiceInv, FirstAsked
<1>11. CASE picks
  <2>1. /\ Len(asked'.dialog) = Len(R) + 1 /\ asked'.dialog[Len(R) + 1] = new
        /\ DOMAIN asked'.dialog = 1 .. Len(R) + 1
        /\ \A j \in 1 .. Len(R) : asked'.dialog[j] = R[j]
    BY <1>2, <1>5, <1>11
  <2>2. FirstAsked'
    BY <2>1, <1>2, <1>6, <1>10 DEF FirstAsked, Counts
  <2>3. Counts(asked'.dialog[Len(R) + 1]) BY <2>1, <1>6 DEF Counts
  <2>4. DialogFits'
    <3> SUFFICES ASSUME ~strayed'.dialog,
                        NEW j \in DOMAIN asked'.dialog, Latest(asked'.dialog, j)
                 PROVE  Brings(asked'.dialog[j], dialog')
      BY <1>2, <2>1, <2>3 DEF DialogFits, Counts, Latest
    <3>1. j = Len(R) + 1
      BY <1>2, <2>1, <2>3 DEF Latest
    <3>2. dialog.type = "online"
      BY <1>1, <1>3, <1>11 DEF ChoiceDialogs, Kind, picks
    <3>3. Choice!Chosen(dialog') = p
      BY <3>2, <1>4, <1>11 DEF Choice!Chosen
    <3> QED BY <3>1, <3>3, <2>1, <1>6 DEF Brings
  <2> QED BY <1>4, <1>8, <1>9, <2>2, <2>4 DEF ChoiceInv
<1>12. CASE ~picks
  <2>1. asked'.dialog = R BY <1>5, <1>12
  <2>2. FirstAsked' BY <2>1, <1>10 DEF FirstAsked, Counts
  <2>3. Choice!Chosen(dialog') = Choice!Chosen(dialog) /\ (Choice!Fits(dialog') <=> Choice!Fits(dialog))
    BY <1>4, <1>12 DEF Choice!Chosen, Choice!Fits
  <2>4. DialogFits'
    <3> SUFFICES ASSUME ~strayed'.dialog PROVE DialogFits'
      BY DEF DialogFits
    <3>1. ASSUME NEW j \in DOMAIN R, Latest(R, j)
          PROVE  Brings(R[j], dialog')
      <4> SUFFICES ASSUME ~R[j].late PROVE Brings(R[j], dialog')
        BY DEF Brings
      <4>1. /\ j + 1 \in DOMAIN asked.dialog /\ Latest(asked.dialog, j + 1)
            /\ R[j].what = asked.dialog[j + 1].what
            /\ R[j].owner = asked.dialog[j + 1].owner
            /\ R[j].pick = asked.dialog[j + 1].pick
            /\ R[j].late = asked.dialog[j + 1].late
        BY <3>1, <1>1, <1>2, RestLatest
      <4>2. Brings(asked.dialog[j + 1], dialog)
        BY <4>1, <1>1, <1>3 DEF ChoiceInv, DialogFits
      <4> QED BY <4>1, <4>2, <2>3, <1>4 DEF Brings
    <3>2. ASSUME \A j \in DOMAIN R : ~Counts(R[j])
          PROVE  Choice!Fits(dialog') /\ (Choice!Chosen(dialog') # None => dialog'.list = Choice!Chosen(dialog'))
      <4>1. \A k \in DOMAIN asked.dialog : k # i => ~Counts(asked.dialog[k])
        BY <3>2, <1>1, <1>2, RestNone
      <4>2. CASE q.pick
        <5>1. dialog.type = "online" /\ Providers = {}
          BY <4>2, <1>1, <1>3, <1>12 DEF ChoiceDialogs, Kind, picks
        <5>2. Choice!Chosen(dialog) = None BY <5>1, <1>1 DEF Choice!Chosen, ChoiceDialogs
        <5> QED BY <5>2, <2>3, NobodysModels DEF Choice!Fits
      <4>3. CASE ~q.pick
        <5>1. \A k \in DOMAIN asked.dialog : ~Counts(asked.dialog[k])
          BY <4>1, <4>3, <1>1 DEF Counts
        <5> QED BY <5>1, <2>3, <1>1, <1>3, <1>4 DEF ChoiceInv, DialogFits
      <4> QED BY <4>2, <4>3, <1>1 DEF Asks
    <3> QED BY <3>1, <3>2, <2>1 DEF DialogFits, Counts, Latest
  <2> QED BY <1>4, <1>8, <1>9, <2>2, <2>4 DEF ChoiceInv
<1> QED BY <1>11, <1>12

-----------------------------------------------------------------------------
(* What the user does.                                                     *)

LEMMA DialogAsks ==
  ASSUME ChoiceTypes, NEW Q \in Seq(Asks), asked' = [asked EXCEPT !.dialog = Q]
  PROVE  /\ asked'.page = asked.page /\ asked'.dialog = Q
         /\ asked' \in [page : Seq(Asks), dialog : Seq(Asks)]
BY DEF ChoiceTypes

\* A dialog in which everything waits for the request that is sent now.
LEMMA AskedLast ==
  ASSUME ChoiceConstants, ChoiceInv, dialog # None,
         NEW d \in ChoiceDialogs, dialog' = d,
         NEW new \in Asks, Choice!Send(new), new.pick, Brings(new, d),
         UNCHANGED <<llm, strayed>>
  PROVE  ChoiceInv'
<1>1. /\ asked.page \in Seq(Asks) /\ asked.dialog \in Seq(Asks)
      /\ asked'.page = asked.page /\ asked'.dialog = Append(asked.dialog, new)
      /\ asked' \in [page : Seq(Asks), dialog : Seq(Asks)]
  <2>1. asked.page \in Seq(Asks) /\ asked.dialog \in Seq(Asks) BY DEF ChoiceInv, ChoiceTypes
  <2>2. Append(asked.dialog, new) \in Seq(Asks) BY <2>1
  <2>3. asked' = [asked EXCEPT !.dialog = Append(asked.dialog, new)] BY DEF Choice!Send
  <2> QED BY <2>1, <2>2, <2>3, DialogAsks DEF ChoiceInv
<1>2. ChoiceTypes' BY <1>1 DEF ChoiceInv, ChoiceTypes
<1>3. PageAsks' /\ PageFits'
  <2>1. \A j \in DOMAIN asked.page : ~asked.page[j].pick BY <1>1 DEF ChoiceInv, PageAsks
  <2> QED BY <1>1, <2>1 DEF ChoiceInv, PageAsks, PageFits, Choice!Fits, Choice!Chosen,
             Choice!ModelsOf
<1>4. /\ DOMAIN asked'.dialog = 1 .. Len(asked.dialog) + 1
      /\ DOMAIN asked.dialog = 1 .. Len(asked.dialog) /\ Len(asked.dialog) \in Nat
      /\ asked'.dialog[Len(asked.dialog) + 1] = new
      /\ \A j \in DOMAIN asked.dialog : asked'.dialog[j] = asked.dialog[j]
  BY <1>1
<1>5. FirstAsked'
  <2> SUFFICES ASSUME NEW k \in DOMAIN asked'.dialog, NEW j \in DOMAIN asked'.dialog, j < k,
                      asked'.dialog[k].what = "models", ~asked'.dialog[k].pick
               PROVE  ~Counts(asked'.dialog[j])
    BY DEF FirstAsked, Counts
  <2>1. k \in DOMAIN asked.dialog BY <1>4
  <2>2. j \in DOMAIN asked.dialog BY <1>4, <2>1
  <2> QED BY <1>4, <2>1, <2>2 DEF ChoiceInv, FirstAsked, Counts
<1>6. DialogFits'
  <2>1. Counts(asked'.dialog[Len(asked.dialog) + 1]) BY <1>4 DEF Counts
  <2>2. ASSUME NEW j \in DOMAIN asked'.dialog, Latest(asked'.dialog, j)
        PROVE  Brings(asked'.dialog[j], dialog')
    <3>1. j = Len(asked.dialog) + 1 BY <2>1, <2>2, <1>4 DEF Latest
    <3> QED BY <3>1, <1>4
  <2> QED BY <2>1, <2>2, <1>4 DEF DialogFits, Latest, Counts
<1> QED BY <1>2, <1>3, <1>5, <1>6 DEF ChoiceInv, ChoiceConstants

LEMMA DialogType ==
  ASSUME NEW type \in Kind, NEW o \in Providers \cup {None},
         NEW id \in Models \cup {None}, NEW config \in Models \cup {None}
  PROVE  /\ Choice!Dialog(type, o, id, config) \in ChoiceDialogs
         /\ Choice!Dialog(type, o, id, config).type = type
         /\ Choice!Dialog(type, o, id, config).provider = o
         /\ Choice!Dialog(type, o, id, config).id = id
         /\ Choice!Dialog(type, o, id, config).config = config
         /\ Choice!Dialog(type, o, id, config).list = None
BY DEF Choice!Dialog, ChoiceDialogs

LEMMA ChangeTypeStep ==
  ASSUME ChoiceConstants, ChoiceInv, NEW type \in Kind, Choice!ChangeType(type)
  PROVE  ChoiceInv'
<1> DEFINE d == Choice!Dialog(type, None, None, None)
           new == IF type = "online" THEN Choice!AskProviders(TRUE) ELSE Choice!AskModels(Local, TRUE)
<1>1. d \in ChoiceDialogs /\ d.type = type BY DialogType
<1>2. new \in Asks /\ new.pick BY AsksType DEF Sources, Choice!AskProviders, Choice!AskModels,
                                  Choice!Ask
<1>3. Brings(new, d)
  BY <1>1 DEF Brings, Kind, Choice!AskProviders, Choice!AskModels, Choice!Ask, Choice!Chosen
<1>4. dialog # None /\ dialog' = d /\ Choice!Send(new) /\ UNCHANGED <<llm, strayed>>
  BY DEF Choice!ChangeType
<1> HIDE DEF d, new
<1> QED BY <1>1, <1>2, <1>3, <1>4, AskedLast

LEMMA ChooseProviderStep ==
  ASSUME ChoiceConstants, ChoiceInv, NEW p \in Providers, Choice!ChooseProvider(p)
  PROVE  ChoiceInv'
<1> DEFINE d == [dialog EXCEPT !.provider = p]
           new == Choice!AskModels(p, TRUE)
<1>1. d \in ChoiceDialogs /\ d.type = "online" /\ d.provider = p
  BY DEF Choice!ChooseProvider, ChoiceInv, ChoiceTypes, ChoiceDialogs
<1>2. new \in Asks /\ new.pick BY AsksType DEF Sources, Choice!AskModels, Choice!Ask
<1>3. Brings(new, d)
  BY <1>1 DEF Brings, Choice!AskModels, Choice!Ask, Choice!Chosen
<1>4. dialog # None /\ dialog' = d /\ Choice!Send(new) /\ UNCHANGED <<llm, strayed>>
  BY DEF Choice!ChooseProvider
<1> HIDE DEF d, new
<1> QED BY <1>1, <1>2, <1>3, <1>4, AskedLast

LEMMA ChooseModelStep ==
  ASSUME ChoiceConstants, ChoiceInv, NEW m \in Models, Choice!ChooseModel(m)
  PROVE  ChoiceInv'
<1>1. /\ dialog # None /\ dialog \in ChoiceDialogs /\ m \in Choice!ModelsOf(dialog.list)
      /\ dialog.list # None
  BY NobodysModels DEF Choice!ChooseModel, ChoiceInv, ChoiceTypes
<1>2. /\ dialog' \in ChoiceDialogs /\ dialog' # None
      /\ dialog'.type = dialog.type /\ dialog'.provider = dialog.provider
      /\ dialog'.list = dialog.list /\ dialog'.id = m /\ dialog'.config = m
  BY <1>1 DEF Choice!ChooseModel, Choice!With, ChoiceDialogs, ChoiceConstants
<1>3. Choice!Chosen(dialog') = Choice!Chosen(dialog) BY <1>2 DEF Choice!Chosen
<1>4. ChoiceTypes' BY <1>2 DEF Choice!ChooseModel, ChoiceInv, ChoiceTypes
<1>5. PageAsks' /\ PageFits'
  <2>1. \A j \in DOMAIN asked.page : ~asked.page[j].pick BY <1>1 DEF ChoiceInv, PageAsks
  <2> QED BY <2>1, <1>1 DEF Choice!ChooseModel, ChoiceInv, PageAsks, PageFits, Choice!Fits,
             Choice!Chosen, Choice!ModelsOf
<1>6. FirstAsked' BY DEF Choice!ChooseModel, ChoiceInv, FirstAsked, Counts
<1>7. DialogFits'
  <2> SUFFICES ASSUME ~strayed.dialog PROVE DialogFits'
    BY DEF DialogFits, Choice!ChooseModel
  <2>1. ASSUME NEW j \in DOMAIN asked.dialog, Latest(asked.dialog, j)
        PROVE  Brings(asked.dialog[j], dialog')
    <3>1. Brings(asked.dialog[j], dialog) BY <2>1, <1>1 DEF ChoiceInv, DialogFits
    <3> QED BY <3>1, <1>1, <1>2, <1>3 DEF Brings
  <2>2. ASSUME \A j \in DOMAIN asked.dialog : ~Counts(asked.dialog[j])
        PROVE  Choice!Fits(dialog') /\ (Choice!Chosen(dialog') # None => dialog'.list = Choice!Chosen(dialog'))
    <3>1. Choice!Fits(dialog) /\ (Choice!Chosen(dialog) # None => dialog.list = Choice!Chosen(dialog))
      BY <2>2, <1>1 DEF ChoiceInv, DialogFits
    <3> QED BY <3>1, <1>1, <1>2, <1>3, NobodysModels DEF Choice!Fits
  <2> QED BY <2>1, <2>2 DEF DialogFits, Choice!ChooseModel, Latest, Counts
<1> QED BY <1>2, <1>4, <1>5, <1>6, <1>7 DEF ChoiceInv

LEMMA OpenForBalanceStep == ChoiceConstants /\ ChoiceInv /\ Choice!OpenForBalance => ChoiceInv'
<1> SUFFICES ASSUME ChoiceConstants, ChoiceInv, Choice!OpenForBalance PROVE ChoiceInv'
  OBVIOUS
<1> DEFINE d == Choice!Dialog("online", None, None, None)
           new == Choice!AskProviders(TRUE)
<1>1. d \in ChoiceDialogs /\ d # None /\ d.type = "online"
  BY DialogType DEF Kind, ChoiceConstants
<1>2. new \in Asks /\ new.pick /\ new.what = "providers"
  BY AsksType DEF Choice!AskProviders, Choice!Ask
<1>3. /\ asked.dialog = <<>> /\ asked'.page = asked.page /\ asked'.dialog = <<new>>
      /\ asked' \in [page : Seq(Asks), dialog : Seq(Asks)]
  <2>1. asked.dialog = <<>> /\ asked' = [asked EXCEPT !.dialog = Append(asked.dialog, new)]
    BY DEF Choice!OpenForBalance, Choice!Send, ChoiceInv
  <2> HIDE DEF new
  <2>2. Append(asked.dialog, new) = <<new>> /\ <<new>> \in Seq(Asks) BY <1>2, <2>1
  <2> QED BY <2>1, <2>2, DialogAsks DEF ChoiceInv
<1>4. strayed' \in [page : BOOLEAN, dialog : BOOLEAN] /\ strayed'.page = strayed.page
      /\ llm' = llm /\ dialog' = d /\ Balancing
  BY DEF Choice!OpenForBalance, ChoiceInv, ChoiceTypes
<1> HIDE DEF d, new
<1>5. ChoiceTypes' BY <1>1, <1>3, <1>4 DEF ChoiceInv, ChoiceTypes
<1>6. PageAsks' /\ PageFits'
  <2>1. asked.page = <<>> BY <1>4 DEF ChoiceInv, PageAsks
  <2> QED BY <2>1, <1>3, <1>4 DEF ChoiceInv, PageAsks, PageFits, Choice!Fits, Choice!Chosen,
             Choice!ModelsOf
<1>7. FirstAsked' /\ DialogFits'
  BY <1>1, <1>2, <1>3, <1>4 DEF FirstAsked, DialogFits, Brings, Latest, Counts
<1> QED BY <1>1, <1>4, <1>5, <1>6, <1>7 DEF ChoiceInv

LEMMA OpenForRouteStep == ChoiceConstants /\ ChoiceInv /\ Choice!OpenForRoute => ChoiceInv'
<1> SUFFICES ASSUME ChoiceConstants, ChoiceInv, Choice!OpenForRoute PROVE ChoiceInv'
  OBVIOUS
<1> DEFINE d == Choice!Dialog(llm.type, llm.provider, llm.id, llm.config)
           first == Choice!AskProviders(FALSE)
           online == Choice!AskModels(llm.provider, FALSE)
           local == Choice!AskModels(Local, FALSE)
<1>1. llm # None /\ llm \in Picked /\ ~Balancing
  BY DEF Choice!OpenForRoute, ChoiceInv, ChoiceTypes
<1>2. /\ d \in ChoiceDialogs /\ d # None /\ d.type = llm.type /\ d.provider = llm.provider
      /\ d.id = llm.id /\ d.config = llm.config /\ d.list = None
  <2>1. /\ llm.type \in Kind /\ llm.provider \in Providers \cup {None}
        /\ llm.id \in Models \cup {None} /\ llm.config \in Models \cup {None}
    BY <1>1 DEF Picked
  <2>2. /\ d \in ChoiceDialogs /\ d.type = llm.type /\ d.provider = llm.provider
        /\ d.id = llm.id /\ d.config = llm.config /\ d.list = None
    BY <2>1 DEF Choice!Dialog, ChoiceDialogs
  <2> HIDE DEF d
  <2> QED BY <2>2 DEF ChoiceConstants
<1>3. /\ first \in Asks /\ ~first.pick /\ first.what = "providers"
      /\ online \in Asks /\ ~online.pick /\ online.what = "models" /\ online.owner = llm.provider
      /\ local \in Asks /\ ~local.pick /\ local.what = "models" /\ local.owner = Local
  BY <1>1, AsksType DEF Choice!AskProviders, Choice!AskModels, Choice!Ask, Sources, Picked
<1>4. /\ asked'.page = asked.page
      /\ asked'.dialog = IF llm.type = "online" THEN <<first, online>> ELSE <<local>>
  BY DEF Choice!OpenForRoute, ChoiceInv, ChoiceTypes
<1>5. strayed' \in [page : BOOLEAN, dialog : BOOLEAN] /\ strayed'.page = strayed.page
      /\ strayed'.dialog = strayed.page /\ llm' = llm /\ dialog' = d
  BY DEF Choice!OpenForRoute, ChoiceInv, ChoiceTypes
<1>6. asked' \in [page : Seq(Asks), dialog : Seq(Asks)]
  <2>1. asked'.dialog \in Seq(Asks)
    <3> HIDE DEF first, online, local
    <3> QED BY <1>3, <1>4
  <2>2. asked' = [asked EXCEPT !.dialog = asked'.dialog]
    BY DEF Choice!OpenForRoute, ChoiceInv, ChoiceTypes
  <2> QED BY <2>1, <2>2 DEF ChoiceInv, ChoiceTypes
<1> HIDE DEF d, first, online, local
<1>7. ChoiceTypes' BY <1>1, <1>2, <1>5, <1>6 DEF ChoiceInv, ChoiceTypes
<1>8. PageAsks' /\ PageFits'
  <2>1. \A j \in DOMAIN asked.page : ~asked.page[j].pick BY <1>1 DEF ChoiceInv, PageAsks
  <2> QED BY <2>1, <1>1, <1>4, <1>5
          DEF ChoiceInv, PageAsks, PageFits, Choice!Fits, Choice!Chosen, Choice!ModelsOf
<1>9. ~strayed'.dialog => Choice!Fits(d)
  BY <1>1, <1>2, <1>5 DEF ChoiceInv, PageFits, Choice!Fits, Choice!Chosen
<1>10. CASE llm.type = "online"
  <2>1. asked'.dialog = <<first, online>> BY <1>4, <1>10
  <2>2. DOMAIN asked'.dialog = 1 .. 2 /\ asked'.dialog[1] = first /\ asked'.dialog[2] = online
    BY <2>1
  <2>3. ~Counts(first) /\ Counts(online) BY <1>3 DEF Counts
  <2>4. FirstAsked' BY <2>2, <2>3, <1>3 DEF FirstAsked, Counts
  <2>5. ~strayed'.dialog => Brings(online, d)
    BY <1>2, <1>3, <1>9, <1>10 DEF Brings, Choice!Chosen
  <2>6. DialogFits' BY <2>2, <2>3, <2>5, <1>5 DEF DialogFits, Latest, Counts, Brings
  <2> QED BY <1>2, <1>5, <1>7, <1>8, <2>4, <2>6 DEF ChoiceInv
<1>11. CASE llm.type # "online"
  <2>1. asked'.dialog = <<local>> BY <1>4, <1>11
  <2>2. DOMAIN asked'.dialog = {1} /\ asked'.dialog[1] = local
    BY <2>1
  <2>3. Counts(local) BY <1>3 DEF Counts
  <2>4. FirstAsked' BY <2>2, <1>3 DEF FirstAsked, Counts
  <2>5. ~strayed'.dialog => Brings(local, d)
    BY <1>1, <1>2, <1>3, <1>9, <1>11 DEF Brings, Choice!Chosen, Picked, Kind
  <2>6. DialogFits' BY <2>2, <2>3, <2>5, <1>5 DEF DialogFits, Latest, Counts, Brings
  <2> QED BY <1>2, <1>5, <1>7, <1>8, <2>4, <2>6 DEF ChoiceInv
<1> QED BY <1>10, <1>11

LEMMA CancelStep == ChoiceConstants /\ ChoiceInv /\ Choice!Cancel => ChoiceInv'
<1> SUFFICES ASSUME ChoiceConstants, ChoiceInv, Choice!Cancel PROVE ChoiceInv'
  OBVIOUS
<1>1. /\ asked'.page = asked.page /\ asked'.dialog = <<>>
      /\ asked' \in [page : Seq(Asks), dialog : Seq(Asks)]
      /\ dialog' = None /\ llm' = llm /\ strayed' = strayed
  BY DEF Choice!Cancel, Choice!Closed, ChoiceInv, ChoiceTypes
<1>2. ChoiceTypes' BY <1>1 DEF ChoiceInv, ChoiceTypes
<1>3. PageAsks' /\ PageFits'
  BY <1>1 DEF ChoiceInv, PageAsks, PageFits, Choice!Fits, Choice!Chosen, Choice!ModelsOf
<1> QED BY <1>1, <1>2, <1>3 DEF ChoiceInv, FirstAsked, DialogFits

\* A choice of which nothing doubtful is known belongs together.
LEMMA SubmittedFits ==
  ASSUME ChoiceInv, dialog # None, ~Choice!Doubtful
  PROVE  Choice!Fits(dialog) /\ Choice!ModelsOf(Choice!Chosen(dialog)) # {}
<1>1. asked.dialog = <<>> /\ ~strayed.dialog /\ Choice!ModelsOf(Choice!Chosen(dialog)) # {}
  BY DEF Choice!Doubtful, Choice!Waits
<1> QED BY <1>1 DEF ChoiceInv, DialogFits, Counts

LEMMA SubmitRouteStep == ChoiceConstants /\ ChoiceInv /\ Choice!SubmitRoute => ChoiceInv'
<1> SUFFICES ASSUME ChoiceConstants, ChoiceInv, Choice!SubmitRoute PROVE ChoiceInv'
  OBVIOUS
<1> DEFINE new == Choice!AskModels(Choice!Chosen(dialog), FALSE)
<1>1. ~Balancing /\ dialog # None /\ dialog \in ChoiceDialogs /\ llm \in Picked /\ Choice!Chosen(dialog) # None
  BY DEF Choice!SubmitRoute, Choice!Complete, ChoiceInv, ChoiceTypes, PageAsks
<1>2. /\ llm' \in Picked /\ llm'.type = dialog.type /\ llm'.provider = dialog.provider
      /\ llm'.id = dialog.id /\ llm'.config = dialog.config
  BY <1>1 DEF Choice!SubmitRoute, Picked, ChoiceDialogs
<1>3. Choice!Chosen(dialog) \in Sources
  BY <1>1 DEF Choice!Chosen, ChoiceDialogs, Sources
<1>4. new \in Asks /\ ~new.pick /\ new.what = "models" /\ new.owner = Choice!Chosen(dialog)
  BY <1>3, AsksType DEF Choice!AskModels, Choice!Ask
<1>5. asked.page \in Seq(Asks) /\ \A j \in DOMAIN asked.page : ~asked.page[j].pick
  BY <1>1 DEF ChoiceInv, ChoiceTypes, PageAsks
<1>6. /\ asked' = [page |-> Append(asked.page, new), dialog |-> <<>>]
      /\ dialog' = None
      /\ strayed' \in [page : BOOLEAN, dialog : BOOLEAN] /\ strayed'.page = Choice!Doubtful
  BY DEF Choice!SubmitRoute, Choice!Closed, ChoiceInv, ChoiceTypes, Choice!Doubtful, Choice!Waits
<1> HIDE DEF new
<1>7. /\ asked'.page = Append(asked.page, new) /\ asked'.dialog = <<>>
      /\ asked' \in [page : Seq(Asks), dialog : Seq(Asks)]
  BY <1>4, <1>5, <1>6
<1>8. /\ DOMAIN asked'.page = 1 .. Len(asked.page) + 1
      /\ DOMAIN asked.page = 1 .. Len(asked.page) /\ Len(asked.page) \in Nat
      /\ asked'.page[Len(asked.page) + 1] = new
      /\ \A j \in DOMAIN asked.page : asked'.page[j] = asked.page[j]
  BY <1>4, <1>5, <1>7
<1>9. ChoiceTypes' BY <1>2, <1>6, <1>7 DEF ChoiceTypes
<1>10. PageAsks'
  <2>1. \A j \in DOMAIN asked'.page : /\ ~asked'.page[j].pick /\ asked'.page[j].what = "models"
                                      /\ asked'.page[j].owner \in Sources
    BY <1>3, <1>4, <1>5, <1>8 DEF ChoiceInv, PageAsks
  <2> QED BY <2>1, <1>1, <1>2, <1>6 DEF PageAsks
<1>11. PageFits'
  <2> SUFFICES ASSUME ~strayed'.page PROVE PageFits'
    BY DEF PageFits
  <2>1. Choice!Fits(dialog) /\ Choice!ModelsOf(Choice!Chosen(dialog)) # {}
    BY <1>1, <1>6, SubmittedFits
  <2>2. Choice!Chosen(llm') = Choice!Chosen(dialog) BY <1>2 DEF Choice!Chosen
  <2>3. Choice!Fits(llm') /\ llm'.id \in Choice!ModelsOf(Choice!Chosen(llm'))
    BY <1>2, <2>1, <2>2 DEF Choice!Fits
  <2>4. ASSUME NEW j \in DOMAIN asked'.page, \A k \in DOMAIN asked'.page : k <= j
        PROVE  asked'.page[j].owner = Choice!Chosen(llm')
    <3>1. Len(asked.page) + 1 \in DOMAIN asked'.page BY <1>8
    <3>2. Len(asked.page) + 1 <= j BY <3>1, <2>4
    <3>3. j = Len(asked.page) + 1 BY <3>2, <1>8
    <3> QED BY <3>3, <1>4, <1>8, <2>2
  <2>5. asked'.page # <<>> BY <1>8
  <2> QED BY <2>3, <2>4, <2>5 DEF PageFits, Choice!Fits, Choice!Chosen, Choice!ModelsOf
<1> QED BY <1>6, <1>7, <1>9, <1>10, <1>11 DEF ChoiceInv, FirstAsked, DialogFits

LEMMA SubmitBalanceStep == ChoiceConstants /\ ChoiceInv /\ Choice!SubmitBalance => ChoiceInv'
<1> SUFFICES ASSUME ChoiceConstants, ChoiceInv, Choice!SubmitBalance PROVE ChoiceInv'
  OBVIOUS
<1>1. Balancing /\ dialog # None /\ dialog \in ChoiceDialogs /\ asked.page = <<>>
  BY DEF Choice!SubmitBalance, Choice!Complete, ChoiceInv, ChoiceTypes, PageAsks
<1>2. /\ llm' \in Picked /\ llm'.type = dialog.type /\ llm'.provider = dialog.provider
      /\ llm'.id = dialog.id /\ llm'.config = dialog.id /\ llm'.name = llm'.id
  BY <1>1 DEF Choice!SubmitBalance, Picked, ChoiceDialogs
<1>3. /\ asked'.page = <<>> /\ asked'.dialog = <<>>
      /\ asked' \in [page : Seq(Asks), dialog : Seq(Asks)]
      /\ dialog' = None
      /\ strayed' \in [page : BOOLEAN, dialog : BOOLEAN] /\ strayed'.page = Choice!Doubtful
  BY <1>1 DEF Choice!SubmitBalance, Choice!Closed, ChoiceInv, ChoiceTypes, Choice!Doubtful,
     Choice!Waits
<1>4. ChoiceTypes' BY <1>2, <1>3 DEF ChoiceTypes
<1>5. PageAsks' BY <1>1, <1>3 DEF PageAsks
<1>6. PageFits'
  <2> SUFFICES ASSUME ~strayed'.page PROVE PageFits'
    BY DEF PageFits
  <2>1. Choice!Fits(dialog) BY <1>1, <1>3, SubmittedFits
  <2>2. Choice!Fits(llm') BY <1>1, <1>2, <2>1 DEF Choice!Fits, Choice!Chosen
  <2> QED BY <2>2, <1>2, <1>3 DEF PageFits, Choice!Fits, Choice!Chosen, Choice!ModelsOf
<1> QED BY <1>3, <1>4, <1>5, <1>6 DEF ChoiceInv, FirstAsked, DialogFits

-----------------------------------------------------------------------------
(* What else happens.                                                      *)

LEMMA LosePageStep ==
  ASSUME ChoiceConstants, ChoiceInv, NEW i \in DOMAIN asked.page, Choice!Lose("page", i)
  PROVE  ChoiceInv'
<1> DEFINE R == Choice!RemoveAt(asked.page, i)
<1>1. asked.page \in Seq(Asks) BY DEF ChoiceInv, ChoiceTypes
<1>2. /\ R \in Seq(Asks) /\ Len(R) = Len(asked.page) - 1
      /\ \A j \in DOMAIN R : R[j] = asked.page[IF j < i THEN j ELSE j + 1]
  BY <1>1, RemovedAt
<1>3. /\ asked'.page = R /\ asked'.dialog = asked.dialog
      /\ llm' = llm /\ dialog' = dialog
      /\ strayed' \in [page : BOOLEAN, dialog : BOOLEAN]
      /\ strayed'.page = TRUE /\ strayed'.dialog = strayed.dialog
  BY DEF Choice!Lose, ChoiceInv, ChoiceTypes
<1>4. asked' \in [page : Seq(Asks), dialog : Seq(Asks)]
  <2>1. asked' = [asked EXCEPT !.page = R] BY DEF Choice!Lose
  <2> HIDE DEF R
  <2> QED BY <2>1, <1>2 DEF ChoiceInv, ChoiceTypes
<1> HIDE DEF R
<1>5. ChoiceTypes' BY <1>3, <1>4 DEF ChoiceInv, ChoiceTypes
<1>6. PageAsks'
  <2>1. Balancing => R = <<>> BY <1>1 DEF ChoiceInv, PageAsks
  <2>2. ASSUME NEW j \in DOMAIN R
        PROVE  /\ R[j].what = "models" /\ R[j].owner \in Sources
               /\ R[j].pick => Len(R) = 1 /\ llm = None /\ dialog = None
               /\ ~R[j].pick => llm \in Picked
    <3>1. PICK k \in DOMAIN asked.page : R[j] = asked.page[k] /\ Len(asked.page) # 1
      <4>1. i \in Nat /\ j \in Nat /\ Len(asked.page) \in Nat BY <1>1, <1>2
      <4>2. (IF j < i THEN j ELSE j + 1) \in DOMAIN asked.page /\ Len(asked.page) # 1
        BY <1>1, <1>2, <4>1
      <4> QED BY <4>2, <1>2
    <3> QED BY <3>1 DEF ChoiceInv, PageAsks
  <2> QED BY <2>1, <2>2, <1>3 DEF ChoiceInv, PageAsks
<1>7. PageFits' BY <1>3 DEF PageFits
<1>8. FirstAsked' /\ DialogFits'
  BY <1>3 DEF ChoiceInv, FirstAsked, DialogFits, Latest, Counts, Brings
<1> QED BY <1>3, <1>5, <1>6, <1>7, <1>8 DEF ChoiceInv

LEMMA LoseDialogStep ==
  ASSUME ChoiceConstants, ChoiceInv, NEW i \in DOMAIN asked.dialog, Choice!Lose("dialog", i)
  PROVE  ChoiceInv'
<1> DEFINE R == Choice!RemoveAt(asked.dialog, i)
<1>1. asked.dialog \in Seq(Asks) /\ asked.dialog # <<>> BY DEF ChoiceInv, ChoiceTypes
<1>2. /\ R \in Seq(Asks) /\ Len(R) = Len(asked.dialog) - 1
      /\ \A j \in DOMAIN R : R[j] = asked.dialog[IF j < i THEN j ELSE j + 1]
  BY <1>1, RemovedAt
<1>3. /\ asked'.page = asked.page /\ asked'.dialog = R
      /\ llm' = llm /\ dialog' = dialog /\ dialog # None
      /\ strayed' \in [page : BOOLEAN, dialog : BOOLEAN]
      /\ strayed'.page = strayed.page /\ strayed'.dialog = TRUE
  BY <1>1 DEF Choice!Lose, ChoiceInv, ChoiceTypes
<1>4. asked' \in [page : Seq(Asks), dialog : Seq(Asks)]
  <2>1. asked' = [asked EXCEPT !.dialog = R] BY DEF Choice!Lose
  <2> HIDE DEF R
  <2> QED BY <2>1, <1>2 DEF ChoiceInv, ChoiceTypes
<1> HIDE DEF R
<1>5. ChoiceTypes' BY <1>3, <1>4 DEF ChoiceInv, ChoiceTypes
<1>6. PageAsks' /\ PageFits'
  BY <1>3 DEF ChoiceInv, PageAsks, PageFits, Choice!Fits, Choice!Chosen, Choice!ModelsOf
<1>7. FirstAsked'
  <2> SUFFICES ASSUME NEW k \in DOMAIN R, NEW j \in DOMAIN R, j < k,
                      R[k].what = "models", ~R[k].pick
               PROVE  ~Counts(R[j])
    BY <1>3 DEF FirstAsked, Counts
  <2>1. i \in Nat /\ j \in Nat /\ k \in Nat BY <1>1, <1>2
  <2> DEFINE a == IF j < i THEN j ELSE j + 1
             b == IF k < i THEN k ELSE k + 1
  <2>2. a \in DOMAIN asked.dialog /\ b \in DOMAIN asked.dialog /\ a < b
    BY <1>1, <1>2, <2>1
  <2>3. R[j] = asked.dialog[a] /\ R[k] = asked.dialog[b] BY <1>2
  <2> HIDE DEF a, b
  <2> QED BY <2>2, <2>3 DEF ChoiceInv, FirstAsked
<1>8. DialogFits' BY <1>3 DEF DialogFits
<1> QED BY <1>3, <1>5, <1>6, <1>7, <1>8 DEF ChoiceInv

LEMMA SingleAsk ==
  ASSUME NEW x \in Asks, NEW Q, Q = <<x>>
  PROVE  Q \in Seq(Asks) /\ DOMAIN Q = {1} /\ Len(Q) = 1 /\ Q[1] = x
OBVIOUS

\* What a page starts with.
LEMMA StartsFit ==
  ASSUME ChoiceConstants, NEW s \in Choice!Starts,
         NEW m, NEW a, NEW h, m = s.llm, a = [page |-> s.asked, dialog |-> <<>>], h = Choice!Certain
  PROVE  /\ m \in Picked \cup {None}
         /\ a \in [page : Seq(Asks), dialog : Seq(Asks)]
         /\ Balancing => a.page = <<>>
         /\ h \in [page : BOOLEAN, dialog : BOOLEAN]
         /\ \A i \in DOMAIN a.page :
              /\ a.page[i].what = "models" /\ a.page[i].owner \in Sources
              /\ a.page[i].pick => Len(a.page) = 1 /\ m = None
              /\ ~a.page[i].pick => m \in Picked /\ a.page[i].owner = Choice!Chosen(m)
                                              /\ m.id \in Choice!ModelsOf(Choice!Chosen(m))
         /\ m # None => Choice!Fits(m) /\ m.name = m.id
<1>1. h \in [page : BOOLEAN, dialog : BOOLEAN] BY DEF Choice!Certain
<1>2. CASE s = [llm |-> None, asked |-> <<>>]
  BY <1>1, <1>2
<1>3. ASSUME NEW o \in Sources, ~Balancing, s = [llm |-> None, asked |-> <<Choice!AskModels(o, TRUE)>>]
      PROVE  m = None /\ a.page = <<Choice!AskModels(o, TRUE)>> /\ a.dialog = <<>>
  BY <1>3
<1>4. ASSUME NEW x \in Models, ~Balancing,
             s = [llm |-> [Choice!Replaced(Owner[x]) EXCEPT !.id = x, !.config = x, !.name = x],
                  asked |-> <<Choice!AskModels(Owner[x], FALSE)>>]
      PROVE  /\ m \in Picked /\ m.id = x /\ m.config = x /\ m.name = x
             /\ Choice!Chosen(m) = Owner[x] /\ Owner[x] \in Sources /\ x \in Choice!ModelsOf(Owner[x])
             /\ a.page = <<Choice!AskModels(Owner[x], FALSE)>> /\ a.dialog = <<>>
  <2>1. Owner[x] \in Sources /\ x \in Choice!ModelsOf(Owner[x])
    BY DEF ChoiceConstants, Choice!ModelsOf
  <2>2. m = [Choice!Replaced(Owner[x]) EXCEPT !.id = x, !.config = x, !.name = x]
    BY <1>4
  <2>3. Choice!Replaced(Owner[x]) \in Picked /\ Choice!Chosen(Choice!Replaced(Owner[x])) = Owner[x]
    BY <2>1, ReplacedFits
  <2>4. /\ m \in Picked /\ m.id = x /\ m.config = x /\ m.name = x
        /\ m.type = Choice!Replaced(Owner[x]).type /\ m.provider = Choice!Replaced(Owner[x]).provider
    BY <2>2, <2>3 DEF Picked
  <2>5. Choice!Chosen(m) = Owner[x] BY <2>3, <2>4 DEF Choice!Chosen
  <2> QED BY <2>1, <2>4, <2>5, <1>4
<1>5. ASSUME NEW o \in Sources, NEW pick \in BOOLEAN, a.page = <<Choice!AskModels(o, pick)>>, a.dialog = <<>>
      PROVE  /\ a \in [page : Seq(Asks), dialog : Seq(Asks)]
             /\ DOMAIN a.page = {1} /\ Len(a.page) = 1
             /\ a.page[1].what = "models" /\ a.page[1].owner = o /\ a.page[1].pick = pick
  <2> DEFINE new == Choice!AskModels(o, pick)
  <2>1. new \in Asks /\ new.what = "models" /\ new.owner = o /\ new.pick = pick
    BY AsksType DEF Choice!AskModels, Choice!Ask
  <2>2. a.page = <<new>> BY <1>5
  <2>3. a = [page |-> a.page, dialog |-> a.dialog] OBVIOUS
  <2> HIDE DEF new
  <2>4. a.page \in Seq(Asks) /\ a.dialog \in Seq(Asks)
    <3>1. a.page \in Seq(Asks) BY <2>1, <2>2, SingleAsk
    <3>2. a.dialog \in Seq(Asks) BY <1>5
    <3> QED BY <3>1, <3>2
  <2>5. a \in [page : Seq(Asks), dialog : Seq(Asks)] BY <2>3, <2>4
  <2>6. DOMAIN a.page = {1} /\ Len(a.page) = 1 /\ a.page[1] = new BY <2>1, <2>2, SingleAsk
  <2> QED BY <2>1, <2>5, <2>6
<1>6. ASSUME NEW o \in Sources, ~Balancing, s = [llm |-> None, asked |-> <<Choice!AskModels(o, TRUE)>>]
      PROVE  /\ m = None
             /\ a \in [page : Seq(Asks), dialog : Seq(Asks)]
             /\ DOMAIN a.page = {1} /\ Len(a.page) = 1
             /\ a.page[1].what = "models" /\ a.page[1].owner = o /\ a.page[1].pick
  BY <1>3, <1>5, <1>6
<1>7. ASSUME NEW x \in Models, ~Balancing,
             s = [llm |-> [Choice!Replaced(Owner[x]) EXCEPT !.id = x, !.config = x, !.name = x],
                  asked |-> <<Choice!AskModels(Owner[x], FALSE)>>]
      PROVE  /\ a \in [page : Seq(Asks), dialog : Seq(Asks)]
             /\ DOMAIN a.page = {1} /\ Len(a.page) = 1
             /\ a.page[1].what = "models" /\ a.page[1].owner = Owner[x] /\ ~a.page[1].pick
  BY <1>4, <1>5, <1>7
<1>8. CASE s \in {[llm |-> None, asked |-> <<Choice!AskModels(o, TRUE)>>] : o \in Sources} /\ ~Balancing
  <2>1. PICK o \in Sources : s = [llm |-> None, asked |-> <<Choice!AskModels(o, TRUE)>>] BY <1>8
  <2>2. /\ m = None
        /\ a \in [page : Seq(Asks), dialog : Seq(Asks)]
        /\ DOMAIN a.page = {1} /\ Len(a.page) = 1
        /\ a.page[1].what = "models" /\ a.page[1].owner = o /\ a.page[1].pick
    BY <1>6, <1>8, <2>1
  <2> QED BY <1>1, <1>8, <2>2
<1>9. CASE s \in {[llm |-> [Choice!Replaced(Owner[x]) EXCEPT !.id = x, !.config = x, !.name = x],
                  asked |-> <<Choice!AskModels(Owner[x], FALSE)>>] : x \in Models} /\ ~Balancing
  <2>1. PICK x \in Models :
          s = [llm |-> [Choice!Replaced(Owner[x]) EXCEPT !.id = x, !.config = x, !.name = x],
               asked |-> <<Choice!AskModels(Owner[x], FALSE)>>] BY <1>9
  <2>2. /\ m \in Picked /\ m.id = x /\ m.config = x /\ m.name = x
        /\ Choice!Chosen(m) = Owner[x] /\ Owner[x] \in Sources /\ x \in Choice!ModelsOf(Owner[x])
    BY <1>4, <1>9, <2>1
  <2>3. Choice!Fits(m) BY <2>2 DEF Choice!Fits
  <2>4. /\ a \in [page : Seq(Asks), dialog : Seq(Asks)]
        /\ DOMAIN a.page = {1} /\ Len(a.page) = 1
        /\ a.page[1].what = "models" /\ a.page[1].owner = Owner[x] /\ ~a.page[1].pick
    BY <1>7, <1>9, <2>1
  <2> QED BY <1>1, <1>9, <2>2, <2>3, <2>4
<1> QED BY <1>2, <1>8, <1>9 DEF Choice!Starts, Sources

LEMMA ChoiceInit == ChoiceConstants /\ Choice!Init => ChoiceInv
<1> SUFFICES ASSUME ChoiceConstants, Choice!Init PROVE ChoiceInv
  OBVIOUS
<1>1. PICK s \in Choice!Starts : llm = s.llm /\ asked = [page |-> s.asked, dialog |-> <<>>]
  BY DEF Choice!Init
<1>2. dialog = None /\ strayed = Choice!Certain BY DEF Choice!Init
<1>3. /\ llm \in Picked \cup {None}
      /\ asked \in [page : Seq(Asks), dialog : Seq(Asks)]
      /\ Balancing => asked.page = <<>>
      /\ strayed \in [page : BOOLEAN, dialog : BOOLEAN]
      /\ \A i \in DOMAIN asked.page :
           /\ asked.page[i].what = "models" /\ asked.page[i].owner \in Sources
           /\ asked.page[i].pick => Len(asked.page) = 1 /\ llm = None
           /\ ~asked.page[i].pick => llm \in Picked /\ asked.page[i].owner = Choice!Chosen(llm)
                                           /\ llm.id \in Choice!ModelsOf(Choice!Chosen(llm))
      /\ llm # None => Choice!Fits(llm) /\ llm.name = llm.id
  BY <1>1, <1>2, StartsFit
<1>4. asked.dialog = <<>> BY <1>1
<1> QED BY <1>2, <1>3, <1>4
        DEF ChoiceInv, ChoiceTypes, PageAsks, PageFits, FirstAsked, DialogFits

LEMMA ChoiceLeaveStep == ChoiceConstants /\ Choice!Leave => ChoiceInv'
<1> SUFFICES ASSUME ChoiceConstants, Choice!Leave PROVE ChoiceInv'
  OBVIOUS
<1>1. PICK s \in Choice!Starts : llm' = s.llm /\ asked' = [page |-> s.asked, dialog |-> <<>>]
  BY DEF Choice!Leave, Choice!Closed
<1>2. dialog' = None /\ strayed' = Choice!Certain BY DEF Choice!Leave, Choice!Closed
<1>3. /\ llm' \in Picked \cup {None}
      /\ asked' \in [page : Seq(Asks), dialog : Seq(Asks)]
      /\ Balancing => asked'.page = <<>>
      /\ strayed' \in [page : BOOLEAN, dialog : BOOLEAN]
      /\ \A i \in DOMAIN asked'.page :
           /\ asked'.page[i].what = "models" /\ asked'.page[i].owner \in Sources
           /\ asked'.page[i].pick => Len(asked'.page) = 1 /\ llm' = None
           /\ ~asked'.page[i].pick => llm' \in Picked /\ asked'.page[i].owner = Choice!Chosen(llm')
                                           /\ llm'.id \in Choice!ModelsOf(Choice!Chosen(llm'))
      /\ llm' # None => Choice!Fits(llm') /\ llm'.name = llm'.id
  BY <1>1, <1>2, StartsFit
<1>4. asked'.dialog = <<>> BY <1>1
<1> QED BY <1>2, <1>3, <1>4
        DEF ChoiceInv, ChoiceTypes, PageAsks, PageFits, FirstAsked, DialogFits,
            Choice!Fits, Choice!Chosen, Choice!ModelsOf

LEMMA ChoiceStep == ChoiceConstants /\ ChoiceInv /\ [Choice!Next]_(Choice!vars) => ChoiceInv'
<1> SUFFICES ASSUME ChoiceConstants, ChoiceInv, [Choice!Next]_(Choice!vars) PROVE ChoiceInv'
  OBVIOUS
<1>1. CASE Choice!OpenForRoute BY <1>1, OpenForRouteStep
<1>2. CASE Choice!OpenForBalance BY <1>2, OpenForBalanceStep
<1>3. CASE Choice!Cancel BY <1>3, CancelStep
<1>4. CASE Choice!SubmitRoute BY <1>4, SubmitRouteStep
<1>5. CASE Choice!SubmitBalance BY <1>5, SubmitBalanceStep
<1>6. CASE Choice!Leave BY <1>6, ChoiceLeaveStep
<1>7. ASSUME NEW type \in {"online", "local"}, Choice!ChangeType(type) PROVE ChoiceInv'
  BY <1>7, ChangeTypeStep DEF Kind
<1>8. ASSUME NEW p \in Providers, Choice!ChooseProvider(p) PROVE ChoiceInv'
  BY <1>8, ChooseProviderStep
<1>9. ASSUME NEW m \in Models, Choice!ChooseModel(m) PROVE ChoiceInv'
  BY <1>9, ChooseModelStep
<1>10. ASSUME NEW i \in DOMAIN asked.page, Choice!PageAnswer(i) PROVE ChoiceInv'
  BY <1>10, PageAnswerStep
<1>11. ASSUME NEW i \in DOMAIN asked.page, Choice!Lose("page", i) PROVE ChoiceInv'
  BY <1>11, LosePageStep
<1>12. ASSUME NEW i \in DOMAIN asked.dialog, Choice!ProvidersAnswer(i) PROVE ChoiceInv'
  BY <1>12, ProvidersAnswerStep
<1>13. ASSUME NEW i \in DOMAIN asked.dialog, Choice!ModelsAnswer(i) PROVE ChoiceInv'
  BY <1>13, ModelsAnswerStep
<1>14. ASSUME NEW i \in DOMAIN asked.dialog, Choice!Lose("dialog", i) PROVE ChoiceInv'
  BY <1>14, LoseDialogStep
<1>15. CASE UNCHANGED Choice!vars
  BY <1>15 DEF Choice!vars, ChoiceInv, ChoiceTypes, PageAsks, PageFits, FirstAsked, DialogFits,
       Latest, Counts, Brings, Choice!Fits, Choice!Chosen, Choice!ModelsOf
<1> QED BY <1>1, <1>2, <1>3, <1>4, <1>5, <1>6, <1>7, <1>8, <1>9, <1>10, <1>11, <1>12,
           <1>13, <1>14, <1>15 DEF Choice!Next

LEMMA ChoiceHolds == ChoiceInv => Choice!ChoiceFits
<1> SUFFICES ASSUME ChoiceInv PROVE Choice!ChoiceFits
  OBVIOUS
<1>1. ASSUME dialog # None, ~Choice!Waits("dialog"), ~strayed.dialog
      PROVE  Choice!Fits(dialog) /\ (Choice!Chosen(dialog) # None => dialog.list = Choice!Chosen(dialog))
  <2>1. asked.dialog = <<>> BY <1>1 DEF Choice!Waits
  <2> QED BY <1>1, <2>1 DEF ChoiceInv, DialogFits
<1>2. ASSUME llm # None, ~Choice!Waits("page"), ~strayed.page PROVE Choice!Fits(llm) /\ llm.name = llm.id
  BY <1>2 DEF Choice!Waits, ChoiceInv, PageFits
<1> QED BY <1>1, <1>2 DEF Choice!ChoiceFits

\* However answers about models and providers come and are lost: what is chosen belongs
\* together, and what a dialog offers belongs to what is chosen in it.
THEOREM ChoicesFit == ASSUME ChoiceConstants PROVE Choice!Spec => []Choice!ChoiceFits
<1>1. Choice!Init => ChoiceInv BY ChoiceInit
<1>2. ChoiceInv /\ [Choice!Next]_(Choice!vars) => ChoiceInv' BY ChoiceStep
<1>3. ChoiceInv => Choice!ChoiceFits BY ChoiceHolds
<1> QED BY <1>1, <1>2, <1>3, PTL DEF Choice!Spec

-----------------------------------------------------------------------------
(* The market.                                                             *)

Word == Words \cup {""}

Options == [services : {{}, Services}, known : BOOLEAN, cates : SUBSET Browse!Categories,
            tags : SUBSET (Tags \cup {Browse!Empty}), word : Word]

\* The variables are those of the page.
MarketTypes ==
  /\ option \in Options
  /\ shown \subseteq Services
  /\ typed \in Seq(Options)
  /\ touched \in BOOLEAN /\ late \in BOOLEAN

\* Until a filter is used, everything that came is shown, and nothing is filtered out.
Untouched ==
  ~touched =>
    /\ shown = option.services
    /\ typed = <<>>
    /\ option.word = ""
    /\ option.known => option.cates = Browse!Categories /\ option.tags = Tags \cup {Browse!Empty}

MarketInv == MarketTypes /\ Untouched /\ Browse!ListFits

LEMMA PlacedFit ==
  ASSUME NEW s \in Services, Browse!Placed(s), NEW o \in Options,
         o.cates = Browse!Categories, o.tags = Tags \cup {Browse!Empty}, o.word = ""
  PROVE  Browse!Fits(s, o)
<1>1. CASE s.tags = {}
  BY <1>1 DEF Browse!Fits, Browse!Placed, Browse!TagsOf
<1>2. CASE s.tags # {}
  BY <1>2 DEF Browse!Fits, Browse!Placed, Browse!TagsOf
<1> QED BY <1>1, <1>2

LEMMA ToggledType ==
  ASSUME NEW c \in Browse!Categories, NEW S \in SUBSET Browse!Categories
  PROVE  Browse!Toggled(c, S) \in SUBSET Browse!Categories
BY DEF Browse!Toggled, Browse!Below, Browse!Above

LEMMA FilteredServices ==
  ASSUME NEW o \in Options PROVE Browse!Filtered(o) \subseteq Services
BY DEF Browse!Filtered, Options

LEMMA MarketInit == Browse!Init => MarketInv
<1> SUFFICES ASSUME Browse!Init PROVE MarketInv
  OBVIOUS
<1>1. Browse!Initial \in Options BY DEF Browse!Initial, Options, Word
<1>2. MarketTypes
  <2>1. option \in Options BY <1>1 DEF Browse!Init
  <2>2. typed \in Seq(Options) BY DEF Browse!Init
  <2>3. touched = FALSE /\ late = FALSE /\ shown = {} BY DEF Browse!Init
  <2> QED BY <2>1, <2>2, <2>3 DEF MarketTypes
<1>3. Untouched BY DEF Browse!Init, Browse!Initial, Untouched
<1>4. Browse!ListFits BY DEF Browse!Init, Browse!Initial, Browse!ListFits
<1> QED BY <1>2, <1>3, <1>4 DEF MarketInv

LEMMA ServicesStep == MarketInv /\ Browse!ServicesArrive => MarketInv'
<1> SUFFICES ASSUME MarketInv, Browse!ServicesArrive PROVE MarketInv'
  OBVIOUS
<1>1. option' \in Options /\ option'.services = Services /\ option'.known = option.known
      /\ option'.cates = option.cates /\ option'.tags = option.tags /\ option'.word = option.word
  BY DEF MarketInv, MarketTypes, Browse!ServicesArrive, Options
<1>2. shown' = Services
  BY DEF Browse!ServicesArrive, Browse!Filtered, Browse!Initial
<1>3. MarketTypes'
  BY <1>1, <1>2 DEF MarketInv, MarketTypes, Browse!ServicesArrive
<1>4. Untouched'
  BY <1>1, <1>2 DEF MarketInv, Untouched, Browse!ServicesArrive
<1>5. Browse!ListFits'
  <2> SUFFICES ASSUME option'.known, ~late', NEW s \in Services, Browse!Placed(s)
               PROVE  s \in shown' <=> s \in option'.services /\ Browse!Fits(s, option')
    BY DEF Browse!ListFits, Browse!Placed
  <2>1. Browse!Fits(s, option')
    BY <1>1, <1>4, PlacedFit DEF Browse!ServicesArrive, Untouched
  <2> QED BY <2>1, <1>1, <1>2
<1> QED BY <1>3, <1>4, <1>5 DEF MarketInv

LEMMA CategoriesStep == MarketInv /\ Browse!CategoriesArrive => MarketInv'
<1> SUFFICES ASSUME MarketInv, Browse!CategoriesArrive PROVE MarketInv'
  OBVIOUS
<1>1. option' \in Options /\ option'.services = option.services /\ option'.known
      /\ option'.cates = Browse!Categories /\ option'.tags = Tags \cup {Browse!Empty}
      /\ option'.word = option.word
  BY DEF MarketInv, MarketTypes, Browse!CategoriesArrive, Options
<1>2. MarketTypes'
  BY <1>1 DEF MarketInv, MarketTypes, Browse!CategoriesArrive
<1>3. Untouched'
  BY <1>1 DEF MarketInv, Untouched, Browse!CategoriesArrive
<1>4. Browse!ListFits'
  <2> SUFFICES ASSUME ~late', NEW s \in Services, Browse!Placed(s)
               PROVE  s \in shown' <=> s \in option'.services /\ Browse!Fits(s, option')
    BY DEF Browse!ListFits, Browse!Placed
  <2>1. ~touched
    BY DEF Browse!CategoriesArrive
  <2>2. Browse!Fits(s, option')
    BY <1>1, <2>1, PlacedFit DEF MarketInv, Untouched
  <2> QED BY <1>1, <2>1, <2>2 DEF MarketInv, Untouched, Browse!CategoriesArrive
<1> QED BY <1>2, <1>3, <1>4 DEF MarketInv

LEMMA CheckStep ==
  ASSUME MarketInv, NEW o \in Options, option.known => o.known, Browse!Check(o)
  PROVE  MarketInv'
<1>1. o.known BY DEF Browse!Check
<1>2. MarketTypes'
  BY FilteredServices DEF MarketInv, MarketTypes, Browse!Check, Browse!Checked
<1>3. Untouched' BY DEF Browse!Check, Untouched
<1>4. shown' = {s \in o.services : Browse!Fits(s, o)}
  BY <1>1 DEF Browse!Check, Browse!Checked, Browse!Filtered
<1>5. Browse!ListFits'
  BY <1>4 DEF Browse!Check, Browse!ListFits
<1> QED BY <1>2, <1>3, <1>5 DEF MarketInv

LEMMA TypeStep == ASSUME MarketInv, NEW w \in Words, Browse!Type(w) PROVE MarketInv'
<1>1. [option EXCEPT !.word = w] \in Options
  BY DEF MarketInv, MarketTypes, Options, Word
<1>2. MarketTypes'
  BY <1>1 DEF MarketInv, MarketTypes, Browse!Type
<1>3. Untouched' BY DEF Browse!Type, Untouched
<1>4. Browse!ListFits' BY DEF MarketInv, Browse!Type, Browse!ListFits, Browse!Placed
<1> QED BY <1>2, <1>3, <1>4 DEF MarketInv

LEMMA SearchStep == MarketInv /\ Browse!Search => MarketInv'
<1> SUFFICES ASSUME MarketInv, Browse!Search PROVE MarketInv'
  OBVIOUS
<1>1. Head(typed) \in Options /\ Tail(typed) \in Seq(Options)
  BY DEF MarketInv, MarketTypes, Browse!Search
<1>2. option' \in Options
  BY <1>1 DEF MarketInv, MarketTypes, Browse!Search, Options
<1>3. MarketTypes'
  BY <1>1, <1>2, FilteredServices DEF MarketInv, MarketTypes, Browse!Search
<1>4. Untouched' BY DEF MarketInv, Untouched, Browse!Search
<1>5. Browse!ListFits'
  <2> SUFFICES ASSUME option'.known, ~late'
               PROVE  shown' = {s \in option'.services : Browse!Fits(s, option')}
    BY DEF Browse!ListFits
  <2>1. option' = Head(typed) BY DEF Browse!Search
  <2> QED BY <2>1 DEF Browse!Search, Browse!Filtered
<1> QED BY <1>3, <1>4, <1>5 DEF MarketInv

LEMMA MarketStep == MarketInv /\ [Browse!Next]_(Browse!vars) => MarketInv'
<1> SUFFICES ASSUME MarketInv, [Browse!Next]_(Browse!vars) PROVE MarketInv'
  OBVIOUS
<1>1. CASE Browse!ServicesArrive BY <1>1, ServicesStep
<1>2. CASE Browse!CategoriesArrive BY <1>2, CategoriesStep
<1>3. ASSUME NEW r \in asked, Browse!Refused(r) PROVE MarketInv'
  BY <1>3 DEF Browse!Refused, MarketInv, MarketTypes, Untouched, Browse!ListFits
<1>4. ASSUME NEW c \in Browse!Categories, Browse!CheckCategory(c) PROVE MarketInv'
  <2>1. /\ [option EXCEPT !.cates = Browse!Toggled(c, @)] \in Options
        /\ [option EXCEPT !.cates = Browse!Toggled(c, @)].known = option.known
    BY ToggledType DEF MarketInv, MarketTypes, Options
  <2> QED BY <1>4, <2>1, CheckStep DEF Browse!CheckCategory
<1>5. ASSUME NEW t \in Tags \cup {Browse!Empty}, Browse!CheckTag(t) PROVE MarketInv'
  <2> DEFINE o == [option EXCEPT !.tags = IF t \in @ THEN @ \ {t} ELSE @ \cup {t}]
  <2>1. o \in Options /\ o.known = option.known
    BY DEF MarketInv, MarketTypes, Options
  <2>2. Browse!Check(o) BY <1>5 DEF Browse!CheckTag
  <2> HIDE DEF o
  <2> QED BY <2>1, <2>2, CheckStep
<1>6. ASSUME NEW w \in Words, Browse!Type(w) PROVE MarketInv' BY <1>6, TypeStep
<1>7. CASE Browse!Search BY <1>7, SearchStep
<1>8. CASE UNCHANGED Browse!vars
  BY <1>8 DEF Browse!vars, MarketInv, MarketTypes, Untouched, Browse!ListFits
<1> QED BY <1>1, <1>2, <1>3, <1>4, <1>5, <1>6, <1>7, <1>8 DEF Browse!Next

\* Whenever services and categories come, filters are used and searches take effect: the
\* market shows the services that its filters let through.
THEOREM MarketFits == Browse!Spec => []Browse!ListFits
<1>1. MarketInv => Browse!ListFits BY DEF MarketInv
<1> QED BY <1>1, MarketInit, MarketStep, PTL DEF Browse!Spec

-----------------------------------------------------------------------------
(* Strategies.                                                             *)

LEMMA SameCardinality == ASSUME NEW S PROVE Editor!Cardinality(S) = Cardinality(S)
BY DEF Editor!Cardinality, Cardinality

\* A set of numbers has a least one.
LEMMA LeastOf ==
  ASSUME NEW S \in SUBSET Nat, S # {}
  PROVE  \E n \in S : \A m \in S : n <= m
<1> DEFINE R == {p \in Nat \X Nat : p[1] < p[2]}
<1>1. IsWellFoundedOn(R, Nat) BY NatLessThanWellFounded, Zenon DEF OpToRel
<1> HIDE DEF R
<1>2. PICK n \in S : \A m \in S : ~ (<<m, n>> \in R) BY <1>1, WFMin
<1>3. \A m \in S : ~ (m < n) BY <1>2 DEF R
<1> QED BY <1>3

\* Induction up to a number, for a set.
LEMMA UpTo ==
  ASSUME NEW k \in Nat, NEW S, 0 \in S, \A n \in 0 .. k - 1 : n \in S => n + 1 \in S
  PROVE  0 .. k \subseteq S
<1> DEFINE Bad == (0 .. k) \ S
<1>1. SUFFICES ASSUME Bad # {} PROVE FALSE OBVIOUS
<1>2. Bad \subseteq Nat OBVIOUS
<1> HIDE DEF Bad
<1>3. PICK n \in Bad : \A m \in Bad : n <= m BY <1>1, <1>2, LeastOf
<1>4. n # 0 /\ n - 1 \in 0 .. k - 1 /\ (n - 1) + 1 = n /\ n - 1 \in Nat /\ ~ (n <= n - 1) BY DEF Bad
<1>5. n - 1 \in S BY <1>3, <1>4 DEF Bad
<1> QED BY <1>4, <1>5 DEF Bad

\* The rows that are left of the first n, for n up to k.
Left(rest, all, gone, k) ==
  rest = [n \in 0 .. k |->
            IF n = 0 THEN <<>>
            ELSE IF all[n] \in gone THEN rest[n - 1] ELSE Append(rest[n - 1], all[n])]

LEMMA LeftOne ==
  ASSUME NEW all, NEW gone, NEW k \in Nat, NEW g, Left(g, all, gone, k)
  PROVE  \E h : Left(h, all, gone, k + 1)
<1> DEFINE h == [n \in 0 .. k + 1 |->
                   IF n = 0 THEN <<>>
                   ELSE IF all[n] \in gone THEN g[n - 1] ELSE Append(g[n - 1], all[n])]
           hh == [n \in 0 .. k + 1 |->
                   IF n = 0 THEN <<>>
                   ELSE IF all[n] \in gone THEN h[n - 1] ELSE Append(h[n - 1], all[n])]
<1>1. \A n \in 0 .. k + 1 : h[n] = IF n = 0 THEN <<>>
         ELSE IF all[n] \in gone THEN g[n - 1] ELSE Append(g[n - 1], all[n])
  OBVIOUS
<1>2. \A n \in 0 .. k : g[n] = IF n = 0 THEN <<>>
         ELSE IF all[n] \in gone THEN g[n - 1] ELSE Append(g[n - 1], all[n])
  BY DEF Left
<1>3. \A n \in 0 .. k : n \in 0 .. k + 1 OBVIOUS
<1>4. \A n \in 0 .. k : h[n] = g[n] BY <1>1, <1>2, <1>3
<1>5. \A n \in 0 .. k + 1 : n # 0 => n - 1 \in 0 .. k OBVIOUS
<1>6. \A n \in 0 .. k + 1 : h[n] = IF n = 0 THEN <<>>
         ELSE IF all[n] \in gone THEN h[n - 1] ELSE Append(h[n - 1], all[n])
  BY <1>1, <1>4, <1>5
<1>7. \A n \in 0 .. k + 1 : hh[n] = IF n = 0 THEN <<>>
         ELSE IF all[n] \in gone THEN h[n - 1] ELSE Append(h[n - 1], all[n])
  OBVIOUS
<1>8. h = [n \in 0 .. k + 1 |-> h[n]] /\ hh = [n \in 0 .. k + 1 |-> hh[n]] OBVIOUS
<1>9. \A n \in 0 .. k + 1 : h[n] = hh[n] BY <1>6, <1>7
<1> HIDE DEF h
<1>10. h = hh
  <2> HIDE DEF hh
  <2> QED BY <1>8, <1>9
<1>11. Left(h, all, gone, k + 1) BY <1>10 DEF Left
<1> QED BY <1>11

\* What is left of all rows, from what is left of the first of them.
LEMMA LeftForm ==
  ASSUME NEW T, NEW all \in Seq(T), NEW gone
  PROVE  \E rest : /\ Left(rest, all, gone, Len(all))
                   /\ Editor!Without(all, gone) = rest[Len(all)]
<1> DEFINE S == {k \in Nat : \E g : Left(g, all, gone, k)}
           N == Len(all)
<1>1. 0 \in S
  <2> DEFINE g == [n \in 0 .. 0 |-> <<>>]
             gg == [n \in 0 .. 0 |->
                   IF n = 0 THEN <<>>
                   ELSE IF all[n] \in gone THEN g[n - 1] ELSE Append(g[n - 1], all[n])]
  <2>1. g = gg OBVIOUS
  <2> HIDE DEF g
  <2>2. Left(g, all, gone, 0) BY <2>1 DEF Left
  <2> QED BY <2>2
<1>2. \A n \in S : n + 1 \in S BY LeftOne
<1>3. N \in Nat BY LenProperties
<1> HIDE DEF S
<1>4. N \in S
  <2>1. \A n \in 0 .. N - 1 : n \in S => n + 1 \in S BY <1>2
  <2>2. 0 .. N \subseteq S BY <1>1, <1>3, <2>1, UpTo
  <2> QED BY <1>3, <2>2
<1>5. \E g : Left(g, all, gone, N) BY <1>4 DEF S
<1> DEFINE rest == CHOOSE g : Left(g, all, gone, N)
<1>6. Left(rest, all, gone, N) BY <1>5
<1>7. Editor!Without(all, gone) = rest[N] BY DEF Editor!Without, Left
<1> HIDE DEF rest
<1> QED BY <1>6, <1>7

\* What Without leaves: the rows that are not gone, each as often as it was.
LEMMA WithoutForm ==
  ASSUME NEW T, NEW all \in Seq(T), NEW gone
  PROVE  LET w == Editor!Without(all, gone)
         IN /\ w \in Seq(T)
            /\ Editor!Range(w) = Editor!Range(all) \ gone
            /\ (\A i, j \in 1 .. Len(all) : all[i].name = all[j].name => i = j)
               => \A i, j \in 1 .. Len(w) : w[i].name = w[j].name => i = j
<1> DEFINE N == Len(all)
<1>1. PICK rest : Left(rest, all, gone, N) /\ Editor!Without(all, gone) = rest[N] BY LeftForm
<1>2. N \in Nat /\ DOMAIN all = 1 .. N /\ \A n \in 1 .. N : all[n] \in T BY LenProperties, ElementOfSeq
<1>3. \A n \in 0 .. N : rest[n] = IF n = 0 THEN <<>>
        ELSE IF all[n] \in gone THEN rest[n - 1] ELSE Append(rest[n - 1], all[n])
  BY <1>1 DEF Left
<1> DEFINE Fine(n) ==
             /\ rest[n] \in Seq(T)
             /\ \A i \in 1 .. Len(rest[n]) : \E j \in 1 .. n : rest[n][i] = all[j] /\ all[j] \notin gone
             /\ \A j \in 1 .. n : all[j] \notin gone => \E i \in 1 .. Len(rest[n]) : rest[n][i] = all[j]
             /\ (\A i, j \in 1 .. N : all[i].name = all[j].name => i = j)
                => \A i, j \in 1 .. Len(rest[n]) : rest[n][i].name = rest[n][j].name => i = j
           S == {n \in 0 .. N : Fine(n)}
<1> HIDE DEF N
<1>4. 0 \in S
  <2>1. rest[0] = <<>> BY <1>2, <1>3
  <2>2. Len(rest[0]) = 0 /\ rest[0] \in Seq(T) BY <2>1
  <2> QED BY <1>2, <2>2
<1>5. ASSUME NEW n \in 0 .. N - 1, n \in S PROVE n + 1 \in S
  <2>1. /\ n + 1 \in 1 .. N /\ (n + 1) - 1 = n /\ n + 1 # 0 /\ n \in 0 .. N /\ n + 1 \in 0 .. N
        /\ 1 .. n \subseteq 1 .. N
    BY <1>2
  <2>2. rest[n + 1] = IF all[n + 1] \in gone THEN rest[n] ELSE Append(rest[n], all[n + 1])
    BY <1>3, <2>1
  <2>3. Fine(n) BY <1>5
  <2>4. CASE all[n + 1] \in gone
    <3>1. rest[n + 1] = rest[n] BY <2>2, <2>4
    <3>2. \A j \in 1 .. n + 1 : j \in 1 .. n \/ j = n + 1 BY <2>1
    <3>3. \A j \in 1 .. n : j \in 1 .. n + 1 BY <2>1
    <3>4. Fine(n + 1) BY <2>3, <2>4, <3>1, <3>2, <3>3
    <3> HIDE DEF Fine
    <3> QED BY <2>1, <3>4
  <2>5. CASE all[n + 1] \notin gone
    <3> DEFINE m == Len(rest[n])
               e == all[n + 1]
               r == rest[n + 1]
    <3>1. m \in Nat /\ e \in T BY <1>2, <2>1, <2>3, LenProperties
    <3>2. /\ r \in Seq(T) /\ Len(r) = m + 1
          /\ \A i \in 1 .. m : r[i] = rest[n][i]
          /\ r[m + 1] = e
      BY <2>2, <2>3, <2>5, <3>1, AppendProperties
    <3>3. \A i \in 1 .. m + 1 : i \in 1 .. m \/ i = m + 1 BY <3>1
    <3>4. \A i \in 1 .. n + 1 : i \in 1 .. n \/ i = n + 1 BY <2>1
    <3>5. 1 .. m \subseteq 1 .. m + 1 /\ 1 .. n \subseteq 1 .. n + 1 /\ m + 1 \in 1 .. m + 1 /\ n + 1 \in 1 .. n + 1
      BY <2>1, <3>1
    <3> HIDE DEF m, r
    <3>6. \A i \in 1 .. Len(r) : \E j \in 1 .. n + 1 : r[i] = all[j] /\ all[j] \notin gone
      <4> SUFFICES ASSUME NEW i \in 1 .. m + 1
                   PROVE \E j \in 1 .. n + 1 : r[i] = all[j] /\ all[j] \notin gone
        BY <3>2
      <4>1. CASE i = m + 1 BY <2>5, <3>2, <3>5, <4>1
      <4>2. CASE i \in 1 .. m BY <2>3, <3>2, <3>5, <4>2 DEF m
      <4> QED BY <3>3, <4>1, <4>2
    <3>7. \A j \in 1 .. n + 1 : all[j] \notin gone => \E i \in 1 .. Len(r) : r[i] = all[j]
      <4> SUFFICES ASSUME NEW j \in 1 .. n + 1, all[j] \notin gone
                   PROVE \E i \in 1 .. m + 1 : r[i] = all[j]
        BY <3>2
      <4>1. CASE j = n + 1 BY <3>2, <3>5, <4>1
      <4>2. CASE j \in 1 .. n
        <5>1. PICK i \in 1 .. m : rest[n][i] = all[j] BY <2>3, <4>2 DEF m
        <5> QED BY <3>2, <3>5, <5>1
      <4> QED BY <3>4, <4>1, <4>2
    <3>8. ASSUME \A i, j \in 1 .. N : all[i].name = all[j].name => i = j,
                 NEW i \in 1 .. Len(r), NEW j \in 1 .. Len(r), r[i].name = r[j].name
          PROVE  i = j
      <4>1. ASSUME NEW x \in 1 .. m, r[x].name = r[m + 1].name PROVE FALSE
        <5>1. PICK y \in 1 .. n : rest[n][x] = all[y] BY <2>3 DEF m
        <5>2. all[y].name = all[n + 1].name BY <3>2, <4>1, <5>1
        <5>3. y = n + 1 BY <2>1, <3>8, <5>2
        <5> QED BY <2>1, <5>3
      <4>2. i \in 1 .. m + 1 /\ j \in 1 .. m + 1 BY <3>2
      <4>3. CASE i \in 1 .. m /\ j \in 1 .. m BY <2>3, <3>2, <3>8, <4>3 DEF m
      <4>4. CASE i = m + 1 \/ j = m + 1 BY <3>3, <3>8, <4>1, <4>2, <4>4
      <4> QED BY <3>3, <4>2, <4>3, <4>4
    <3>9. Fine(n + 1) BY <3>2, <3>6, <3>7, <3>8 DEF r
    <3> HIDE DEF Fine
    <3> QED BY <2>1, <3>9
  <2> QED BY <2>4, <2>5
<1>6. N \in S
  <2> HIDE DEF S
  <2>1. 0 .. N \subseteq S BY <1>2, <1>4, <1>5, UpTo
  <2> QED BY <1>2, <2>1
<1>7. Fine(N) BY <1>6
<1> DEFINE w == rest[N]
<1>8. Editor!Range(w) = Editor!Range(all) \ gone
  <2>1. DOMAIN w = 1 .. Len(w) BY <1>7, LenProperties
  <2>2. \A i \in 1 .. Len(w) : \E j \in 1 .. N : w[i] = all[j] /\ all[j] \notin gone BY <1>7
  <2>3. \A j \in 1 .. N : all[j] \notin gone => \E i \in 1 .. Len(w) : w[i] = all[j] BY <1>7
  <2> HIDE DEF w, Fine
  <2>4. Editor!Range(w) = {w[i] : i \in 1 .. Len(w)} BY <2>1 DEF Editor!Range
  <2>5. Editor!Range(all) = {all[i] : i \in 1 .. N} BY <1>2 DEF Editor!Range
  <2> QED BY <2>2, <2>3, <2>4, <2>5
<1> QED BY <1>1, <1>7, <1>8 DEF N

\* A finite set and its sequence.
LEMMA SeqOfSet ==
  ASSUME NEW S, IsFiniteSet(S)
  PROVE  LET f == Editor!SetToSeq(S)
         IN /\ f \in Seq(S) /\ Editor!Range(f) = S
            /\ \A i, j \in 1 .. Len(f) : f[i] = f[j] => i = j
<1> DEFINE n == Cardinality(S)
           f == Editor!SetToSeq(S)
<1>1. n \in Nat /\ ExistsBijection(1 .. n, S)
  <2>1. PICK m \in Nat : ExistsBijection(1 .. m, S) BY FS_NatBijection
  <2>2. m = n BY <2>1, FS_CountingElements
  <2> QED BY <2>1, <2>2
<1>2. PICK b \in Bijection(1 .. n, S) : TRUE BY <1>1 DEF ExistsBijection
<1> HIDE DEF n
<1>3. b \in [1 .. n -> S] /\ Editor!IsInjective(b)
  BY <1>2 DEF Bijection, Injection, IsInjective, Editor!IsInjective
<1>4. f = CHOOSE g \in [1 .. n -> S] : Editor!IsInjective(g)
  BY SameCardinality DEF Editor!SetToSeq, n
<1> HIDE DEF f
<1>5. f \in [1 .. n -> S] /\ Editor!IsInjective(f) BY <1>3, <1>4
<1>6. f \in Seq(S) /\ Len(f) = n BY <1>1, <1>5
<1>7. \A i, j \in 1 .. n : f[i] = f[j] => i = j BY <1>5 DEF Editor!IsInjective
<1>8. f \in Injection(1 .. n, S) BY <1>5, <1>7 DEF Injection, IsInjective
<1>9. IsFiniteSet(1 .. n) /\ Cardinality(1 .. n) = n BY <1>1, FS_Interval
<1>10. f \in Surjection(1 .. n, S) BY <1>8, <1>9, FS_Injection DEF n
<1>11. Editor!Range(f) = S
  <2>1. \A x \in S : \E i \in 1 .. n : f[i] = x BY <1>10 DEF Surjection
  <2> QED BY <1>5, <2>1 DEF Editor!Range
<1> QED BY <1>6, <1>7, <1>11 DEF f

\* Things with names of their own, of a finite set of names, are finitely many.
LEMMA FewNamed ==
  ASSUME NEW S, NEW N, IsFiniteSet(N), \A f \in S : f.name \in N,
         \A f, g \in S : f.name = g.name => f = g
  PROVE  IsFiniteSet(S)
<1> DEFINE h == [f \in S |-> f.name]
<1>1. h \in Injection(S, N) BY DEF Injection, IsInjective
<1> HIDE DEF h
<1> QED BY <1>1, FS_Injection

\* Rows of different names are as many as their names.
LEMMA AllDistinct ==
  ASSUME NEW T, NEW all \in Seq(T), \A i, j \in 1 .. Len(all) : all[i].name = all[j].name => i = j
  PROVE  Editor!Distinct(all)
<1> DEFINE n == Len(all)
           S == Editor!Names(Editor!Range(all))
           h == [i \in 1 .. n |-> all[i].name]
<1>1. n \in Nat /\ DOMAIN all = 1 .. n BY LenProperties
<1>2. S = {all[i].name : i \in 1 .. n} BY <1>1 DEF Editor!Names, Editor!Range
<1> HIDE DEF S, n
<1>3. \A i \in 1 .. n : h[i] = all[i].name OBVIOUS
<1>4. h \in [1 .. n -> S] BY <1>2
<1>5. \A x \in S : \E i \in 1 .. n : h[i] = x BY <1>2, <1>3
<1>6. \A i, j \in 1 .. n : h[i] = h[j] => i = j BY <1>3 DEF n
<1> HIDE DEF h
<1>7. h \in Bijection(1 .. n, S)
  BY <1>4, <1>5, <1>6 DEF Bijection, Injection, Surjection, IsInjective
<1>8. Cardinality(S) = n BY <1>1, <1>7, FS_CountingElements DEF ExistsBijection
<1> QED BY <1>8, SameCardinality DEF Editor!Distinct, S, n

-----------------------------------------------------------------------------
EditorConstants ==
  /\ IsFiniteSet(Editor!Attributes) /\ Editor!Nothing \notin Editor!Attributes
  /\ MaxRules \in Nat

Values == (UNION {Editor!Own(a) : a \in Editor!Attributes}) \cup {Editor!All, Editor!Blank}
Names  == Editor!Attributes \cup {Editor!Nothing}

SavedRow == [name : Editor!Attributes, values : SUBSET Values, stray : BOOLEAN]
ShownRow == [name : Editor!Attributes, values : SUBSET Values, stray : BOOLEAN, key : Names]

FilterDialog == [mode : {Editor!Nothing, "add", "edit"}, row : ShownRow \cup {Editor!Nothing},
                 name : Names, values : SUBSET Values, text : BOOLEAN, list : Names,
                 loading : BOOLEAN, stray : BOOLEAN]

Reads == [of : Editor!Attributes, all : BOOLEAN, open : BOOLEAN, listed : BOOLEAN]

OwnValues(f) == f.stray \/ f.values \subseteq Editor!Own(f.name) \cup {Editor!All, Editor!Blank}

\* The filters of the page and of the server: one of an attribute, with its own values.
RowsInv ==
  /\ filters \in Seq(ShownRow)
  /\ \A i, j \in 1 .. Len(filters) : filters[i].name = filters[j].name => i = j
  /\ \A f \in Editor!Range(filters) : OwnValues(f) /\ f.key \in {Editor!Nothing, f.name}
  /\ stored.filters \subseteq SavedRow
  /\ \A f, g \in stored.filters : f.name = g.name => f = g
  /\ \A f \in stored.filters : OwnValues(f)

\* The dialog: it is about an attribute no other filter has, and what it shows of another
\* attribute is accounted for, or to come.
DialogInv ==
  /\ dialog \in FilterDialog
  /\ asked \subseteq Reads
  /\ OwnValues(dialog)
  /\ dialog.mode # Editor!Nothing =>
       dialog.name = Editor!Nothing \/ dialog.name \in Editor!Offered
  /\ dialog.mode = "edit" =>
       dialog.row \in ShownRow /\ OwnValues(dialog.row) /\ (dialog.row.stray => dialog.stray)
  /\ dialog.stray \/ dialog.loading \/ dialog.list \in {Editor!Nothing, dialog.name}

\* What was read and not touched since: a filter on the page, with the key it was given,
\* and at the server; a rule in both.
FilterStays(k) ==
  \E f \in stored.filters :
    /\ f.name = k.name
    /\ \/ f.values = k.values
       \/ Editor!All \in k.values /\ f.values = {Editor!All}
       \/ k.name = "ip" /\ f.values \subseteq k.values

FilterShown(k) ==
  \E f \in Editor!Range(filters) : f.name = k.name /\ f.values = k.values /\ f.key = k.name

KeptInv ==
  /\ \A k \in kept : FilterStays(k) /\ (open => FilterShown(k))

SettledInv ==
  /\ rules \in Seq(Editor!Range(rules))
  /\ stored.rules \in Seq(Editor!Range(stored.rules))
  /\ settled \subseteq Editor!Range(stored.rules)
  /\ \A r \in settled : r.key # Editor!NoKey
  /\ open => settled \subseteq Editor!Range(rules)

EditorInv == RowsInv /\ DialogInv /\ KeptInv /\ SettledInv

-----------------------------------------------------------------------------
LEMMA ValuesForm ==
  /\ \A a \in Editor!Attributes : Editor!Own(a) \subseteq Values
  /\ Editor!All \in Values /\ Editor!Blank \in Values
<1> DEFINE T == {Editor!All, Editor!Blank}
<1>1. Editor!All \in T /\ Editor!Blank \in T OBVIOUS
<1> DEFINE U == {Editor!Own(a) : a \in Editor!Attributes}
<1>2. \A a \in Editor!Attributes : Editor!Own(a) \in U OBVIOUS
<1>3. Values = (UNION U) \cup T BY DEF Values
<1> HIDE DEF T, U
<1>4. \A a \in Editor!Attributes : Editor!Own(a) \subseteq UNION U BY <1>2
<1> QED BY <1>1, <1>3, <1>4

LEMMA NoDialogForm ==
  /\ Editor!NoDialog \in FilterDialog /\ Editor!NoDialog.mode = Editor!Nothing
  /\ Editor!NoDialog.stray = FALSE /\ Editor!NoDialog.list = Editor!Nothing
  /\ Editor!NoDialog.name = Editor!Nothing
  /\ OwnValues(Editor!NoDialog)
  /\ Editor!Nothing # "add" /\ Editor!Nothing # "edit"
<1> DEFINE d == Editor!NoDialog
<1>1. d = [mode |-> Editor!Nothing, row |-> Editor!Nothing, name |-> Editor!Nothing,
           values |-> {Editor!Blank}, text |-> FALSE, list |-> Editor!Nothing,
           loading |-> FALSE, stray |-> FALSE]
  BY DEF Editor!NoDialog
<1>2. Editor!Nothing \in Names /\ {Editor!Blank} \in SUBSET Values BY ValuesForm DEF Names
<1>3. Editor!Nothing # "add" /\ Editor!Nothing # "edit" BY DEF Editor!Nothing
<1> HIDE DEF d
<1>4. d \in FilterDialog BY <1>1, <1>2 DEF FilterDialog
<1>5. OwnValues(d) BY <1>1 DEF OwnValues
<1> QED BY <1>1, <1>3, <1>4, <1>5 DEF d

LEMMA ExpandedValues ==
  ASSUME NEW a \in Editor!Attributes, NEW V \in SUBSET Values
  PROVE  /\ Editor!Expanded(a, V) \in SUBSET Values
         /\ V \subseteq Editor!Own(a) \cup {Editor!All, Editor!Blank} =>
              Editor!Expanded(a, V) \subseteq Editor!Own(a) \cup {Editor!All, Editor!Blank}
BY DEF Editor!Expanded, Values

\* What the dialog is when it shows an attribute.
LEMMA ShowForm ==
  ASSUME NEW d \in FilterDialog, NEW old \in SUBSET Reads, DialogInv, Editor!Show(d, old)
  PROVE  /\ dialog' \in FilterDialog /\ asked' \subseteq Reads
         /\ dialog'.mode = d.mode /\ dialog'.row = d.row /\ dialog'.name = d.name
         /\ dialog'.values = d.values /\ dialog'.stray = d.stray
         /\ dialog'.loading \/ dialog'.list = Editor!Nothing
<1>1. CASE d.name \in Remotes
  <2>1. PICK all \in BOOLEAN : Editor!Ask(d, old, all) BY <1>1 DEF Editor!Show
  <2>2. dialog' = [d EXCEPT !.loading = TRUE] BY <2>1 DEF Editor!Ask
  <2>3. [of |-> d.name, all |-> all, open |-> TRUE, listed |-> TRUE] \in Reads
    BY <1>1 DEF Reads, Editor!Attributes
  <2>4. asked' \subseteq Reads BY <2>1, <2>3 DEF Editor!Ask
  <2> QED BY <2>2, <2>4 DEF FilterDialog
<1>2. CASE d.name \notin Remotes
  <2>1. dialog' = [d EXCEPT !.list = Editor!Nothing, !.loading = FALSE] /\ asked' = Editor!Unlisted
    BY <1>2 DEF Editor!Show
  <2>2. asked' \subseteq Reads
    <3>1. \A r \in Reads : [r EXCEPT !.listed = FALSE] \in Reads BY DEF Reads
    <3> QED BY <2>1, <3>1 DEF Editor!Unlisted, DialogInv
  <2>3. Editor!Nothing \in Names BY DEF Names
  <2> QED BY <2>1, <2>2, <2>3 DEF FilterDialog
<1> QED BY <1>1, <1>2

\* What the invariant says of the dialog, by what it is.
LEMMA DialogNext ==
  ASSUME dialog' \in FilterDialog, asked' \subseteq Reads, OwnValues(dialog)',
         dialog'.mode # Editor!Nothing =>
           dialog'.name = Editor!Nothing \/ dialog'.name \in Editor!Offered',
         dialog'.mode = "edit" => /\ dialog'.row \in ShownRow /\ OwnValues(dialog'.row)
                                  /\ dialog'.row.stray => dialog'.stray,
         dialog'.stray \/ dialog'.loading \/ dialog'.list \in {Editor!Nothing, dialog'.name}
  PROVE  DialogInv'
BY DEF DialogInv, OwnValues

\* The same, of a dialog about what it was about.
LEMMA DialogStays ==
  ASSUME DialogInv, dialog' \in FilterDialog, asked' \subseteq Reads, OwnValues(dialog)', filters' = filters,
         dialog'.mode = dialog.mode, dialog'.row = dialog.row, dialog'.name = dialog.name,
         dialog.stray => dialog'.stray,
         dialog'.stray \/ dialog'.loading \/ dialog'.list \in {Editor!Nothing, dialog'.name}
  PROVE  DialogInv'
<1>1. Editor!Offered' = Editor!Offered BY DEF Editor!Offered
<1>2. dialog'.mode # Editor!Nothing => dialog'.name = Editor!Nothing \/ dialog'.name \in Editor!Offered'
  BY <1>1 DEF DialogInv
<1>3. dialog'.mode = "edit" => /\ dialog'.row \in ShownRow /\ OwnValues(dialog'.row)
                               /\ dialog'.row.stray => dialog'.stray
  BY DEF DialogInv
<1> QED BY <1>2, <1>3, DialogNext

LEMMA AddStep == ASSUME EditorConstants, DialogInv, Editor!AddFilter PROVE DialogInv'
<1>1. PICK a \in Editor!Offered \cup {Editor!Nothing} :
        Editor!Show([Editor!NoDialog EXCEPT !.mode = "add", !.name = a], asked)
  BY DEF Editor!AddFilter
<1> DEFINE d == [Editor!NoDialog EXCEPT !.mode = "add", !.name = a]
<1>2. dialog.mode = Editor!Nothing /\ filters' = filters BY DEF Editor!AddFilter, Editor!Idle
<1>3. Editor!Offered = {b \in Editor!Attributes : b \notin Editor!Names(Editor!Range(filters))}
  BY <1>2, NoDialogForm DEF Editor!Offered
<1>4. a \in Names BY <1>3 DEF Names
<1>5. d \in FilterDialog BY <1>4, NoDialogForm DEF FilterDialog
<1>6. /\ d.mode = "add" /\ d.name = a /\ d.values = Editor!NoDialog.values /\ d.stray = FALSE
  BY NoDialogForm DEF FilterDialog
<1>7. d.values = {Editor!Blank} BY <1>6 DEF Editor!NoDialog
<1> HIDE DEF d
<1>8. /\ dialog' \in FilterDialog /\ asked' \subseteq Reads
      /\ dialog'.mode = "add" /\ dialog'.name = a
      /\ dialog'.values = {Editor!Blank}
      /\ dialog'.loading \/ dialog'.list = Editor!Nothing
  <2>1. asked \in SUBSET Reads BY DEF DialogInv
  <2>2. Editor!Show(d, asked) BY <1>1 DEF d
  <2> QED BY <1>5, <1>6, <1>7, <2>1, <2>2, ShowForm
<1>9. OwnValues(dialog)' BY <1>8 DEF OwnValues
<1>10. dialog'.name = Editor!Nothing \/ dialog'.name \in Editor!Offered'
  <2>1. a \in Editor!Offered => a \in Editor!Attributes /\ a \notin Editor!Names(Editor!Range(filters))
    BY <1>3
  <2>2. a \in Editor!Offered => a \in Editor!Offered'
    BY <1>2, <2>1 DEF Editor!Offered
  <2> QED BY <1>8, <2>2
<1> QED BY <1>8, <1>9, <1>10, DialogNext

LEMMA EditStep ==
  ASSUME EditorConstants, RowsInv, DialogInv, NEW f \in Editor!Range(filters), Editor!EditFilter(f)
  PROVE  DialogInv'
<1> DEFINE V == Editor!Expanded(f.name, f.values)
           t == f.name \in Patterns /\ f.key # Editor!Nothing
           d == [Editor!NoDialog EXCEPT !.mode = "edit", !.row = f, !.name = f.name,
                   !.values = V, !.stray = f.stray, !.text = t]
<1>1. Editor!Show(d, asked) /\ filters' = filters BY DEF Editor!EditFilter
<1>2. f \in ShownRow /\ OwnValues(f)
  BY ElementOfSeq, LenProperties DEF RowsInv, Editor!Range
<1>3. V \in SUBSET Values /\ (f.stray \/ V \subseteq Editor!Own(f.name) \cup {Editor!All, Editor!Blank})
  BY <1>2, ExpandedValues DEF ShownRow, OwnValues
<1>4. f.name \in Names /\ f.name \in Editor!Attributes /\ f.stray \in BOOLEAN BY <1>2 DEF ShownRow, Names
<1>5. t \in BOOLEAN OBVIOUS
<1> HIDE DEF V, t
<1>6. /\ d \in FilterDialog /\ d.mode = "edit" /\ d.row = f /\ d.name = f.name
      /\ d.values = V /\ d.stray = f.stray
  BY <1>2, <1>3, <1>4, <1>5, NoDialogForm DEF FilterDialog
<1> HIDE DEF d
<1>7. /\ dialog' \in FilterDialog /\ asked' \subseteq Reads
      /\ dialog'.mode = "edit" /\ dialog'.row = f /\ dialog'.name = f.name
      /\ dialog'.values = V /\ dialog'.stray = f.stray
      /\ dialog'.loading \/ dialog'.list = Editor!Nothing
  <2>1. asked \in SUBSET Reads BY DEF DialogInv
  <2> QED BY <1>1, <1>6, <2>1, ShowForm
<1>8. OwnValues(dialog)' BY <1>3, <1>7 DEF OwnValues
<1>9. dialog'.name \in Editor!Offered' BY <1>7 DEF Editor!Offered
<1> QED BY <1>2, <1>7, <1>8, <1>9, DialogNext

LEMMA ChooseStep ==
  ASSUME EditorConstants, DialogInv, NEW a \in Editor!Attributes, Editor!Choose(a)
  PROVE  DialogInv'
<1> DEFINE V   == Editor!Reset(a)
           old == IF dialog.name \in Remotes THEN asked ELSE Editor!Unlisted
           d   == [dialog EXCEPT !.name = a, !.values = V, !.text = FALSE]
<1>1. /\ dialog.mode # Editor!Nothing /\ a \in Editor!Offered
      /\ Editor!Show(d, old) /\ filters' = filters
  BY DEF Editor!Choose
<1>2. old \in SUBSET Reads
  <2>1. \A r \in Reads : [r EXCEPT !.listed = FALSE] \in Reads BY DEF Reads
  <2> QED BY <2>1 DEF DialogInv, Editor!Unlisted
<1>3. V \in SUBSET Values /\ (dialog.stray \/ V \subseteq Editor!Own(a) \cup {Editor!All, Editor!Blank})
  <2>1. CASE Editor!Same(a)
    <3>1. /\ dialog.mode = "edit" /\ dialog.row.name = a /\ V = Editor!Expanded(a, dialog.row.values)
      BY <2>1 DEF Editor!Reset, Editor!Same
    <3>2. dialog.row \in ShownRow /\ OwnValues(dialog.row) /\ (dialog.row.stray => dialog.stray)
      BY <3>1 DEF DialogInv
    <3> QED BY <3>1, <3>2, ExpandedValues DEF ShownRow, OwnValues
  <2>2. CASE ~ Editor!Same(a)
    <3>1. V = {Editor!Blank} BY <2>2 DEF Editor!Reset
    <3> QED BY <3>1, ValuesForm
  <2> QED BY <2>1, <2>2
<1> HIDE DEF V, old
<1>4. /\ d \in FilterDialog /\ d.mode = dialog.mode /\ d.row = dialog.row /\ d.name = a
      /\ d.values = V /\ d.stray = dialog.stray
  BY <1>3 DEF DialogInv, FilterDialog, Names
<1> HIDE DEF d
<1>5. /\ dialog' \in FilterDialog /\ asked' \subseteq Reads
      /\ dialog'.mode = dialog.mode /\ dialog'.row = dialog.row /\ dialog'.name = a
      /\ dialog'.values = V /\ dialog'.stray = dialog.stray
      /\ dialog'.loading \/ dialog'.list = Editor!Nothing
  BY <1>1, <1>2, <1>4, ShowForm
<1>6. OwnValues(dialog)' BY <1>3, <1>5 DEF OwnValues
<1>7. dialog'.name \in Editor!Offered' BY <1>1, <1>5 DEF Editor!Offered
<1> QED BY <1>5, <1>6, <1>7, DialogNext DEF DialogInv

LEMMA ValueStep ==
  ASSUME DialogInv, NEW V \in SUBSET Values, NEW text \in BOOLEAN, Editor!Value(V, text),
         dialog.stray \/ V \subseteq Editor!Own(dialog.name) \cup {Editor!All, Editor!Blank}
  PROVE  DialogInv'
<1>1. dialog' = [dialog EXCEPT !.values = V, !.text = text] /\ asked' = asked /\ filters' = filters
  BY DEF Editor!Value
<1>2. /\ dialog' \in FilterDialog
      /\ dialog'.mode = dialog.mode /\ dialog'.row = dialog.row /\ dialog'.name = dialog.name
      /\ dialog'.values = V /\ dialog'.stray = dialog.stray
      /\ dialog'.loading = dialog.loading /\ dialog'.list = dialog.list
  BY <1>1 DEF DialogInv, FilterDialog
<1>3. OwnValues(dialog)' BY <1>2 DEF OwnValues
<1>5. dialog'.stray \/ dialog'.loading \/ dialog'.list \in {Editor!Nothing, dialog'.name} BY <1>2 DEF DialogInv
<1>6. asked' \subseteq Reads BY <1>1 DEF DialogInv
<1> QED BY <1>1, <1>2, <1>3, <1>5, <1>6, DialogStays

LEMMA TypedStep ==
  ASSUME EditorConstants, DialogInv, NEW V, Editor!Type(V) PROVE DialogInv'
<1> DEFINE W == IF V = {} THEN {Editor!Blank} ELSE V
<1>1. dialog.name \in Editor!Attributes /\ V \subseteq Editor!Own(dialog.name) /\ Editor!Value(W, TRUE)
  BY DEF Editor!Type, Editor!Attributes
<1>2. W \in SUBSET Values /\ W \subseteq Editor!Own(dialog.name) \cup {Editor!All, Editor!Blank}
  BY <1>1, ValuesForm
<1>3. PICK U \in SUBSET Values : U = W BY <1>2
<1> HIDE DEF W
<1>4. Editor!Value(U, TRUE) BY <1>1, <1>3
<1> QED BY <1>2, <1>3, <1>4, ValueStep

LEMMA TickStep ==
  ASSUME EditorConstants, DialogInv, NEW V, Editor!Tick(V) PROVE DialogInv'
<1>1. /\ dialog.name \in Editor!Attributes /\ Editor!Value(V, FALSE)
      /\ V \subseteq Editor!Own(dialog.name) \cup {Editor!All}
  BY DEF Editor!Tick, Editor!Attributes
<1>2. V \in SUBSET Values BY <1>1, ValuesForm
<1> QED BY <1>1, <1>2, ValueStep

LEMMA PickStep ==
  ASSUME EditorConstants, DialogInv, NEW x, Editor!Pick(x) PROVE DialogInv'
<1> DEFINE W == IF x \in dialog.values THEN dialog.values \ {x}
                ELSE (dialog.values \ {Editor!Blank}) \cup {x}
<1>1. /\ ~ dialog.loading /\ dialog.list # Editor!Nothing /\ x \in Editor!Own(dialog.list)
      /\ Editor!Value(W, FALSE)
  BY DEF Editor!Pick
<1>2. dialog.list \in Editor!Attributes /\ dialog.values \in SUBSET Values
  BY <1>1 DEF DialogInv, FilterDialog, Names
<1>3. W \in SUBSET Values BY <1>1, <1>2 DEF Values
<1>4. dialog.stray \/ dialog.list = dialog.name BY <1>1 DEF DialogInv
<1>5. dialog.stray \/ W \subseteq Editor!Own(dialog.name) \cup {Editor!All, Editor!Blank}
  BY <1>1, <1>4 DEF DialogInv, OwnValues
<1> HIDE DEF W
<1> QED BY <1>1, <1>3, <1>5, ValueStep

LEMMA SearchedStep == ASSUME EditorConstants, DialogInv, Editor!Search PROVE DialogInv'
<1>1. PICK all \in BOOLEAN : Editor!Ask(dialog, asked, all) BY DEF Editor!Search
<1>2. dialog.name \in Editor!Attributes /\ filters' = filters BY DEF Editor!Search, Editor!Attributes
<1>3. dialog' = [dialog EXCEPT !.loading = TRUE] BY <1>1 DEF Editor!Ask
<1>4. asked' \subseteq Reads
  <2>1. [of |-> dialog.name, all |-> all, open |-> TRUE, listed |-> TRUE] \in Reads BY <1>2 DEF Reads
  <2> QED BY <1>1, <2>1 DEF Editor!Ask, DialogInv
<1>5. /\ dialog' \in FilterDialog
      /\ dialog'.mode = dialog.mode /\ dialog'.row = dialog.row /\ dialog'.name = dialog.name
      /\ dialog'.values = dialog.values /\ dialog'.stray = dialog.stray /\ dialog'.loading
  BY <1>3 DEF DialogInv, FilterDialog
<1>6. OwnValues(dialog)' BY <1>5 DEF OwnValues, DialogInv
<1> QED BY <1>2, <1>4, <1>5, <1>6, DialogStays

LEMMA ReadStep ==
  ASSUME EditorConstants, DialogInv, NEW r \in asked, Editor!Answer(r) PROVE DialogInv'
<1> DEFINE list  == IF r.listed THEN r.of ELSE dialog.list
           load  == dialog.loading /\ ~ r.listed
           vals  == IF r.all /\ r.open THEN Editor!Own(r.of) ELSE dialog.values
           text  == dialog.text /\ ~ (r.all /\ r.open)
           stray == dialog.stray \/ (r.of # dialog.name /\ (r.listed \/ (r.all /\ r.open)))
<1>1. /\ dialog' = [dialog EXCEPT !.list = list, !.loading = load, !.values = vals, !.text = text,
                                  !.stray = stray]
      /\ asked' = asked \ {r} /\ filters' = filters
  BY DEF Editor!Answer
<1>2. r \in Reads /\ dialog \in FilterDialog BY DEF DialogInv
<1>3. r.of \in Editor!Attributes /\ r.listed \in BOOLEAN /\ r.all \in BOOLEAN /\ r.open \in BOOLEAN
  BY <1>2 DEF Reads
<1>4. list \in Names /\ load \in BOOLEAN /\ vals \in SUBSET Values /\ text \in BOOLEAN /\ stray \in BOOLEAN
  BY <1>2, <1>3 DEF FilterDialog, Names, Values
<1>5. stray \/ vals \subseteq Editor!Own(dialog.name) \cup {Editor!All, Editor!Blank}
  BY DEF DialogInv, OwnValues
<1>6. stray \/ load \/ list \in {Editor!Nothing, dialog.name} BY <1>3 DEF DialogInv
<1>7. dialog.stray => stray OBVIOUS
<1> HIDE DEF list, load, vals, text, stray
<1>8. /\ dialog' \in FilterDialog
      /\ dialog'.mode = dialog.mode /\ dialog'.row = dialog.row /\ dialog'.name = dialog.name
      /\ dialog'.values = vals /\ dialog'.stray = stray
      /\ dialog'.loading = load /\ dialog'.list = list
  BY <1>1, <1>2, <1>4 DEF FilterDialog
<1>9. OwnValues(dialog)' BY <1>5, <1>8 DEF OwnValues
<1>11. asked' \subseteq Reads BY <1>1 DEF DialogInv
<1> QED BY <1>1, <1>6, <1>7, <1>8, <1>9, <1>11, DialogStays

LEMMA FailStep ==
  ASSUME EditorConstants, DialogInv, NEW r \in asked, Editor!Fail(r) PROVE DialogInv'
<1> DEFINE load  == dialog.loading /\ ~ r.listed
           stray == dialog.stray \/ (r.listed /\ dialog.list \notin {Editor!Nothing, dialog.name})
<1>1. /\ dialog' = [dialog EXCEPT !.loading = load, !.stray = stray]
      /\ asked' = asked \ {r} /\ filters' = filters
  BY DEF Editor!Fail
<1>2. r \in Reads /\ dialog \in FilterDialog BY DEF DialogInv
<1>3. r.listed \in BOOLEAN BY <1>2 DEF Reads
<1>4. load \in BOOLEAN /\ stray \in BOOLEAN BY <1>2, <1>3 DEF FilterDialog
<1>5. stray \/ load \/ dialog.list \in {Editor!Nothing, dialog.name} BY <1>3 DEF DialogInv
<1>6. dialog.stray => stray OBVIOUS
<1> HIDE DEF load, stray
<1>7. /\ dialog' \in FilterDialog
      /\ dialog'.mode = dialog.mode /\ dialog'.row = dialog.row /\ dialog'.name = dialog.name
      /\ dialog'.values = dialog.values /\ dialog'.stray = stray
      /\ dialog'.loading = load /\ dialog'.list = dialog.list
  BY <1>1, <1>2, <1>4 DEF FilterDialog
<1>8. OwnValues(dialog)' BY <1>6, <1>7 DEF OwnValues, DialogInv
<1>10. asked' \subseteq Reads BY <1>1 DEF DialogInv
<1> QED BY <1>1, <1>5, <1>6, <1>7, <1>8, <1>10, DialogStays

\* A dialog that is not there says nothing.
LEMMA ClosedDialog == ASSUME dialog' = Editor!NoDialog, asked' \subseteq Reads PROVE DialogInv'
<1>1. OwnValues(dialog)' BY NoDialogForm DEF OwnValues
<1> QED BY <1>1, NoDialogForm, DialogNext

LEMMA OrphanedReads == DialogInv => Editor!Orphaned \subseteq Reads
<1>1. \A r \in Reads : [r EXCEPT !.listed = FALSE, !.open = FALSE] \in Reads BY DEF Reads
<1> QED BY <1>1 DEF Editor!Orphaned, DialogInv

LEMMA SameDialog ==
  ASSUME DialogInv, UNCHANGED <<dialog, asked>>, filters' = filters PROVE DialogInv'
BY DEF DialogInv, OwnValues, Editor!Offered

-----------------------------------------------------------------------------
LEMMA FiltersForm ==
  ASSUME RowsInv
  PROVE  /\ DOMAIN filters = 1 .. Len(filters)
         /\ Editor!Range(filters) = {filters[i] : i \in 1 .. Len(filters)}
         /\ Editor!Range(filters) \subseteq ShownRow
<1>1. filters \in Seq(ShownRow) BY DEF RowsInv
<1>2. DOMAIN filters = 1 .. Len(filters) BY <1>1, LenProperties
<1>3. \A i \in 1 .. Len(filters) : filters[i] \in ShownRow BY <1>1, ElementOfSeq
<1>4. Editor!Range(filters) = {filters[i] : i \in 1 .. Len(filters)} BY <1>2 DEF Editor!Range
<1> QED BY <1>2, <1>3, <1>4

LEMMA ServerStays ==
  ASSUME UNCHANGED stored,
         RowsInv, filters' \in Seq(ShownRow),
         \A i, j \in 1 .. Len(filters') : filters'[i].name = filters'[j].name => i = j,
         \A f \in Editor!Range(filters') : OwnValues(f) /\ f.key \in {Editor!Nothing, f.name}
  PROVE  RowsInv'
BY DEF RowsInv, OwnValues

\* The page's filters without some of them.
LEMMA SomeLeft ==
  ASSUME RowsInv, NEW gone
  PROVE  LET w == Editor!Without(filters, gone)
         IN /\ w \in Seq(ShownRow) /\ Editor!Range(w) = Editor!Range(filters) \ gone
            /\ \A i, j \in 1 .. Len(w) : w[i].name = w[j].name => i = j
<1>1. filters \in Seq(ShownRow) /\ \A i, j \in 1 .. Len(filters) : filters[i].name = filters[j].name => i = j
  BY DEF RowsInv
<1> QED BY <1>1, WithoutForm

\* One row in front of others.
LEMMA OneInFront ==
  ASSUME NEW T, NEW e \in T, NEW all \in Seq(T)
  PROVE  LET new == <<e>> \o all
         IN /\ new \in Seq(T) /\ Len(new) = Len(all) + 1
            /\ \A i \in 1 .. Len(all) + 1 : new[i] = IF i = 1 THEN e ELSE all[i - 1]
            /\ Editor!Range(new) = Editor!Range(all) \cup {e}
<1> DEFINE new == <<e>> \o all
           n == Len(all)
           h == <<e>>
<1>1. n \in Nat /\ DOMAIN all = 1 .. n BY LenProperties
<1>2. h \in Seq(T) /\ Len(h) = 1 /\ h[1] = e OBVIOUS
<1>3. new = h \o all OBVIOUS
<1> HIDE DEF h, n, new
<1>4. /\ new \in Seq(T) /\ Len(new) = 1 + n
      /\ \A i \in 1 .. 1 + n : new[i] = IF i <= 1 THEN h[i] ELSE all[i - 1]
  <2>1. /\ h \o all \in Seq(T) /\ Len(h \o all) = Len(h) + Len(all)
        /\ \A i \in 1 .. Len(h) + Len(all) :
             (h \o all)[i] = IF i <= Len(h) THEN h[i] ELSE all[i - Len(h)]
    BY <1>2, ConcatProperties
  <2> QED BY <1>2, <1>3, <2>1 DEF n
<1>5. 1 + n = n + 1 BY <1>1
<1>6. \A i \in 1 .. n + 1 : new[i] = IF i = 1 THEN e ELSE all[i - 1]
  <2> TAKE i \in 1 .. n + 1
  <2>1. i <= 1 <=> i = 1 BY <1>1
  <2> QED BY <1>2, <1>4, <1>5, <2>1
<1>7. DOMAIN new = 1 .. n + 1 BY <1>4, <1>5, LenProperties
<1>8. Editor!Range(new) = Editor!Range(all) \cup {e}
  <2>1. Editor!Range(new) = {new[i] : i \in 1 .. n + 1} BY <1>7 DEF Editor!Range
  <2>2. Editor!Range(all) = {all[i] : i \in 1 .. n} BY <1>1 DEF Editor!Range
  <2>3. \A i \in 1 .. n + 1 : i = 1 \/ i - 1 \in 1 .. n BY <1>1
  <2>4. \A i \in 1 .. n : i + 1 \in 1 .. n + 1 /\ i + 1 # 1 /\ (i + 1) - 1 = i BY <1>1
  <2>5. 1 \in 1 .. n + 1 BY <1>1
  <2>6. \A i \in 1 .. n + 1 : new[i] = e \/ new[i] \in {all[j] : j \in 1 .. n} BY <1>6, <2>3
  <2>7. \A i \in 1 .. n : all[i] = new[i + 1] BY <1>6, <2>4
  <2>8. e = new[1] BY <1>6, <2>5
  <2> QED BY <2>1, <2>2, <2>4, <2>5, <2>6, <2>7, <2>8
<1> QED BY <1>4, <1>5, <1>6, <1>8 DEF n, new

\* What is kept of the filters that stay on the page.
LEMMA KeptStays ==
  ASSUME KeptInv, stored' = stored, open' = open, kept' \subseteq kept,
         \A f \in Editor!Range(filters), k \in kept' :
           f.name = k.name /\ f.key = k.name => f \in Editor!Range(filters')
  PROVE  KeptInv'
<1> SUFFICES ASSUME NEW k \in kept' PROVE FilterStays(k)' /\ (open' => FilterShown(k)') BY DEF KeptInv
<1>1. FilterStays(k) /\ (open => FilterShown(k)) BY DEF KeptInv
<1>2. FilterStays(k)' BY <1>1 DEF FilterStays
<1>3. ASSUME open PROVE FilterShown(k)'
  <2>1. PICK f \in Editor!Range(filters) : f.name = k.name /\ f.values = k.values /\ f.key = k.name
    BY <1>1, <1>3 DEF FilterShown
  <2>2. f \in Editor!Range(filters') BY <2>1
  <2> QED BY <2>1, <2>2 DEF FilterShown
<1> QED BY <1>2, <1>3

LEMMA KeptNames == ASSUME RowsInv, KeptInv PROVE \A k \in kept : k.name \in Editor!Attributes
BY DEF RowsInv, KeptInv, FilterStays, SavedRow

LEMMA ConfirmRows ==
  ASSUME EditorConstants, RowsInv, DialogInv, Editor!Confirm
  PROVE  RowsInv'
<1> DEFINE new  == [name |-> dialog.name, values |-> dialog.values, stray |-> dialog.stray,
                    key |-> Editor!Nothing]
           gone == {f \in Editor!Range(filters) : Editor!Same(f.name)}
           rest == Editor!Without(filters, gone)
           all  == <<new>> \o rest
<1>1. /\ filters' = all /\ stored' = stored
      /\ dialog.mode # Editor!Nothing /\ dialog.name # Editor!Nothing
  BY DEF Editor!Confirm
<1>2. dialog \in FilterDialog /\ OwnValues(dialog) /\ dialog.name \in Editor!Offered
  BY <1>1 DEF DialogInv
<1>3. new \in ShownRow /\ new.name = dialog.name /\ new.key = Editor!Nothing /\ OwnValues(new)
  BY <1>1, <1>2 DEF FilterDialog, Names, ShownRow, OwnValues
<1>4. /\ rest \in Seq(ShownRow) /\ Editor!Range(rest) = Editor!Range(filters) \ gone
      /\ \A i, j \in 1 .. Len(rest) : rest[i].name = rest[j].name => i = j
  BY SomeLeft
<1>5. \A f \in Editor!Range(filters) \ gone : f.name # dialog.name
  <2> SUFFICES ASSUME NEW f \in Editor!Range(filters) \ gone, f.name = dialog.name PROVE FALSE OBVIOUS
  <2>1. f.name \in Editor!Names(Editor!Range(filters)) BY DEF Editor!Names
  <2>2. dialog.mode = "edit" /\ dialog.name = dialog.row.name BY <1>2, <2>1 DEF Editor!Offered
  <2>3. Editor!Same(f.name) BY <2>2 DEF Editor!Same
  <2> QED BY <2>3
<1> HIDE DEF new, gone, rest
<1>6. /\ all \in Seq(ShownRow) /\ Len(all) = Len(rest) + 1
      /\ \A i \in 1 .. Len(rest) + 1 : all[i] = IF i = 1 THEN new ELSE rest[i - 1]
      /\ Editor!Range(all) = Editor!Range(rest) \cup {new}
  BY <1>3, <1>4, OneInFront
<1> HIDE DEF all
<1>7. Len(rest) \in Nat /\ DOMAIN rest = 1 .. Len(rest) BY <1>4, LenProperties
<1>8. ASSUME NEW i \in 1 .. Len(all), NEW j \in 1 .. Len(all), all[i].name = all[j].name PROVE i = j
  <2>1. ASSUME NEW x \in 1 .. Len(rest) PROVE rest[x].name # new.name
    <3>1. rest[x] \in Editor!Range(rest) BY <1>7 DEF Editor!Range
    <3> QED BY <1>3, <1>4, <1>5, <3>1
  <2>2. (i = 1 \/ i - 1 \in 1 .. Len(rest)) /\ (j = 1 \/ j - 1 \in 1 .. Len(rest)) BY <1>6, <1>7
  <2>3. CASE i = 1 \/ j = 1 BY <1>6, <1>8, <2>1, <2>2, <2>3
  <2>4. CASE i # 1 /\ j # 1
    <3>1. all[i] = rest[i - 1] /\ all[j] = rest[j - 1] BY <1>6, <2>4
    <3>2. i - 1 = j - 1 BY <1>4, <1>8, <2>2, <2>4, <3>1
    <3> QED BY <1>6, <1>7, <3>2
  <2> QED BY <2>3, <2>4
<1>9. \A f \in Editor!Range(all) : OwnValues(f) /\ f.key \in {Editor!Nothing, f.name}
  BY <1>3, <1>4, <1>6 DEF RowsInv
<1> QED BY <1>1, <1>6, <1>8, <1>9, ServerStays

LEMMA ConfirmKept ==
  ASSUME EditorConstants, RowsInv, DialogInv, KeptInv, Editor!Confirm
  PROVE  KeptInv'
<1> DEFINE new  == [name |-> dialog.name, values |-> dialog.values, stray |-> dialog.stray,
                    key |-> Editor!Nothing]
           gone == {f \in Editor!Range(filters) : Editor!Same(f.name)}
           rest == Editor!Without(filters, gone)
           all  == <<new>> \o rest
<1>1. /\ filters' = all /\ stored' = stored /\ open' = open
      /\ kept' = {k \in kept : ~ Editor!Same(k.name)}
      /\ dialog.name # Editor!Nothing
  BY DEF Editor!Confirm
<1>2. rest \in Seq(ShownRow) /\ Editor!Range(rest) = Editor!Range(filters) \ gone BY SomeLeft
<1>3. new \in ShownRow BY <1>1 DEF DialogInv, FilterDialog, Names, ShownRow
<1> HIDE DEF new, gone, rest
<1>4. Editor!Range(all) = Editor!Range(rest) \cup {new} BY <1>2, <1>3, OneInFront
<1> HIDE DEF all
<1>5. kept' \subseteq kept BY <1>1
<1>6. ASSUME NEW f \in Editor!Range(filters), NEW k \in kept', f.name = k.name
      PROVE  f \in Editor!Range(filters')
  <2>1. ~ Editor!Same(f.name) BY <1>1, <1>6
  <2> QED BY <1>1, <1>2, <1>4, <2>1 DEF gone
<1> QED BY <1>1, <1>5, <1>6, KeptStays

LEMMA DeleteStep ==
  ASSUME EditorConstants, RowsInv, DialogInv, KeptInv, NEW f \in Editor!Range(filters), Editor!DeleteFilter(f)
  PROVE  RowsInv' /\ DialogInv' /\ KeptInv'
<1> DEFINE gone == {g \in Editor!Range(filters) : g.key = f.key}
           rest == Editor!Without(filters, gone)
<1>1. /\ filters' = rest /\ stored' = stored /\ open' = open
      /\ kept' = {k \in kept : k.name # f.name}
      /\ UNCHANGED <<dialog, asked>> /\ dialog.mode = Editor!Nothing
  BY DEF Editor!DeleteFilter, Editor!Idle
<1>2. /\ rest \in Seq(ShownRow) /\ Editor!Range(rest) = Editor!Range(filters) \ gone
      /\ \A i, j \in 1 .. Len(rest) : rest[i].name = rest[j].name => i = j
  BY SomeLeft
<1> HIDE DEF gone, rest
<1>3. RowsInv'
  <2>1. \A g \in Editor!Range(rest) : OwnValues(g) /\ g.key \in {Editor!Nothing, g.name}
    BY <1>2 DEF RowsInv
  <2> QED BY <1>1, <1>2, <2>1, ServerStays
<1>4. DialogInv'
  <2>1. dialog' = dialog /\ asked' = asked BY <1>1
  <2>2. OwnValues(dialog)' BY <2>1 DEF DialogInv, OwnValues
  <2>3. dialog.mode # "edit" BY <1>1, NoDialogForm
  <2> QED BY <1>1, <2>1, <2>2, <2>3, DialogNext DEF DialogInv
<1>5. ASSUME NEW g \in Editor!Range(filters), NEW k \in kept', g.name = k.name, g.key = k.name
      PROVE  g \in Editor!Range(filters')
  <2>1. k.name # f.name /\ k.name \in Editor!Attributes BY <1>1, KeptNames
  <2>2. f.key \in {Editor!Nothing, f.name} BY DEF RowsInv
  <2>3. g \notin gone
    <3> SUFFICES ASSUME f.key = k.name PROVE FALSE BY <1>5 DEF gone
    <3> QED BY <2>1, <2>2 DEF EditorConstants
  <2> QED BY <1>1, <1>2, <2>3
<1>6. KeptInv' BY <1>1, <1>5, KeptStays
<1> QED BY <1>3, <1>4, <1>6

-----------------------------------------------------------------------------
\* The dialog is there only on the page.
OnPage == dialog.mode # Editor!Nothing => open

\* What is sent of a filter.
LEMMA SentForm ==
  ASSUME NEW f \in ShownRow, OwnValues(f), NEW g \in Editor!Sendable(f)
  PROVE  /\ g \in SavedRow /\ g.name = f.name /\ OwnValues(g)
         /\ \/ g.values = f.values
            \/ Editor!All \in f.values /\ g.values = {Editor!All}
            \/ f.name = "ip" /\ g.values \subseteq f.values
<1>1. PICK V \in Editor!Sent(f) : g = [name |-> f.name, values |-> V, stray |-> f.stray]
  BY DEF Editor!Sendable
<1>2. \/ V = f.values
      \/ Editor!All \in f.values /\ V = {Editor!All}
      \/ f.name = "ip" /\ V \subseteq f.values
  <2>1. CASE f.name = "ip" /\ f.key # Editor!Nothing
    <3>1. Editor!Sent(f) = {{x} : x \in f.values} BY <2>1 DEF Editor!Sent
    <3> QED BY <2>1, <3>1
  <2>2. CASE f.name # "ip" /\ Editor!All \in f.values
    <3>1. Editor!Sent(f) = {{Editor!All}} BY <2>2 DEF Editor!Sent
    <3> QED BY <2>2, <3>1
  <2>3. CASE /\ ~ (f.name = "ip" /\ f.key # Editor!Nothing)
             /\ ~ (f.name # "ip" /\ Editor!All \in f.values)
    <3>1. Editor!Sent(f) = {f.values} BY <2>3 DEF Editor!Sent
    <3> QED BY <3>1
  <2> QED BY <2>1, <2>2, <2>3
<1>3. f.values \in SUBSET Values /\ f.name \in Editor!Attributes /\ f.stray \in BOOLEAN BY DEF ShownRow
<1>4. V \in SUBSET Values BY <1>2, <1>3, ValuesForm
<1>5. g \in SavedRow /\ g.name = f.name /\ g.values = V /\ g.stray = f.stray
  BY <1>1, <1>3, <1>4 DEF SavedRow
<1>6. OwnValues(g) BY <1>2, <1>5 DEF OwnValues
<1> QED BY <1>2, <1>5, <1>6

LEMMA NothingShown ==
  /\ <<>> \in Seq(ShownRow) /\ Len(<<>>) = 0 /\ Editor!Range(<<>>) = {}
  /\ <<>> \in Seq(Editor!Range(<<>>))
BY DEF Editor!Range

LEMMA LeaveDialog ==
  ASSUME Editor!Leave PROVE DialogInv' /\ OnPage'
<1>1. dialog' = Editor!NoDialog /\ asked' = {} BY DEF Editor!Leave
<1> QED BY <1>1, ClosedDialog, NoDialogForm DEF OnPage

LEMMA SaveStep ==
  ASSUME EditorConstants, EditorInv, Editor!Save
  PROVE  EditorInv' /\ OnPage'
<1>1. PICK saved \in [DOMAIN filters -> UNION {Editor!Sendable(f) : f \in Editor!Range(filters)}] :
        /\ \A n \in DOMAIN filters : saved[n] \in Editor!Sendable(filters[n]) /\ Editor!Accepted(saved[n])
        /\ stored' = [filters |-> Editor!Range(saved), rules |-> rules]
  BY DEF Editor!Save
<1>2. open /\ Editor!Leave BY DEF Editor!Save, Editor!Idle
<1>3. /\ open' = FALSE /\ filters' = <<>> /\ rules' = <<>> /\ kept' = kept /\ settled' = settled
  BY <1>2 DEF Editor!Leave
<1>4. stored'.filters = Editor!Range(saved) /\ stored'.rules = rules BY <1>1
<1> DEFINE n == Len(filters)
<1>5. /\ DOMAIN filters = 1 .. n /\ \A i \in 1 .. n : filters[i] \in ShownRow /\ OwnValues(filters[i])
      /\ Editor!Range(filters) = {filters[i] : i \in 1 .. n}
  BY FiltersForm DEF EditorInv, RowsInv
<1> HIDE DEF n
<1>6. Editor!Range(saved) = {saved[i] : i \in 1 .. n} BY <1>5 DEF Editor!Range
<1>7. \A i \in 1 .. n : /\ saved[i] \in SavedRow /\ saved[i].name = filters[i].name /\ OwnValues(saved[i])
                        /\ \/ saved[i].values = filters[i].values
                           \/ Editor!All \in filters[i].values /\ saved[i].values = {Editor!All}
                           \/ filters[i].name = "ip" /\ saved[i].values \subseteq filters[i].values
  BY <1>1, <1>5, SentForm
<1>8. RowsInv'
  <2>1. \A f, g \in Editor!Range(saved) : f.name = g.name => f = g
    <3> SUFFICES ASSUME NEW i \in 1 .. n, NEW j \in 1 .. n, saved[i].name = saved[j].name
                 PROVE  saved[i] = saved[j]
      BY <1>6
    <3>1. i = j BY <1>7 DEF EditorInv, RowsInv, n
    <3> QED BY <3>1
  <2>2. \A f \in Editor!Range(saved) : f \in SavedRow /\ OwnValues(f) BY <1>6, <1>7
  <2> QED BY <1>3, <1>4, <2>1, <2>2, NothingShown DEF RowsInv, OwnValues
<1>9. KeptInv'
  <2> SUFFICES ASSUME NEW k \in kept PROVE FilterStays(k)' BY <1>3 DEF KeptInv
  <2>1. PICK f \in Editor!Range(filters) : f.name = k.name /\ f.values = k.values
    BY <1>2 DEF EditorInv, KeptInv, FilterShown
  <2>2. PICK i \in 1 .. n : f = filters[i] BY <1>5
  <2>3. saved[i] \in stored'.filters BY <1>4, <1>6
  <2> QED BY <1>7, <2>1, <2>2, <2>3 DEF FilterStays
<1>10. SettledInv'
  <2>1. settled \subseteq Editor!Range(rules) /\ rules \in Seq(Editor!Range(rules))
        /\ \A r \in settled : r.key # Editor!NoKey
    BY <1>2 DEF EditorInv, SettledInv
  <2> QED BY <1>3, <1>4, <2>1, NothingShown DEF SettledInv
<1>11. DialogInv' /\ OnPage' BY <1>2, LeaveDialog
<1> QED BY <1>8, <1>9, <1>10, <1>11 DEF EditorInv

LEMMA AbandonStep ==
  ASSUME EditorConstants, EditorInv, Editor!Abandon
  PROVE  EditorInv' /\ OnPage'
<1>1. open /\ Editor!Leave /\ stored' = stored BY DEF Editor!Abandon
<1>2. open' = FALSE /\ filters' = <<>> /\ rules' = <<>> /\ kept' = kept /\ settled' = settled
  BY <1>1 DEF Editor!Leave
<1>3. RowsInv' BY <1>1, <1>2, NothingShown, ServerStays DEF EditorInv
<1>4. KeptInv' BY <1>1, <1>2 DEF EditorInv, KeptInv, FilterStays
<1>5. SettledInv' BY <1>1, <1>2, NothingShown DEF EditorInv, SettledInv
<1>6. DialogInv' /\ OnPage' BY <1>1, LeaveDialog
<1> QED BY <1>3, <1>4, <1>5, <1>6 DEF EditorInv

LEMMA OpenStep ==
  ASSUME EditorConstants, EditorInv, OnPage, Editor!Open
  PROVE  EditorInv' /\ OnPage'
<1> DEFINE K == {Editor!Keyed(f) : f \in stored.filters}
           all == Editor!SetToSeq(K)
<1>1. /\ ~ open /\ open' = TRUE /\ filters' = all /\ rules' = stored.rules /\ stored' = stored
      /\ kept' = {[name |-> f.name, values |-> f.values] : f \in stored.filters}
      /\ settled' = {r \in Editor!Range(stored.rules) : r.key # Editor!NoKey}
      /\ dialog' = dialog /\ asked' = asked
  BY DEF Editor!Open
<1>2. /\ stored.filters \subseteq SavedRow
      /\ \A f, g \in stored.filters : f.name = g.name => f = g
      /\ \A f \in stored.filters : OwnValues(f)
  BY DEF EditorInv, RowsInv
<1>3. \A f \in stored.filters :
        /\ Editor!Keyed(f) \in ShownRow /\ Editor!Keyed(f).name = f.name
        /\ Editor!Keyed(f).values = f.values /\ Editor!Keyed(f).key = f.name
        /\ OwnValues(Editor!Keyed(f))
  BY <1>2 DEF Editor!Keyed, SavedRow, ShownRow, OwnValues, Names
<1>4. K \subseteq ShownRow /\ \A f \in K : f.name \in Editor!Attributes /\ f.key = f.name /\ OwnValues(f)
  BY <1>3 DEF ShownRow
<1>5. \A f, g \in K : f.name = g.name => f = g BY <1>2, <1>3
<1> HIDE DEF K
<1>6. IsFiniteSet(K)
  <2>1. IsFiniteSet(Editor!Attributes) BY DEF EditorConstants
  <2> HIDE DEF EditorConstants
  <2> QED BY <1>4, <1>5, <2>1, FewNamed
<1>7. /\ all \in Seq(K) /\ Editor!Range(all) = K
      /\ \A i, j \in 1 .. Len(all) : all[i] = all[j] => i = j
  BY <1>6, SeqOfSet
<1> HIDE DEF all
<1>8. all \in Seq(ShownRow) /\ \A i \in 1 .. Len(all) : all[i] \in K
  BY <1>4, <1>7, SeqMonotonic, ElementOfSeq, LenProperties
<1>9. RowsInv'
  <2>1. \A i, j \in 1 .. Len(all) : all[i].name = all[j].name => i = j BY <1>5, <1>7, <1>8
  <2>2. \A f \in Editor!Range(all) : OwnValues(f) /\ f.key \in {Editor!Nothing, f.name} BY <1>4, <1>7
  <2>3. RowsInv BY DEF EditorInv
  <2> QED BY <1>1, <1>8, <2>1, <2>2, <2>3, ServerStays
<1>10. KeptInv'
  <2> SUFFICES ASSUME NEW k \in kept' PROVE FilterStays(k)' /\ FilterShown(k)' BY DEF KeptInv
  <2>1. PICK f \in stored.filters : k = [name |-> f.name, values |-> f.values] BY <1>1
  <2>2. k.name = f.name /\ k.values = f.values BY <2>1
  <2>3. FilterStays(k)' BY <1>1, <2>2 DEF FilterStays
  <2>4. Editor!Keyed(f) \in Editor!Range(filters') BY <1>1, <1>7 DEF K
  <2>5. FilterShown(k)' BY <1>3, <2>2, <2>4 DEF FilterShown
  <2> QED BY <2>3, <2>5
<1>11. SettledInv' BY <1>1 DEF EditorInv, SettledInv
<1>12. DialogInv' /\ OnPage'
  <2>1. dialog.mode = Editor!Nothing BY <1>1 DEF OnPage
  <2>2. DialogInv BY DEF EditorInv
  <2>3. OwnValues(dialog)' BY <1>1, <2>2 DEF DialogInv, OwnValues
  <2>4. dialog.mode # "edit" BY <2>1, NoDialogForm
  <2>5. DialogInv' BY <1>1, <2>1, <2>2, <2>3, <2>4, DialogNext DEF DialogInv
  <2> QED BY <1>1, <2>5 DEF OnPage
<1> QED BY <1>9, <1>10, <1>11, <1>12 DEF EditorInv

\* A rule that is saved goes in front; one of its key at most goes.
LEMMA SaveRuleStep ==
  ASSUME SettledInv, Editor!SaveRule
  PROVE  SettledInv'
<1> DEFINE new  == [content |-> form.content,
                    key |-> IF form.mode = "edit" /\ form.key # Editor!NoKey THEN form.key ELSE Editor!NewKey]
           same == {i \in DOMAIN rules : form.mode = "edit" /\ Editor!Replaced(rules[i])}
           at   == CHOOSE i \in same : \A j \in same : i <= j
           n    == Len(rules)
<1>1. /\ rules' = (IF same = {} THEN <<new>> \o rules ELSE Editor!InFront(new, at))
      /\ settled' = {r \in settled : form.mode = "add" \/ r.key # form.key}
      /\ stored' = stored /\ open' = open
  BY DEF Editor!SaveRule
<1>2. n \in Nat /\ DOMAIN rules = 1 .. n /\ Editor!Range(rules) = {rules[i] : i \in 1 .. n}
  BY LenProperties DEF SettledInv, Editor!Range
<1>3. /\ rules' \in Seq(Editor!Range(rules'))
      /\ \A r \in Editor!Range(rules) : (form.mode = "edit" => r.key # form.key) => r \in Editor!Range(rules')
  <2>1. CASE same = {}
    <3> DEFINE T == Editor!Range(rules) \cup {new}
    <3> HIDE DEF new
    <3>1. new \in T /\ rules \in Seq(T) BY SeqMonotonic DEF SettledInv
    <3>2. PICK e \in T : e = new BY <3>1
    <3>3. /\ <<e>> \o rules \in Seq(T)
          /\ Editor!Range(<<e>> \o rules) = Editor!Range(rules) \cup {e}
      <4> HIDE DEF T
      <4> QED BY <3>1, OneInFront
    <3> QED BY <1>1, <2>1, <3>2, <3>3
  <2>2. CASE same # {}
    <3> HIDE DEF new
    <3>1. at \in same
      <4> DEFINE S == same
      <4>1. S \subseteq Nat /\ S # {} BY <1>2, <2>2
      <4> HIDE DEF S
      <4>2. \E i \in S : \A j \in S : i <= j BY <4>1, LeastOf
      <4>3. \E i \in same : \A j \in same : i <= j BY <4>2 DEF S
      <4> QED BY <4>3
    <3>2. at \in 1 .. n /\ form.mode = "edit" /\ rules[at].key = form.key
      BY <1>2, <3>1 DEF Editor!Replaced
    <3> HIDE DEF at, same, n
    <3>3. rules' = [i \in 1 .. n |-> IF i = 1 THEN new ELSE IF i <= at THEN rules[i - 1] ELSE rules[i]]
      BY <1>1, <1>2, <2>2 DEF Editor!InFront
    <3>4. \A i \in 1 .. n : rules'[i] = IF i = 1 THEN new ELSE IF i <= at THEN rules[i - 1] ELSE rules[i]
      BY <3>3
    <3>5. rules' \in [1 .. n -> Editor!Range(rules')]
      <4>1. rules' = [i \in 1 .. n |-> rules'[i]] /\ DOMAIN rules' = 1 .. n BY <3>3
      <4>2. \A i \in 1 .. n : rules'[i] \in Editor!Range(rules') BY <4>1 DEF Editor!Range
      <4> QED BY <4>1, <4>2
    <3>6. \A i \in 1 .. n : i # at => \E j \in 1 .. n : rules'[j] = rules[i]
      <4> SUFFICES ASSUME NEW i \in 1 .. n, i # at PROVE \E j \in 1 .. n : rules'[j] = rules[i] OBVIOUS
      <4>1. CASE i < at
        <5>1. i + 1 \in 1 .. n /\ i + 1 # 1 /\ i + 1 <= at /\ (i + 1) - 1 = i BY <1>2, <3>2, <4>1
        <5>2. rules'[i + 1] = rules[i] BY <3>4, <5>1
        <5> QED BY <5>1, <5>2
      <4>2. CASE ~ (i < at)
        <5>1. i # 1 /\ ~ (i <= at) BY <1>2, <3>2, <4>2
        <5>2. rules'[i] = rules[i] BY <3>4, <5>1
        <5> QED BY <5>2
      <4> QED BY <4>1, <4>2
    <3>7. rules' \in Seq(Editor!Range(rules')) BY <1>2, <3>5
    <3>8. DOMAIN rules' = 1 .. n BY <3>3
    <3>9. ASSUME NEW r \in Editor!Range(rules), r.key # form.key PROVE r \in Editor!Range(rules')
      <4>1. PICK i \in 1 .. n : r = rules[i] BY <1>2
      <4>2. i # at BY <3>2, <3>9, <4>1
      <4>3. PICK j \in 1 .. n : rules'[j] = rules[i] BY <3>6, <4>2
      <4> QED BY <3>8, <4>1, <4>3 DEF Editor!Range
    <3> QED BY <3>2, <3>7, <3>9
  <2> QED BY <2>1, <2>2
<1>4. \A r \in settled' : form.mode = "edit" => r.key # form.key BY <1>1
<1>5. settled' \subseteq settled BY <1>1
<1> QED BY <1>1, <1>3, <1>4, <1>5 DEF SettledInv

-----------------------------------------------------------------------------
\* Steps of a dialog change nothing of the page and of the server.
LEMMA EditorStays ==
  ASSUME EditorInv, DialogInv', UNCHANGED <<stored, open, filters, rules, kept, settled>>
  PROVE  EditorInv'
<1>1. RowsInv' BY DEF EditorInv, RowsInv, OwnValues
<1>2. KeptInv' BY DEF EditorInv, KeptInv, FilterStays, FilterShown
<1>3. SettledInv' BY DEF EditorInv, SettledInv
<1> QED BY <1>1, <1>2, <1>3 DEF EditorInv

LEMMA DialogOpens ==
  ASSUME NEW d, NEW old, Editor!Show(d, old), open, open' = open PROVE OnPage'
BY DEF OnPage

LEMMA ValueShown ==
  ASSUME OnPage, DialogInv, NEW V, NEW text, Editor!Value(V, text) PROVE OnPage'
<1>1. dialog' = [dialog EXCEPT !.values = V, !.text = text] /\ open' = open BY DEF Editor!Value
<1>2. dialog'.mode = dialog.mode BY <1>1 DEF DialogInv, FilterDialog
<1> QED BY <1>1, <1>2 DEF OnPage

LEMMA ClosedStep ==
  ASSUME DialogInv, Editor!Close PROVE DialogInv' /\ OnPage'
<1>1. dialog' = Editor!NoDialog /\ asked' \subseteq Reads BY OrphanedReads DEF Editor!Close
<1> QED BY <1>1, ClosedDialog, NoDialogForm DEF OnPage

LEMMA ConfirmedStep ==
  ASSUME EditorConstants, EditorInv, Editor!Confirm PROVE EditorInv' /\ OnPage'
<1>1. Editor!Close /\ UNCHANGED <<stored, open, rules, settled>> BY DEF Editor!Confirm
<1>2. RowsInv' /\ KeptInv' BY ConfirmRows, ConfirmKept DEF EditorInv
<1>3. DialogInv' /\ OnPage' BY <1>1, ClosedStep DEF EditorInv
<1>4. SettledInv' BY <1>1 DEF EditorInv, SettledInv
<1> QED BY <1>2, <1>3, <1>4 DEF EditorInv

LEMMA CancelledStep ==
  ASSUME EditorConstants, EditorInv, Editor!Cancel PROVE EditorInv' /\ OnPage'
<1>1. Editor!Close /\ UNCHANGED <<stored, open, filters, rules, kept, settled>> BY DEF Editor!Cancel
<1>2. DialogInv' /\ OnPage' BY <1>1, ClosedStep DEF EditorInv
<1> QED BY <1>1, <1>2, EditorStays

\* What else the dialog about a filter does.
DialogStep ==
  \/ Editor!AddFilter \/ Editor!Search
  \/ \E f \in Editor!Range(filters) : Editor!EditFilter(f)
  \/ \E a \in Editor!Attributes : Editor!Choose(a)
  \/ \E V : Editor!Type(V) \/ Editor!Tick(V)
  \/ \E x : Editor!Pick(x)
  \/ \E r \in asked : Editor!Answer(r) \/ Editor!Fail(r)

LEMMA DialogSteps ==
  ASSUME EditorConstants, EditorInv, OnPage, DialogStep PROVE EditorInv' /\ OnPage'
<1>1. RowsInv /\ DialogInv BY DEF EditorInv
<1> DEFINE Rest == UNCHANGED <<stored, open, filters, rules, kept, settled>>
           Goal == DialogInv' /\ OnPage' /\ Rest
<1>2. ASSUME Editor!AddFilter PROVE Goal
  <2>1. Rest /\ open BY <1>2 DEF Editor!AddFilter, Editor!Idle
  <2> QED BY <1>1, <1>2, <2>1, AddStep DEF OnPage
<1>3. ASSUME Editor!Search PROVE Goal
  <2>1. Rest /\ \E all \in BOOLEAN : Editor!Ask(dialog, asked, all) BY <1>3 DEF Editor!Search
  <2>2. dialog'.mode = dialog.mode BY <1>1, <2>1 DEF Editor!Ask, DialogInv, FilterDialog
  <2> QED BY <1>1, <1>3, <2>1, <2>2, SearchedStep DEF OnPage
<1>4. ASSUME NEW f \in Editor!Range(filters), Editor!EditFilter(f) PROVE Goal
  <2>1. Rest /\ open BY <1>4 DEF Editor!EditFilter, Editor!Idle
  <2> QED BY <1>1, <1>4, <2>1, EditStep DEF OnPage
<1>5. ASSUME NEW a \in Editor!Attributes, Editor!Choose(a) PROVE Goal
  <2>1. Rest /\ open BY <1>5 DEF Editor!Choose, OnPage
  <2> QED BY <1>1, <1>5, <2>1, ChooseStep DEF OnPage
<1>6. ASSUME NEW V, Editor!Type(V) PROVE Goal
  <2>1. Editor!Value(IF V = {} THEN {Editor!Blank} ELSE V, TRUE) BY <1>6 DEF Editor!Type
  <2>2. OnPage' BY <1>1, <2>1, ValueShown
  <2>3. Rest BY <2>1 DEF Editor!Value
  <2> QED BY <1>1, <1>6, <2>2, <2>3, TypedStep
<1>7. ASSUME NEW V, Editor!Tick(V) PROVE Goal
  <2>1. Editor!Value(V, FALSE) BY <1>7 DEF Editor!Tick
  <2>2. OnPage' BY <1>1, <2>1, ValueShown
  <2>3. Rest BY <2>1 DEF Editor!Value
  <2> QED BY <1>1, <1>7, <2>2, <2>3, TickStep
<1>8. ASSUME NEW x, Editor!Pick(x) PROVE Goal
  <2> DEFINE W == IF x \in dialog.values THEN dialog.values \ {x}
                  ELSE (dialog.values \ {Editor!Blank}) \cup {x}
  <2>1. Editor!Value(W, FALSE) BY <1>8 DEF Editor!Pick
  <2> HIDE DEF W
  <2>2. OnPage' BY <1>1, <2>1, ValueShown
  <2>3. Rest BY <2>1 DEF Editor!Value
  <2> QED BY <1>1, <1>8, <2>2, <2>3, PickStep
<1>9. ASSUME NEW r \in asked, Editor!Answer(r) PROVE Goal
  <2>1. dialog'.mode = dialog.mode BY <1>1, <1>9 DEF Editor!Answer, DialogInv, FilterDialog
  <2>2. Rest BY <1>9 DEF Editor!Answer
  <2> QED BY <1>1, <1>9, <2>1, <2>2, ReadStep DEF OnPage
<1>10. ASSUME NEW r \in asked, Editor!Fail(r) PROVE Goal
  <2>1. dialog'.mode = dialog.mode BY <1>1, <1>10 DEF Editor!Fail, DialogInv, FilterDialog
  <2>2. Rest BY <1>10 DEF Editor!Fail
  <2> QED BY <1>1, <1>10, <2>1, <2>2, FailStep DEF OnPage
<1> HIDE DEF Goal
<1>11. Goal BY <1>2, <1>3, <1>4, <1>5, <1>6, <1>7, <1>8, <1>9, <1>10 DEF DialogStep
<1> QED BY <1>11, EditorStays DEF Goal

\* The dialog about a rule, until it is saved.
RuleStep ==
  \/ Editor!AddRule \/ Editor!CancelRule
  \/ \E r \in Editor!Range(rules) : Editor!EditRule(r)
  \/ \E c \in RuleContents : Editor!WriteRule(c)

LEMMA RuleSteps ==
  ASSUME EditorInv, OnPage, RuleStep PROVE EditorInv' /\ OnPage'
<1>1. UNCHANGED <<stored, open, filters, rules, dialog, asked, kept, settled>>
  BY DEF RuleStep, Editor!AddRule, Editor!CancelRule, Editor!EditRule, Editor!WriteRule
<1>2. DialogInv' BY <1>1, SameDialog DEF EditorInv
<1> QED BY <1>1, <1>2, EditorStays DEF OnPage

LEMMA EditorStep ==
  ASSUME EditorConstants, EditorInv, OnPage, [Editor!Next]_(Editor!vars)
  PROVE  EditorInv' /\ OnPage'
<1>1. CASE UNCHANGED Editor!vars
  <2>1. UNCHANGED <<stored, open, filters, rules, dialog, asked, kept, settled>>
    BY <1>1 DEF Editor!vars
  <2>2. DialogInv' BY <2>1, SameDialog DEF EditorInv
  <2> QED BY <2>1, <2>2, EditorStays DEF OnPage
<1>2. CASE Editor!Open BY <1>2, OpenStep
<1>3. CASE Editor!Save BY <1>3, SaveStep
<1>4. CASE Editor!Abandon BY <1>4, AbandonStep
<1>5. CASE Editor!Confirm BY <1>5, ConfirmedStep
<1>6. CASE Editor!Cancel BY <1>6, CancelledStep
<1>7. CASE DialogStep BY <1>7, DialogSteps
<1>8. CASE RuleStep BY <1>8, RuleSteps
<1>9. CASE Editor!SaveRule
  <2>1. UNCHANGED <<stored, open, filters, dialog, asked, kept>> BY <1>9 DEF Editor!SaveRule
  <2>2. SettledInv' BY <1>9, SaveRuleStep DEF EditorInv
  <2>3. DialogInv' BY <2>1, SameDialog DEF EditorInv
  <2>4. RowsInv' BY <2>1 DEF EditorInv, RowsInv, OwnValues
  <2>5. KeptInv' BY <2>1 DEF EditorInv, KeptInv, FilterStays, FilterShown
  <2> QED BY <2>1, <2>2, <2>3, <2>4, <2>5 DEF EditorInv, OnPage
<1>10. ASSUME NEW f \in Editor!Range(filters), Editor!DeleteFilter(f) PROVE EditorInv' /\ OnPage'
  <2>1. UNCHANGED <<stored, open, rules, dialog, settled>> BY <1>10 DEF Editor!DeleteFilter
  <2>2. RowsInv' /\ DialogInv' /\ KeptInv' BY <1>10, DeleteStep DEF EditorInv
  <2>3. SettledInv' BY <2>1 DEF EditorInv, SettledInv
  <2> QED BY <2>1, <2>2, <2>3 DEF EditorInv, OnPage
<1>11. Editor!Next =>
         \/ Editor!Open \/ Editor!Save \/ Editor!Abandon \/ Editor!Confirm \/ Editor!Cancel
         \/ DialogStep \/ RuleStep \/ Editor!SaveRule
         \/ \E f \in Editor!Range(filters) : Editor!DeleteFilter(f)
  BY DEF Editor!Next, DialogStep, RuleStep
<1> QED BY <1>1, <1>2, <1>3, <1>4, <1>5, <1>6, <1>7, <1>8, <1>9, <1>10, <1>11

LEMMA EditorInit ==
  ASSUME EditorConstants, Editor!Init PROVE EditorInv /\ OnPage
<1>1. PICK S \in SUBSET Editor!Attributes :
        \E v \in [S -> UNION {Editor!Storable(a) : a \in S}] :
          \E k \in [1 .. MaxRules -> RuleContents \X (0 .. MaxRules)] \cup {<<>>} :
            /\ \A a \in S : v[a].name = a
            /\ \A n \in DOMAIN k : k[n][2] \in {Editor!NoKey, n}
            /\ stored = [filters |-> {v[a] : a \in S},
                         rules |-> [n \in DOMAIN k |-> [content |-> k[n][1], key |-> k[n][2]]]]
  BY DEF Editor!Init
<1>2. PICK v \in [S -> UNION {Editor!Storable(a) : a \in S}] :
        \E k \in [1 .. MaxRules -> RuleContents \X (0 .. MaxRules)] \cup {<<>>} :
          /\ \A a \in S : v[a].name = a
          /\ stored = [filters |-> {v[a] : a \in S},
                       rules |-> [n \in DOMAIN k |-> [content |-> k[n][1], key |-> k[n][2]]]]
  BY <1>1
<1>3. PICK k \in [1 .. MaxRules -> RuleContents \X (0 .. MaxRules)] \cup {<<>>} :
        /\ \A a \in S : v[a].name = a
        /\ stored = [filters |-> {v[a] : a \in S},
                     rules |-> [n \in DOMAIN k |-> [content |-> k[n][1], key |-> k[n][2]]]]
  BY <1>2
<1>4. /\ open = FALSE /\ filters = <<>> /\ rules = <<>> /\ kept = {} /\ settled = {}
      /\ dialog = Editor!NoDialog /\ asked = {}
  BY DEF Editor!Init
<1>5. stored.filters = {v[a] : a \in S} BY <1>3
<1>6. \A a \in S : v[a] \in SavedRow /\ v[a].name = a /\ OwnValues(v[a])
  <2> SUFFICES ASSUME NEW a \in S PROVE v[a] \in SavedRow /\ OwnValues(v[a]) BY <1>3
  <2>1. PICK b \in S : v[a] \in Editor!Storable(b) OBVIOUS
  <2>2. PICK V \in SUBSET (Editor!Own(b) \cup {Editor!All}) : v[a] = [name |-> b, values |-> V, stray |-> FALSE]
    BY <2>1 DEF Editor!Storable
  <2>3. V \in SUBSET Values BY ValuesForm
  <2> QED BY <2>2, <2>3 DEF SavedRow, OwnValues
<1>7. RowsInv
  <2>1. \A f, g \in stored.filters : f.name = g.name => f = g BY <1>5, <1>6
  <2> QED BY <1>4, <1>5, <1>6, <2>1, NothingShown DEF RowsInv
<1>8. DialogInv BY <1>4, NoDialogForm DEF DialogInv
<1>9. KeptInv BY <1>4 DEF KeptInv
<1>10. SettledInv
  <2> DEFINE w == [n \in DOMAIN k |-> [content |-> k[n][1], key |-> k[n][2]]]
  <2>1. stored.rules = w BY <1>3
  <2>2. \E n \in Nat : DOMAIN w = 1 .. n
    <3>1. CASE k = <<>>
      <4>1. DOMAIN k = 1 .. 0 BY <3>1
      <4> QED BY <4>1
    <3>2. CASE k # <<>> BY <3>2 DEF EditorConstants
    <3> QED BY <3>1, <3>2
  <2>3. \A n \in DOMAIN w : w[n] \in Editor!Range(w) BY DEF Editor!Range
  <2>4. w = [n \in DOMAIN w |-> w[n]] OBVIOUS
  <2> HIDE DEF w
  <2>5. PICK n \in Nat : DOMAIN w = 1 .. n BY <2>2
  <2>6. w \in [1 .. n -> Editor!Range(w)] BY <2>3, <2>4, <2>5
  <2>7. w \in Seq(Editor!Range(w)) BY <2>6
  <2> QED BY <1>4, <2>1, <2>7, NothingShown DEF SettledInv
<1>11. OnPage BY <1>4 DEF OnPage, Editor!NoDialog
<1> QED BY <1>7, <1>8, <1>9, <1>10, <1>11 DEF EditorInv

LEMMA FiltersDoFit == EditorInv => Editor!FiltersFit
<1> SUFFICES ASSUME EditorInv PROVE Editor!FiltersFit OBVIOUS
<1>1. RowsInv BY DEF EditorInv
<1>2. Editor!Distinct(filters) BY <1>1, AllDistinct DEF RowsInv
<1> QED BY <1>1, <1>2 DEF RowsInv, OwnValues, Editor!FiltersFit

LEMMA UntouchedDoStay == EditorInv => Editor!UntouchedStay
<1> SUFFICES ASSUME EditorInv PROVE Editor!UntouchedStay OBVIOUS
<1>1. KeptInv /\ SettledInv BY DEF EditorInv
<1> QED BY <1>1 DEF KeptInv, SettledInv, FilterStays, FilterShown, Editor!UntouchedStay

\* Whatever values, filters and rules there are, no two filters are of one attribute, and
\* none has another's values unless a list came late or did not come.
THEOREM FiltersOwned == ASSUME EditorConstants PROVE Editor!Spec => []Editor!FiltersFit
<1>1. Editor!Init => EditorInv /\ OnPage BY EditorInit
<1>2. EditorInv /\ OnPage /\ [Editor!Next]_(Editor!vars) => EditorInv' /\ OnPage' BY EditorStep
<1> QED BY <1>1, <1>2, FiltersDoFit, PTL DEF Editor!Spec

\* The filters and the rules that nobody touched stay, on the page and at the server.
THEOREM UntouchedSaved == ASSUME EditorConstants PROVE Editor!Spec => []Editor!UntouchedStay
<1>1. Editor!Init => EditorInv /\ OnPage BY EditorInit
<1>2. EditorInv /\ OnPage /\ [Editor!Next]_(Editor!vars) => EditorInv' /\ OnPage' BY EditorStep
<1> QED BY <1>1, <1>2, UntouchedDoStay, PTL DEF Editor!Spec

-----------------------------------------------------------------------------
(* The deployment of a local model.                                        *)

Chars == (Deploy!States \X {"head", "tail"}) \cup {Deploy!EndOfLine}

LEMMA CardinalityHere == ASSUME NEW S PROVE Deploy!Cardinality(S) = Cardinality(S)
BY DEF Deploy!Cardinality, Cardinality

LEMMA CharForm ==
  ASSUME NEW x \in Deploy!States
  PROVE  LET c == Deploy!Characters(x)
         IN /\ c[1] = <<x, "head">> /\ c[2] = <<x, "tail">> /\ c[3] = Deploy!EndOfLine
            /\ c[1] # Deploy!EndOfLine /\ c[2] # Deploy!EndOfLine
            /\ c[1] \in Chars /\ c[2] \in Chars /\ c[3] \in Chars
BY DEF Deploy!Characters, Deploy!EndOfLine, Chars

\* The three characters of a line of a text.
LEMMA TextForm ==
  ASSUME NEW s \in Seq(Deploy!States)
  PROVE  LET T == Deploy!Text(s)
         IN /\ T \in Seq(Chars) /\ Len(T) = 3 * Len(s)
            /\ \A m \in 1 .. Len(s) :
                 /\ T[3 * m - 2] = <<s[m], "head">> /\ T[3 * m - 1] = <<s[m], "tail">>
                 /\ T[3 * m] = Deploy!EndOfLine
            /\ \A i \in 1 .. 3 * Len(s) :
                 T[i] = Deploy!EndOfLine <=> i = 3 * (i \div 3)
<1> DEFINE T == Deploy!Text(s)
           N == Len(s)
<1>1. N \in Nat /\ \A m \in 1 .. N : s[m] \in Deploy!States BY LenProperties, ElementOfSeq
<1>2. T = [i \in 1 .. 3 * N |-> Deploy!Characters(s[(i + 2) \div 3])[((i + 2) % 3) + 1]]
  BY DEF Deploy!Text
<1> HIDE DEF T, N
<1>3. \A i \in 1 .. 3 * N : T[i] = Deploy!Characters(s[(i + 2) \div 3])[((i + 2) % 3) + 1] BY <1>2
<1>4. ASSUME NEW i \in 1 .. 3 * N
      PROVE  /\ (i + 2) \div 3 \in 1 .. N
             /\ \/ (i + 2) % 3 = 0 /\ i = 3 * ((i + 2) \div 3) - 2 /\ i # 3 * (i \div 3)
                \/ (i + 2) % 3 = 1 /\ i = 3 * ((i + 2) \div 3) - 1 /\ i # 3 * (i \div 3)
                \/ (i + 2) % 3 = 2 /\ i = 3 * ((i + 2) \div 3) /\ i = 3 * (i \div 3)
  BY <1>1
<1>5. ASSUME NEW m \in 1 .. N
      PROVE  /\ T[3 * m - 2] = <<s[m], "head">> /\ T[3 * m - 1] = <<s[m], "tail">>
             /\ T[3 * m] = Deploy!EndOfLine
  <2>1. /\ 3 * m - 2 \in 1 .. 3 * N /\ ((3 * m - 2) + 2) \div 3 = m /\ (((3 * m - 2) + 2) % 3) + 1 = 1
        /\ 3 * m - 1 \in 1 .. 3 * N /\ ((3 * m - 1) + 2) \div 3 = m /\ (((3 * m - 1) + 2) % 3) + 1 = 2
        /\ 3 * m \in 1 .. 3 * N /\ (3 * m + 2) \div 3 = m /\ ((3 * m + 2) % 3) + 1 = 3
    BY <1>1
  <2>2. /\ T[3 * m - 2] = Deploy!Characters(s[m])[1]
        /\ T[3 * m - 1] = Deploy!Characters(s[m])[2]
        /\ T[3 * m] = Deploy!Characters(s[m])[3]
    BY <1>3, <2>1
  <2> QED BY <1>1, <2>2, CharForm
<1>6. ASSUME NEW i \in 1 .. 3 * N
      PROVE  T[i] \in Chars /\ (T[i] = Deploy!EndOfLine <=> i = 3 * (i \div 3))
  <2>1. s[(i + 2) \div 3] \in Deploy!States BY <1>1, <1>4
  <2> DEFINE c == Deploy!Characters(s[(i + 2) \div 3])
  <2>2. /\ c[3] = Deploy!EndOfLine /\ c[1] # Deploy!EndOfLine /\ c[2] # Deploy!EndOfLine
        /\ c[1] \in Chars /\ c[2] \in Chars /\ c[3] \in Chars
    BY <2>1, CharForm
  <2>3. T[i] = c[((i + 2) % 3) + 1] BY <1>3
  <2> HIDE DEF c
  <2> QED BY <1>4, <2>2, <2>3
<1>7. T \in Seq(Chars) /\ Len(T) = 3 * N
  <2>1. T \in [1 .. 3 * N -> Chars] BY <1>2, <1>6
  <2>2. 3 * N \in Nat BY <1>1
  <2> QED BY <2>1, <2>2
<1> QED BY <1>5, <1>6, <1>7 DEF T, N

\* The multiples of three up to a number's third.
LEMMA Thirds ==
  ASSUME NEW m \in Nat
  PROVE  IsFiniteSet({3 * j : j \in 1 .. m}) /\ Cardinality({3 * j : j \in 1 .. m}) = m
<1> DEFINE f == [j \in 1 .. m |-> 3 * j]
           M == {3 * j : j \in 1 .. m}
<1>1. f \in Bijection(1 .. m, M)
  <2>1. f \in [1 .. m -> M] OBVIOUS
  <2>2. \A i, j \in 1 .. m : f[i] = f[j] => i = j OBVIOUS
  <2>3. \A x \in M : \E j \in 1 .. m : f[j] = x OBVIOUS
  <2> QED BY <2>1, <2>2, <2>3 DEF Bijection, Injection, Surjection, IsInjective
<1>2. ExistsBijection(1 .. m, M) BY <1>1 DEF ExistsBijection
<1>3. IsFiniteSet(1 .. m) /\ Cardinality(1 .. m) = m BY FS_Interval
<1> HIDE DEF M
<1> QED BY <1>2, <1>3, FS_Bijection DEF M

\* A piece of the text of s that begins with its line h + 1.
Piece(text, s, h) ==
  /\ text \in Seq(Chars) /\ 3 * h + Len(text) <= 3 * Len(s)
  /\ \A i \in 1 .. Len(text) : text[i] = Deploy!Text(s)[3 * h + i]

LEMMA PieceEnds ==
  ASSUME NEW s \in Seq(Deploy!States), NEW h \in Nat, NEW text, Piece(text, s, h)
  PROVE  \A i \in 1 .. Len(text) : text[i] = Deploy!EndOfLine <=> \E j \in 1 .. Len(text) \div 3 : i = 3 * j
<1> DEFINE k == Len(text)
           N == Len(s)
<1>1. k \in Nat /\ N \in Nat /\ 3 * h + k <= 3 * N BY LenProperties DEF Piece
<1> SUFFICES ASSUME NEW i \in 1 .. k
             PROVE  text[i] = Deploy!EndOfLine <=> \E j \in 1 .. k \div 3 : i = 3 * j
  OBVIOUS
<1>2. text[i] = Deploy!Text(s)[3 * h + i] BY DEF Piece
<1>3. \A x \in 1 .. 3 * N : Deploy!Text(s)[x] = Deploy!EndOfLine <=> x = 3 * (x \div 3) BY TextForm
<1> HIDE DEF k, N
<1>4. 3 * h + i \in 1 .. 3 * N BY <1>1
<1>5. 3 * h + i = 3 * ((3 * h + i) \div 3) <=> i = 3 * (i \div 3) BY <1>1
<1>6. i = 3 * (i \div 3) => i \div 3 \in 1 .. k \div 3 BY <1>1
<1>7. \A j \in 1 .. k \div 3 : i = 3 * j => i = 3 * (i \div 3) BY <1>1
<1> QED BY <1>2, <1>3, <1>4, <1>5, <1>6, <1>7

\* Its lines are the next ones of s.
LEMMA LinesForm ==
  ASSUME NEW s \in Seq(Deploy!States), NEW h \in Nat, NEW text, Piece(text, s, h)
  PROVE  LET m == Len(text) \div 3
         IN Deploy!Lines(text) = [n \in 1 .. m |-> s[h + n]] /\ h + m <= Len(s)
<1> DEFINE k == Len(text)
           m == k \div 3
           N == Len(s)
           E == {i \in DOMAIN text : text[i] = Deploy!EndOfLine}
           Upto(i) == {j \in 1 .. i : text[j] = Deploy!EndOfLine}
           At3(i, n) == text[i] = Deploy!EndOfLine /\ Deploy!Cardinality(Upto(i)) = n
           end(n) == CHOOSE i \in DOMAIN text : At3(i, n)
<1>1. k \in Nat /\ DOMAIN text = 1 .. k /\ N \in Nat /\ 3 * h + k <= 3 * N BY LenProperties DEF Piece
<1>2. \A i \in 1 .. k : text[i] = Deploy!EndOfLine <=> \E j \in 1 .. m : i = 3 * j BY PieceEnds
<1>3. Deploy!Lines(text) = [n \in 1 .. Deploy!Cardinality(E) |-> text[end(n) - 1][1]] BY DEF Deploy!Lines
<1>4. \A i \in 1 .. k : text[i] = Deploy!Text(s)[3 * h + i] BY DEF Piece
<1>5. m \in Nat /\ 3 * m <= k /\ h + m <= N BY <1>1
<1> HIDE DEF m, k, N, end
<1>6. Deploy!Cardinality(E) = m
  <2>0. \A j \in 1 .. m : 3 * j \in 1 .. k BY <1>1, <1>5
  <2>1. E = {3 * j : j \in 1 .. m} BY <1>1, <1>2, <2>0
  <2> HIDE DEF E
  <2> QED BY <1>5, <2>1, Thirds, CardinalityHere
<1>7. ASSUME NEW n \in 1 .. m PROVE Deploy!Cardinality(Upto(3 * n)) = n
  <2>1. /\ n \in Nat /\ \A j \in 1 .. n : 3 * j \in 1 .. 3 * n /\ j \in 1 .. m
        /\ \A j \in 1 .. m : 3 * j <= 3 * n => j \in 1 .. n
        /\ 1 .. 3 * n \subseteq 1 .. k
    BY <1>1, <1>5
  <2>2. Upto(3 * n) = {3 * j : j \in 1 .. n}
    <3>1. ASSUME NEW i \in Upto(3 * n) PROVE i \in {3 * j : j \in 1 .. n}
      <4>1. PICK j \in 1 .. m : i = 3 * j BY <1>2, <2>1
      <4>2. j \in 1 .. n BY <2>1, <4>1
      <4> QED BY <4>1, <4>2
    <3>2. ASSUME NEW j \in 1 .. n PROVE 3 * j \in Upto(3 * n) BY <1>2, <2>1
    <3> QED BY <3>1, <3>2
  <2>3. Cardinality({3 * j : j \in 1 .. n}) = n BY <2>1, Thirds
  <2> HIDE DEF Upto
  <2> QED BY <2>2, <2>3, CardinalityHere
<1>8. ASSUME NEW n \in 1 .. m PROVE end(n) = 3 * n
  <2>0. 3 * n \in 1 .. k BY <1>1, <1>5
  <2>1. 3 * n \in 1 .. k /\ text[3 * n] = Deploy!EndOfLine BY <1>2, <2>0
  <2>2. At3(3 * n, n) BY <1>7, <2>1
  <2>3. ASSUME NEW i \in DOMAIN text, At3(i, n) PROVE i = 3 * n
    <3>1. PICK j \in 1 .. m : i = 3 * j BY <1>1, <1>2, <2>3
    <3>2. Deploy!Cardinality(Upto(i)) = j BY <1>7, <3>1
    <3> QED BY <2>3, <3>1, <3>2
  <2> HIDE DEF At3
  <2> QED BY <1>1, <2>1, <2>2, <2>3 DEF end
<1>9. ASSUME NEW n \in 1 .. m PROVE text[end(n) - 1][1] = s[h + n]
  <2>1. 3 * n - 1 \in 1 .. k /\ h + n \in 1 .. N /\ 3 * h + (3 * n - 1) = 3 * (h + n) - 1 BY <1>5, <1>1
  <2>2. text[3 * n - 1] = Deploy!Text(s)[3 * (h + n) - 1] BY <1>4, <2>1
  <2>3. Deploy!Text(s)[3 * (h + n) - 1] = <<s[h + n], "tail">> BY <2>1, TextForm DEF N
  <2> QED BY <1>8, <2>2, <2>3
<1> QED BY <1>3, <1>5, <1>6, <1>9 DEF m, k, N

\* What follows them.
LEMMA RestForm ==
  ASSUME NEW s \in Seq(Deploy!States), NEW h \in Nat, NEW text, Piece(text, s, h)
  PROVE  LET m == Len(text) \div 3
             r == Deploy!Rest(text)
         IN Piece(r, s, h + m) /\ Len(r) = Len(text) - 3 * m /\ Len(r) <= 2
<1> DEFINE k == Len(text)
           m == k \div 3
           E == {i \in DOMAIN text : text[i] = Deploy!EndOfLine}
           r == Deploy!Rest(text)
<1>1. text \in Seq(Chars) /\ k \in Nat /\ DOMAIN text = 1 .. k /\ Len(s) \in Nat /\ 3 * h + k <= 3 * Len(s)
  BY LenProperties DEF Piece
<1>2. \A i \in 1 .. k : text[i] = Deploy!EndOfLine <=> \E j \in 1 .. m : i = 3 * j BY PieceEnds
<1>3. m \in Nat /\ 3 * m <= k /\ k - 3 * m <= 2 BY <1>1
<1>4. r = IF E = {} THEN text ELSE SubSeq(text, Deploy!Max(E) + 1, k) BY DEF Deploy!Rest
<1>5. \A i \in 1 .. k : text[i] = Deploy!Text(s)[3 * h + i] BY DEF Piece
<1> HIDE DEF m, k, r
<1>6. E = {3 * j : j \in 1 .. m}
  <2>1. \A j \in 1 .. m : 3 * j \in 1 .. k BY <1>1, <1>3
  <2> QED BY <1>1, <1>2, <2>1
<1> HIDE DEF E
<1>7. /\ r \in Seq(Chars) /\ Len(r) = k - 3 * m
      /\ \A i \in 1 .. k - 3 * m : r[i] = text[3 * m + i]
  <2>1. CASE m = 0
    <3>1. E = {} BY <1>6, <2>1
    <3> QED BY <1>1, <1>3, <1>4, <2>1, <3>1 DEF k
  <2>2. CASE m # 0
    <3>1. 3 * m \in E /\ \A x \in E : x \in Nat /\ x <= 3 * m BY <1>3, <1>6, <2>2
    <3>2. Deploy!Max(E) = 3 * m BY <1>3, <3>1 DEF Deploy!Max
    <3>3. r = SubSeq(text, 3 * m + 1, k) BY <1>4, <3>1, <3>2
    <3>4. 3 * m + 1 \in 1 .. k + 1 /\ k \in 3 * m .. Len(text) BY <1>1, <1>3 DEF k
    <3>5. /\ SubSeq(text, 3 * m + 1, k) \in Seq(Chars)
          /\ Len(SubSeq(text, 3 * m + 1, k)) = k - (3 * m + 1) + 1
          /\ \A i \in 1 .. k - (3 * m + 1) + 1 :
               SubSeq(text, 3 * m + 1, k)[i] = text[(3 * m + 1) + i - 1]
      <4>1. 3 * m + 1 <= k + 1 BY <1>1, <1>3
      <4> QED BY <1>1, <3>4, <4>1, SubSeqProperties DEF k
    <3>6. /\ k - (3 * m + 1) + 1 = k - 3 * m
          /\ \A i \in 1 .. k - 3 * m : (3 * m + 1) + i - 1 = 3 * m + i
      BY <1>1, <1>3
    <3> QED BY <3>3, <3>5, <3>6
  <2> QED BY <2>1, <2>2
<1>8. \A i \in 1 .. k - 3 * m : r[i] = Deploy!Text(s)[3 * (h + m) + i]
  <2> TAKE i \in 1 .. k - 3 * m
  <2>1. 3 * m + i \in 1 .. k /\ 3 * h + (3 * m + i) = 3 * (h + m) + i BY <1>1, <1>3
  <2> QED BY <1>5, <1>7, <2>1
<1>9. 3 * (h + m) + (k - 3 * m) <= 3 * Len(s) BY <1>1, <1>3
<1>10. Piece(r, s, h + m) BY <1>7, <1>8, <1>9 DEF Piece
<1> QED BY <1>3, <1>7, <1>10 DEF m, k, r

-----------------------------------------------------------------------------
\* What the dialog can show, and what handleStream changes.
Steps == [step : 1 .. 5, mark : [1 .. 3 -> {"pending", "completed", "inProgress", "error"}]]
Views == [shown : Steps, record : {record, "error"}, timer : BOOLEAN]

LEMMA StepForm ==
  /\ \A x \in Deploy!Phase : Deploy!StepOf(x) \in 1 .. 3 /\ Deploy!Phases[Deploy!StepOf(x)] = x
  /\ \A n \in 1 .. 3 : Deploy!Phases[n] \in Deploy!Phase /\ Deploy!StepOf(Deploy!Phases[n]) = n
  /\ \A x : x \notin Deploy!Phase => Deploy!StepOf(x) = 5
  /\ \A x \in {"finish", "error", "refused", "none"} : x \notin Deploy!Phase
<1>1. Deploy!Phases[1] = "download" /\ Deploy!Phases[2] = "deploy" /\ Deploy!Phases[3] = "initializing"
  BY DEF Deploy!Phases
<1>2. Deploy!Phase = {Deploy!Phases[n] : n \in 1 .. 3} BY DEF Deploy!Phase
<1>3. \A n \in 1 .. 3 : n = 1 \/ n = 2 \/ n = 3 OBVIOUS
<1>4. \A i, j \in 1 .. 3 : Deploy!Phases[i] = Deploy!Phases[j] => i = j BY <1>1, <1>3
<1>5. ASSUME NEW x \in Deploy!Phase
      PROVE  Deploy!StepOf(x) \in 1 .. 3 /\ Deploy!Phases[Deploy!StepOf(x)] = x
  <2>1. \E n \in 1 .. 3 : Deploy!Phases[n] = x BY <1>2
  <2>2. Deploy!StepOf(x) = CHOOSE n \in 1 .. 3 : Deploy!Phases[n] = x BY DEF Deploy!StepOf
  <2> QED BY <2>1, <2>2
<1>6. \A n \in 1 .. 3 : Deploy!Phases[n] \in Deploy!Phase BY <1>2
<1>7. \A n \in 1 .. 3 : Deploy!StepOf(Deploy!Phases[n]) = n BY <1>4, <1>5, <1>6
<1>8. \A x : x \notin Deploy!Phase => Deploy!StepOf(x) = 5 BY DEF Deploy!StepOf
<1>9. \A x \in {"finish", "error", "refused", "none"} : x \notin Deploy!Phase BY <1>1, <1>2, <1>3
<1> QED BY <1>5, <1>6, <1>7, <1>8, <1>9

LEMMA MarkedForm ==
  ASSUME NEW n \in {1, 2, 3, 5}, NEW mark \in {"inProgress", "error"}
  PROVE  Deploy!Marked(n, mark) \in Steps /\ Deploy!Marked(n, mark).step = n
BY DEF Deploy!Marked, Steps

LEMMA PendingForm == Deploy!Pending \in Steps /\ Deploy!Pending.step = 1
BY DEF Deploy!Pending, Steps

LEMMA ShowOne ==
  ASSUME NEW d \in Views, NEW x \in Deploy!States
  PROVE  LET e == Deploy!Show(d, x)
         IN /\ e \in Views
            /\ d.timer \/ x = "finish" => e.timer
            /\ d.record = "error" \/ x = "error" => e.record = "error"
            /\ \/ e.shown.step = d.shown.step
               \/ e.shown.step = Deploy!StepOf(x)
<1> DEFINE e == Deploy!Show(d, x)
<1>1. d.shown \in Steps /\ d.record \in {record, "error"} /\ d.timer \in BOOLEAN BY DEF Views
<1>2. CASE x = "error"
  <2> DEFINE v == [step |-> d.shown.step,
                   mark |-> [i \in 1 .. 3 |-> IF i = d.shown.step THEN "error" ELSE d.shown.mark[i]]]
  <2>1. e = [d EXCEPT !.shown = v, !.record = "error"] BY <1>2 DEF Deploy!Show
  <2>2. v \in Steps /\ v.step = d.shown.step BY <1>1 DEF Steps
  <2> HIDE DEF v
  <2>3. e \in Views /\ e.shown = v /\ e.record = "error" /\ e.timer = d.timer BY <2>1, <2>2 DEF Views
  <2> QED BY <1>2, <2>2, <2>3
<1>3. CASE x = "refused"
  <2>1. e = d BY <1>3 DEF Deploy!Show
  <2> HIDE DEF e
  <2> QED BY <1>3, <2>1 DEF e
<1>4. CASE x \notin {"error", "refused"}
  <2> DEFINE v == Deploy!Marked(Deploy!StepOf(x), "inProgress")
             t == d.timer \/ x = "finish"
  <2>1. e = [d EXCEPT !.shown = v, !.timer = t] BY <1>4 DEF Deploy!Show
  <2>2. Deploy!StepOf(x) \in {1, 2, 3, 5}
    <3>1. CASE x \in Deploy!Phase BY <3>1, StepForm
    <3>2. CASE x \notin Deploy!Phase BY <3>2, StepForm
    <3> QED BY <3>1, <3>2
  <2>3. v \in Steps /\ v.step = Deploy!StepOf(x) BY <2>2, MarkedForm
  <2>4. t \in BOOLEAN BY <1>1
  <2> HIDE DEF v, t
  <2>5. e \in Views /\ e.shown = v /\ e.record = d.record /\ e.timer = t BY <2>1, <2>3, <2>4 DEF Views
  <2> QED BY <1>4, <2>3, <2>5 DEF t
<1> QED BY <1>2, <1>3, <1>4

\* What is shown after each of the first lines, up to the k-th.
Shows(after, d, lines, k) ==
  after = [n \in 0 .. k |-> IF n = 0 THEN d ELSE Deploy!Show(after[n - 1], lines[n])]

LEMMA ShowsOne ==
  ASSUME NEW d, NEW lines, NEW k \in Nat, NEW g, Shows(g, d, lines, k)
  PROVE  \E h : Shows(h, d, lines, k + 1)
<1> DEFINE h == [n \in 0 .. k + 1 |-> IF n = 0 THEN d ELSE Deploy!Show(g[n - 1], lines[n])]
           hh == [n \in 0 .. k + 1 |-> IF n = 0 THEN d ELSE Deploy!Show(h[n - 1], lines[n])]
<1>1. \A n \in 0 .. k + 1 : h[n] = IF n = 0 THEN d ELSE Deploy!Show(g[n - 1], lines[n]) OBVIOUS
<1>2. \A n \in 0 .. k : g[n] = IF n = 0 THEN d ELSE Deploy!Show(g[n - 1], lines[n]) BY DEF Shows
<1>3. \A n \in 0 .. k : n \in 0 .. k + 1 OBVIOUS
<1>4. \A n \in 0 .. k : h[n] = g[n] BY <1>1, <1>2, <1>3
<1>5. \A n \in 0 .. k + 1 : n # 0 => n - 1 \in 0 .. k OBVIOUS
<1>6. \A n \in 0 .. k + 1 : h[n] = IF n = 0 THEN d ELSE Deploy!Show(h[n - 1], lines[n])
  BY <1>1, <1>4, <1>5
<1>7. \A n \in 0 .. k + 1 : hh[n] = IF n = 0 THEN d ELSE Deploy!Show(h[n - 1], lines[n]) OBVIOUS
<1>8. h = [n \in 0 .. k + 1 |-> h[n]] /\ hh = [n \in 0 .. k + 1 |-> hh[n]] OBVIOUS
<1>9. \A n \in 0 .. k + 1 : h[n] = hh[n] BY <1>6, <1>7
<1> HIDE DEF h
<1>10. h = hh
  <2> HIDE DEF hh
  <2> QED BY <1>8, <1>9
<1>11. Shows(h, d, lines, k + 1) BY <1>10 DEF Shows
<1> QED BY <1>11

LEMMA ShowsForm ==
  ASSUME NEW lines \in Seq(Deploy!States)
  PROVE  \E after : /\ Shows(after, [shown |-> shown, record |-> record, timer |-> dialog.timer], lines, Len(lines))
                    /\ Deploy!ShowAll(lines) = after[Len(lines)]
<1> DEFINE d == [shown |-> shown, record |-> record, timer |-> dialog.timer]
           S == {k \in Nat : \E g : Shows(g, d, lines, k)}
           N == Len(lines)
<1>0. N \in Nat BY LenProperties
<1>1. 0 \in S
  <2> DEFINE g == [n \in 0 .. 0 |-> d]
             gg == [n \in 0 .. 0 |-> IF n = 0 THEN d ELSE Deploy!Show(g[n - 1], lines[n])]
  <2>1. g = gg OBVIOUS
  <2> HIDE DEF g, d
  <2>2. Shows(g, d, lines, 0) BY <2>1 DEF Shows
  <2> QED BY <2>2
<1> HIDE DEF N
<1>2. \A n \in S : n + 1 \in S
  <2> HIDE DEF d
  <2> QED BY ShowsOne
<1> HIDE DEF S
<1>3. N \in S
  <2>1. \A n \in 0 .. N - 1 : n \in S => n + 1 \in S BY <1>2
  <2>2. 0 .. N \subseteq S BY <1>0, <1>1, <2>1, UpTo
  <2> QED BY <1>0, <2>2
<1>4. \E g : Shows(g, d, lines, N) BY <1>3 DEF S
<1> DEFINE after == CHOOSE g : Shows(g, d, lines, N)
<1>5. Shows(after, d, lines, N) BY <1>4
<1>6. Deploy!ShowAll(lines) = after[N] BY DEF Deploy!ShowAll, Shows, N
<1> HIDE DEF after
<1> QED BY <1>5, <1>6 DEF N

LEMMA ShowAllForm ==
  ASSUME NEW lines \in Seq(Deploy!States), shown \in Steps, dialog.timer \in BOOLEAN
  PROVE  LET d == Deploy!ShowAll(lines)
         IN /\ d \in Views
            /\ dialog.timer => d.timer
            /\ record = "error" => d.record = "error"
            /\ \A n \in 1 .. Len(lines) : /\ lines[n] = "finish" => d.timer
                                          /\ lines[n] = "error" => d.record = "error"
            /\ \/ d.shown.step = shown.step
               \/ \E n \in 1 .. Len(lines) : d.shown.step = Deploy!StepOf(lines[n])
<1> DEFINE d0 == [shown |-> shown, record |-> record, timer |-> dialog.timer]
           N == Len(lines)
<1>1. PICK after : Shows(after, d0, lines, N) /\ Deploy!ShowAll(lines) = after[N] BY ShowsForm
<1>2. N \in Nat /\ \A n \in 1 .. N : lines[n] \in Deploy!States BY LenProperties, ElementOfSeq
<1>3. d0 \in Views /\ d0.shown = shown /\ d0.record = record /\ d0.timer = dialog.timer BY DEF Views
<1> HIDE DEF N, d0
<1>4. \A n \in 0 .. N : after[n] = IF n = 0 THEN d0 ELSE Deploy!Show(after[n - 1], lines[n])
  BY <1>1 DEF Shows
<1> DEFINE Fine(n) ==
             /\ after[n] \in Views
             /\ dialog.timer => after[n].timer
             /\ record = "error" => after[n].record = "error"
             /\ \A i \in 1 .. n : /\ lines[i] = "finish" => after[n].timer
                                  /\ lines[i] = "error" => after[n].record = "error"
             /\ \/ after[n].shown.step = shown.step
                \/ \E i \in 1 .. n : after[n].shown.step = Deploy!StepOf(lines[i])
           S == {n \in 0 .. N : Fine(n)}
<1>5. 0 \in S
  <2>1. after[0] = d0 BY <1>2, <1>4
  <2> QED BY <1>2, <1>3, <2>1
<1>6. ASSUME NEW n \in 0 .. N - 1, n \in S PROVE n + 1 \in S
  <2>1. /\ n + 1 \in 1 .. N /\ (n + 1) - 1 = n /\ n + 1 # 0 /\ n + 1 \in 0 .. N
        /\ \A i \in 1 .. n + 1 : i = n + 1 \/ i \in 1 .. n
        /\ \A i \in 1 .. n : i \in 1 .. n + 1
        /\ n + 1 \in 1 .. n + 1
    BY <1>2
  <2>2. after[n + 1] = Deploy!Show(after[n], lines[n + 1]) BY <1>4, <2>1
  <2>3. Fine(n) BY <1>6
  <2>4. lines[n + 1] \in Deploy!States BY <1>2, <2>1
  <2> DEFINE x == lines[n + 1]
             p == after[n]
             e == after[n + 1]
  <2>5. p \in Views BY <2>3
  <2> HIDE DEF Fine
  <2>6. /\ e \in Views
        /\ p.timer \/ x = "finish" => e.timer
        /\ p.record = "error" \/ x = "error" => e.record = "error"
        /\ e.shown.step = p.shown.step \/ e.shown.step = Deploy!StepOf(x)
    <3> HIDE DEF x, p
    <3> QED BY <2>2, <2>4, <2>5, ShowOne DEF x, p
  <2>7. Fine(n + 1) BY <2>1, <2>3, <2>6 DEF Fine
  <2> QED BY <2>1, <2>7
<1>7. N \in S
  <2> HIDE DEF S
  <2>1. 0 .. N \subseteq S BY <1>2, <1>5, <1>6, UpTo
  <2> QED BY <1>2, <2>1
<1> QED BY <1>1, <1>7 DEF N

-----------------------------------------------------------------------------
DeployTypes ==
  /\ reached \in 1 .. 3
  /\ stream \in {"none", "asked", "open", "ended"}
  /\ sent \in Seq(Deploy!States) /\ handled \in Seq(Deploy!States)
  /\ wire \in Seq(Chars) /\ buffer \in Seq(Chars)
  /\ silent \in BOOLEAN
  /\ dialog \in [at : {"none", "open", "closing"}, timer : BOOLEAN, confirm : {"none", "stop", "delete"}]
  /\ shown \in Steps

\* The text of a refusal has no end of line.
Refused == stream = "ended" /\ silent /\ sent = <<"refused">>

\* What was handled, what is held and what is on the wire are the text that was sent.
Whole ==
  LET h == Len(handled)
      b == Len(buffer)
      w == Len(wire)
  IN /\ Piece(buffer, sent, h) /\ b <= 2
     /\ \A i \in 1 .. h : handled[i] = sent[i]
     /\ \A i \in 1 .. w : wire[i] = Deploy!Text(sent)[3 * h + b + i]
     /\ 3 * h + b + w = 3 * Len(sent) \/ (Refused /\ 3 * h + b + w = 2)

WholeInv ==
  /\ stream \in {"none", "asked"} => wire = <<>>
  /\ stream = "asked" => sent = <<>> /\ handled = <<>> /\ buffer = <<>>
  /\ stream \in {"open", "ended"} => Whole

\* Without the dialog there is no stream.
ClosedInv == dialog.at = "none" => stream = "none" /\ sent = <<>> /\ handled = <<>> /\ buffer = <<>>

Near(n, r) == n \in 1 .. 3 => n <= r

\* The lines and the screen are no further than the download.
NearInv ==
  /\ \A i \in 1 .. Len(sent) : Near(Deploy!StepOf(sent[i]), reached)
  /\ Near(shown.step, reached)

LastLines == {"finish", "error"}

\* A stream that says how the download ended says so before it ends, and the dialog has
\* taken notice when the line is handled.
EndInv ==
  /\ stream = "open" /\ ~ silent /\ task \in LastLines => \E i \in 1 .. Len(sent) : sent[i] = task
  /\ stream = "ended" /\ ~ silent => \E i \in 1 .. Len(sent) : sent[i] \in LastLines

Noticed ==
  \A i \in 1 .. Len(handled) : /\ handled[i] = "finish" => dialog.timer
                               /\ handled[i] = "error" => record = "error"

NoticeInv ==
  /\ dialog.at = "open" /\ stream # "none" => Noticed
  /\ Deploy!WaitsForSomething

DeployInv == DeployTypes /\ WholeInv /\ ClosedInv /\ NearInv /\ EndInv /\ NoticeInv

-----------------------------------------------------------------------------
LEMMA TextMore ==
  ASSUME NEW s \in Seq(Deploy!States), NEW x \in Deploy!States
  PROVE  LET N == Len(s)
             t == Append(s, x)
         IN /\ t \in Seq(Deploy!States) /\ Len(t) = N + 1 /\ t[N + 1] = x
            /\ \A i \in 1 .. N : t[i] = s[i]
            /\ \A i \in 1 .. 3 * N : Deploy!Text(t)[i] = Deploy!Text(s)[i]
            /\ \A i \in 1 .. 3 : Deploy!Text(t)[3 * N + i] = Deploy!Characters(x)[i]
<1> DEFINE N == Len(s)
           t == Append(s, x)
<1>1. /\ N \in Nat /\ t \in Seq(Deploy!States) /\ Len(t) = N + 1 /\ t[N + 1] = x
      /\ \A i \in 1 .. N : t[i] = s[i]
  BY AppendProperties, LenProperties
<1>2. /\ \A i \in 1 .. 3 * N :
           Deploy!Text(s)[i] = Deploy!Characters(s[(i + 2) \div 3])[((i + 2) % 3) + 1]
      /\ \A i \in 1 .. 3 * Len(t) :
           Deploy!Text(t)[i] = Deploy!Characters(t[(i + 2) \div 3])[((i + 2) % 3) + 1]
  BY DEF Deploy!Text
<1> HIDE DEF N, t
<1>3. ASSUME NEW i \in 1 .. 3 * N PROVE Deploy!Text(t)[i] = Deploy!Text(s)[i]
  <2>1. (i + 2) \div 3 \in 1 .. N /\ i \in 1 .. 3 * Len(t) BY <1>1
  <2> QED BY <1>1, <1>2, <2>1
<1>4. ASSUME NEW i \in 1 .. 3 PROVE Deploy!Text(t)[3 * N + i] = Deploy!Characters(x)[i]
  <2>1. /\ ((3 * N + i) + 2) \div 3 = N + 1 /\ (((3 * N + i) + 2) % 3) + 1 = i
        /\ 3 * N + i \in 1 .. 3 * Len(t)
    BY <1>1
  <2> QED BY <1>1, <1>2, <2>1
<1> QED BY <1>1, <1>3, <1>4 DEF N, t

\* A step in which the stream says nothing.
LEMMA ReaderStays ==
  ASSUME UNCHANGED <<stream, wire, buffer, sent, handled, silent>>, DeployInv
  PROVE  WholeInv' /\ (\A i \in 1 .. Len(sent') : Near(Deploy!StepOf(sent[i]), reached))
<1>1. Whole => Whole' BY DEF Whole, Refused, Piece
<1>2. WholeInv' BY <1>1 DEF DeployInv, WholeInv
<1> QED BY <1>2 DEF DeployInv, NearInv

\* The stream may end while nothing of it is lost.
LEMMA StreamEnds ==
  ASSUME DeployInv, stream = "open", stream' = "ended", UNCHANGED <<wire, buffer, sent, handled>>
  PROVE  WholeInv'
<1>1. Whole BY DEF DeployInv, WholeInv
<1>2. ~ Refused BY DEF Refused
<1>3. Whole' BY <1>1, <1>2 DEF Whole, Piece
<1> QED BY <1>3 DEF WholeInv

\* A message.
LEMMA SendStep ==
  ASSUME DeployInv, NEW x \in Deploy!Phase \cup LastLines, Deploy!Send(x),
         reached' \in 1 .. 3, reached <= reached', Near(Deploy!StepOf(x), reached')
  PROVE  /\ stream' = stream /\ handled' = handled
         /\ sent' \in Seq(Deploy!States) /\ wire' \in Seq(Chars) /\ buffer' = buffer
         /\ silent' \in BOOLEAN /\ (silent => silent')
         /\ WholeInv'
         /\ \A i \in 1 .. Len(sent') : Near(Deploy!StepOf(sent'[i]), reached')
         /\ stream = "open" /\ ~ silent' /\ x \in LastLines => \E i \in 1 .. Len(sent') : sent'[i] = x
         /\ \A i \in 1 .. Len(sent) : i \in 1 .. Len(sent') /\ sent'[i] = sent[i]
         /\ dialog.at = "none" => sent' = sent
         /\ stream # "open" => UNCHANGED <<sent, silent>>
<1>1. DeployTypes /\ WholeInv /\ x \in Deploy!States
  BY DEF DeployInv, Deploy!States, LastLines
<1>2. /\ stream' = stream /\ handled' = handled /\ buffer' = buffer
      /\ silent' \in BOOLEAN /\ (silent => silent')
  BY <1>1 DEF Deploy!Send, DeployTypes
<1>3. CASE /\ stream = "open" /\ wire' = wire \o Deploy!Characters(x)
           /\ sent' = Append(sent, x) /\ silent' = silent
  <2> DEFINE N == Len(sent)
             c == Deploy!Characters(x)
             h == Len(handled)
             b == Len(buffer)
             w == Len(wire)
  <2>1. /\ sent' \in Seq(Deploy!States) /\ Len(sent') = N + 1 /\ sent'[N + 1] = x
        /\ \A i \in 1 .. N : sent'[i] = sent[i]
        /\ \A i \in 1 .. 3 * N : Deploy!Text(sent')[i] = Deploy!Text(sent)[i]
        /\ \A i \in 1 .. 3 : Deploy!Text(sent')[3 * N + i] = c[i]
    BY <1>1, <1>3, TextMore DEF DeployTypes
  <2>2. c \in Seq(Chars) /\ Len(c) = 3
    <3>1. c \in [1 .. 3 -> Chars] /\ Len(c) = 3 BY <1>1, CharForm DEF Deploy!Characters
    <3> QED BY <3>1 DEF Deploy!Characters
  <2>3. N \in Nat /\ h \in Nat /\ b \in Nat /\ w \in Nat BY <1>1, LenProperties DEF DeployTypes
  <2>4. /\ wire' \in Seq(Chars) /\ Len(wire') = w + 3
        /\ \A i \in 1 .. w + 3 : wire'[i] = IF i <= w THEN wire[i] ELSE c[i - w]
    <3> HIDE DEF c
    <3>1. wire \in Seq(Chars) /\ wire' = wire \o c BY <1>1, <1>3 DEF DeployTypes, c
    <3>2. /\ wire \o c \in Seq(Chars) /\ Len(wire \o c) = w + Len(c)
          /\ \A i \in 1 .. w + Len(c) : (wire \o c)[i] = IF i <= w THEN wire[i] ELSE c[i - w]
      BY <2>2, <3>1, ConcatProperties
    <3> HIDE DEF w
    <3> QED BY <2>2, <3>1, <3>2
  <2>5. /\ Piece(buffer, sent, h) /\ b <= 2
        /\ \A i \in 1 .. h : handled[i] = sent[i]
        /\ \A i \in 1 .. w : wire[i] = Deploy!Text(sent)[3 * h + b + i]
        /\ 3 * h + b + w = 3 * N
    BY <1>1, <1>3 DEF WholeInv, Whole, Refused
  <2> HIDE DEF N, c, h, b, w
  <2>6. h <= N /\ 3 * h + b <= 3 * N BY <2>3, <2>5
  <2>7. Piece(buffer, sent', h)
    <3>1. buffer \in Seq(Chars) /\ \A i \in 1 .. b : buffer[i] = Deploy!Text(sent)[3 * h + i]
      BY <2>5 DEF Piece, b
    <3>2. \A i \in 1 .. b : 3 * h + i \in 1 .. 3 * N BY <2>3, <2>6
    <3>3. \A i \in 1 .. b : buffer[i] = Deploy!Text(sent')[3 * h + i] BY <2>1, <3>1, <3>2
    <3>4. 3 * h + b <= 3 * Len(sent') BY <2>1, <2>3, <2>6
    <3> QED BY <3>1, <3>3, <3>4 DEF Piece, b
  <2>8. \A i \in 1 .. h : handled[i] = sent'[i] BY <2>1, <2>3, <2>5, <2>6
  <2>9. \A i \in 1 .. w + 3 : wire'[i] = Deploy!Text(sent')[3 * h + b + i]
    <3> TAKE i \in 1 .. w + 3
    <3>1. CASE i <= w
      <4>1. i \in 1 .. w /\ 3 * h + b + i \in 1 .. 3 * N BY <2>3, <2>5, <3>1
      <4> QED BY <2>1, <2>4, <2>5, <3>1, <4>1
    <3>2. CASE ~ (i <= w)
      <4>1. i - w \in 1 .. 3 /\ 3 * h + b + i = 3 * N + (i - w) BY <2>3, <2>5, <3>2
      <4> QED BY <2>1, <2>4, <3>2, <4>1
    <3> QED BY <3>1, <3>2
  <2>10. 3 * h + b + (w + 3) = 3 * Len(sent') BY <2>1, <2>3, <2>5
  <2>11. Whole'
    <3>1. Len(handled') = h /\ Len(buffer') = b /\ Len(wire') = w + 3 BY <1>2, <2>4 DEF h, b
    <3> QED BY <1>2, <2>5, <2>7, <2>8, <2>9, <2>10, <3>1 DEF Whole, Piece
  <2>12. WholeInv' BY <1>2, <1>3, <2>11 DEF WholeInv
  <2>13. \A i \in 1 .. Len(sent') : Near(Deploy!StepOf(sent'[i]), reached')
    <3> SUFFICES ASSUME NEW i \in 1 .. N + 1 PROVE Near(Deploy!StepOf(sent'[i]), reached') BY <2>1
    <3>1. CASE i = N + 1 BY <2>1, <3>1
    <3>2. CASE i # N + 1
      <4>1. i \in 1 .. N BY <2>3, <3>2
      <4>2. Near(Deploy!StepOf(sent[i]), reached) BY <4>1 DEF DeployInv, NearInv, N
      <4> QED BY <1>1, <2>1, <4>1, <4>2 DEF Near, DeployTypes
    <3> QED BY <3>1, <3>2
  <2>14. dialog.at # "none" BY <1>3 DEF DeployInv, ClosedInv
  <2>15. \A i \in 1 .. N : i \in 1 .. N + 1 /\ N + 1 \in 1 .. N + 1 BY <2>3
  <2>16. N + 1 \in 1 .. Len(sent') BY <2>1, <2>3
  <2> QED BY <1>2, <1>3, <2>1, <2>4, <2>12, <2>13, <2>14, <2>15, <2>16 DEF N
<1>4. CASE /\ silent' = (silent \/ (stream = "open" /\ x \in LastLines))
           /\ UNCHANGED <<wire, sent>>
  <2>1. WholeInv'
    <3>1. Whole /\ (silent => silent') => Whole' BY <1>2, <1>4 DEF Whole, Refused, Piece
    <3> QED BY <1>1, <1>2, <1>4, <3>1 DEF WholeInv
  <2>2. \A i \in 1 .. Len(sent') : Near(Deploy!StepOf(sent'[i]), reached')
    <3> SUFFICES ASSUME NEW i \in 1 .. Len(sent) PROVE Near(Deploy!StepOf(sent[i]), reached') BY <1>4
    <3>1. Near(Deploy!StepOf(sent[i]), reached) BY DEF DeployInv, NearInv
    <3> QED BY <1>1, <3>1 DEF Near, DeployTypes
  <2> QED BY <1>1, <1>2, <1>4, <2>1, <2>2 DEF DeployTypes
<1> QED BY <1>3, <1>4 DEF Deploy!Send, LastLines

\* The dialog is handed lines.
LEMMA HandleForm ==
  ASSUME DeployTypes, NEW lines \in Seq(Deploy!States), Deploy!Handle(lines)
  PROVE  /\ dialog' \in [at : {"none", "open", "closing"}, timer : BOOLEAN, confirm : {"none", "stop", "delete"}]
         /\ dialog'.at = dialog.at /\ (dialog.timer => dialog'.timer)
         /\ shown' \in Steps /\ handled' = handled \o lines
         /\ record = "error" => record' = "error"
         /\ \A i \in 1 .. Len(lines) : /\ lines[i] = "finish" => dialog'.timer
                                       /\ lines[i] = "error" => record' = "error"
         /\ \/ shown'.step = shown.step
            \/ \E i \in 1 .. Len(lines) : shown'.step = Deploy!StepOf(lines[i])
<1> DEFINE d == Deploy!ShowAll(lines)
<1>1. shown \in Steps /\ dialog.timer \in BOOLEAN BY DEF DeployTypes
<1>2. /\ d \in Views
      /\ dialog.timer => d.timer
      /\ record = "error" => d.record = "error"
      /\ \A n \in 1 .. Len(lines) : /\ lines[n] = "finish" => d.timer
                                    /\ lines[n] = "error" => d.record = "error"
      /\ \/ d.shown.step = shown.step
         \/ \E n \in 1 .. Len(lines) : d.shown.step = Deploy!StepOf(lines[n])
  BY <1>1, ShowAllForm
<1>3. /\ handled' = handled \o lines /\ shown' = d.shown /\ record' = d.record
      /\ dialog' = [dialog EXCEPT !.timer = d.timer]
  BY DEF Deploy!Handle
<1> HIDE DEF d
<1>4. d.timer \in BOOLEAN /\ d.shown \in Steps BY <1>2 DEF Views
<1>5. /\ dialog' \in [at : {"none", "open", "closing"}, timer : BOOLEAN, confirm : {"none", "stop", "delete"}]
      /\ dialog'.at = dialog.at /\ dialog'.timer = d.timer
  BY <1>3, <1>4 DEF DeployTypes
<1> QED BY <1>2, <1>3, <1>4, <1>5

\* Of what is handled the dialog takes notice, and it goes no further than the download.
LEMMA HandledStays ==
  ASSUME DeployInv, NEW lines \in Seq(Deploy!States), Deploy!Handle(lines), reached' = reached,
         stream # "none",
         \A i \in 1 .. Len(lines) : Near(Deploy!StepOf(lines[i]), reached)
  PROVE  Near(shown'.step, reached') /\ (dialog.at = "open" => Noticed')
<1>1. DeployTypes BY DEF DeployInv
<1>2. Near(shown'.step, reached)
  <2>1. CASE shown'.step = shown.step BY <2>1 DEF DeployInv, NearInv
  <2>2. CASE \E i \in 1 .. Len(lines) : shown'.step = Deploy!StepOf(lines[i]) BY <2>2
  <2> QED BY <1>1, <2>1, <2>2, HandleForm
<1>3. ASSUME dialog.at = "open" PROVE Noticed'
  <2> SUFFICES ASSUME NEW i \in 1 .. Len(handled')
               PROVE  /\ handled'[i] = "finish" => dialog'.timer
                      /\ handled'[i] = "error" => record' = "error"
    BY DEF Noticed
  <2>1. Noticed BY <1>3 DEF DeployInv, NoticeInv
  <2>2. handled \in Seq(Deploy!States) /\ Len(handled) \in Nat /\ Len(lines) \in Nat
    BY <1>1, LenProperties DEF DeployTypes
  <2>3. /\ Len(handled') = Len(handled) + Len(lines)
        /\ handled'[i] = IF i <= Len(handled) THEN handled[i] ELSE lines[i - Len(handled)]
    BY <1>1, <2>2, HandleForm, ConcatProperties
  <2>4. CASE i <= Len(handled)
    <3>1. i \in 1 .. Len(handled) BY <2>2, <2>4
    <3> QED BY <1>1, <2>1, <2>3, <2>4, <3>1, HandleForm DEF Noticed
  <2>5. CASE ~ (i <= Len(handled))
    <3>1. i - Len(handled) \in 1 .. Len(lines) BY <2>2, <2>3, <2>5
    <3> QED BY <1>1, <2>3, <2>5, <3>1, HandleForm
  <2> QED BY <2>4, <2>5
<1> QED BY <1>2, <1>3 DEF Near

-----------------------------------------------------------------------------
Dialogs == [at : {"none", "open", "closing"}, timer : BOOLEAN, confirm : {"none", "stop", "delete"}]

\* The download goes on, or ends.
LEMMA DownloadStep ==
  ASSUME DeployInv, NEW x \in Deploy!Phase \cup LastLines, Deploy!Send(x), task' = x,
         UNCHANGED <<dialog, record, shown>>,
         reached' \in 1 .. 3, reached <= reached', Near(Deploy!StepOf(x), reached')
  PROVE  DeployInv'
<1>1. DeployTypes /\ NearInv /\ EndInv /\ NoticeInv /\ ClosedInv BY DEF DeployInv
<1>2. /\ stream' = stream /\ handled' = handled
      /\ sent' \in Seq(Deploy!States) /\ wire' \in Seq(Chars) /\ buffer' = buffer
      /\ silent' \in BOOLEAN /\ (silent => silent')
      /\ WholeInv'
      /\ \A i \in 1 .. Len(sent') : Near(Deploy!StepOf(sent'[i]), reached')
      /\ stream = "open" /\ ~ silent' /\ x \in LastLines => \E i \in 1 .. Len(sent') : sent'[i] = x
      /\ dialog.at = "none" => sent' = sent
      /\ stream # "open" => UNCHANGED <<sent, silent>>
  BY SendStep
<1>3. DeployTypes' BY <1>1, <1>2 DEF DeployTypes
<1>4. ClosedInv' BY <1>1, <1>2 DEF ClosedInv
<1>5. NearInv' BY <1>1, <1>2 DEF NearInv, Near, DeployTypes, Steps
<1>6. EndInv' BY <1>1, <1>2 DEF EndInv
<1>7. NoticeInv' BY <1>1, <1>2 DEF NoticeInv, Noticed, Deploy!WaitsForSomething
<1> QED BY <1>2, <1>3, <1>4, <1>5, <1>6, <1>7 DEF DeployInv

LEMMA ProgressStep ==
  ASSUME DeployInv, NEW n \in 1 .. 3, Deploy!Progress(n) PROVE DeployInv'
<1> DEFINE x == Deploy!Phases[n]
<1>1. /\ task' = x /\ reached' = Deploy!Max({reached, n}) /\ Deploy!Send(x)
      /\ UNCHANGED <<dialog, record, shown>>
  BY DEF Deploy!Progress, Deploy!screen
<1>2. reached \in 1 .. 3 BY DEF DeployInv, DeployTypes
<1>3. Deploy!Max({reached, n}) = IF reached >= n THEN reached ELSE n BY <1>2 DEF Deploy!Max
<1>4. x \in Deploy!Phase \cup LastLines /\ Deploy!StepOf(x) = n BY StepForm
<1> HIDE DEF x
<1>5. reached' \in 1 .. 3 /\ reached <= reached' /\ n <= reached' BY <1>1, <1>2, <1>3
<1>6. Near(Deploy!StepOf(x), reached') BY <1>4, <1>5 DEF Near
<1>7. PICK y \in Deploy!Phase \cup LastLines : y = x BY <1>4
<1> QED BY <1>1, <1>5, <1>6, <1>7, DownloadStep

LEMMA EndsStep ==
  ASSUME DeployInv, NEW state \in LastLines, Deploy!Ends(state) PROVE DeployInv'
<1>1. task' = state /\ Deploy!Send(state) /\ UNCHANGED <<reached, dialog, record, shown>>
  BY DEF Deploy!Ends, Deploy!screen
<1>2. Near(Deploy!StepOf(state), reached') BY StepForm DEF Near, LastLines
<1>3. reached \in 1 .. 3 BY DEF DeployInv, DeployTypes
<1> QED BY <1>1, <1>2, <1>3, DownloadStep

\* The stream ends: the download has, or somebody has stopped it.
LEMMA StreamStops ==
  ASSUME DeployInv, stream' = IF stream = "open" THEN "ended" ELSE stream,
         UNCHANGED <<reached, wire, buffer, sent, handled, shown>>,
         silent' \in BOOLEAN, silent => silent', stream # "open" => silent' = silent,
         stream = "open" /\ ~ silent' => \E i \in 1 .. Len(sent) : sent[i] \in LastLines,
         dialog' \in Dialogs, dialog'.at = "none" => dialog.at = "none",
         dialog'.at = "open" => UNCHANGED <<dialog, record>>
  PROVE  DeployInv'
<1>1. DeployTypes /\ NearInv /\ EndInv /\ NoticeInv /\ ClosedInv /\ WholeInv BY DEF DeployInv
<1>2. DeployTypes' BY <1>1 DEF DeployTypes, Dialogs
<1>3. WholeInv'
  <2>1. CASE stream = "open" BY <2>1, StreamEnds
  <2>2. CASE stream # "open"
    <3>1. UNCHANGED <<stream, wire, buffer, sent, handled, silent>> BY <2>2
    <3> QED BY <3>1, ReaderStays
  <2> QED BY <2>1, <2>2
<1>4. ClosedInv' BY <1>1 DEF ClosedInv
<1>5. NearInv' BY <1>1 DEF NearInv
<1>6. EndInv' BY <1>1 DEF EndInv
<1>7. NoticeInv' BY <1>1 DEF NoticeInv, Noticed, Deploy!WaitsForSomething, DeployTypes
<1> QED BY <1>2, <1>3, <1>4, <1>5, <1>6, <1>7 DEF DeployInv

\* The stream goes on.
LEMMA StreamStays ==
  ASSUME DeployInv, UNCHANGED <<stream, wire, buffer, sent, handled, silent, reached>>,
         task' \in LastLines => task' = task,
         dialog' \in Dialogs, dialog'.at = "none" => dialog.at = "none",
         shown' \in Steps, Near(shown'.step, reached),
         dialog'.at = "open" => \/ dialog.at = "open" /\ dialog'.timer = dialog.timer /\ record' = record
                                \/ stream = "none" /\ record' = "deploying_error"
  PROVE  DeployInv'
<1>1. DeployTypes /\ NearInv /\ EndInv /\ NoticeInv /\ ClosedInv BY DEF DeployInv
<1>2. DeployTypes' BY <1>1 DEF DeployTypes, Dialogs
<1>3. WholeInv' BY ReaderStays
<1>4. ClosedInv' BY <1>1 DEF ClosedInv
<1>5. NearInv' BY <1>1 DEF NearInv
<1>6. EndInv' BY <1>1 DEF EndInv
<1>7. NoticeInv'
  <2>1. ASSUME dialog'.at = "open", stream' # "none" PROVE Noticed' BY <1>1, <2>1 DEF NoticeInv, Noticed
  <2>2. Deploy!WaitsForSomething' BY <1>1 DEF NoticeInv, Deploy!WaitsForSomething
  <2> QED BY <2>1, <2>2 DEF NoticeInv
<1> QED BY <1>2, <1>3, <1>4, <1>5, <1>6, <1>7 DEF DeployInv

-----------------------------------------------------------------------------
\* The server.

LEMMA HookStep == ASSUME DeployInv, Deploy!Hook PROVE DeployInv'
<1>1. /\ task \in LastLines
      /\ stream' = IF stream = "open" THEN "ended" ELSE stream
      /\ UNCHANGED <<reached, wire, buffer, sent, handled, silent, dialog, record, shown>>
  BY DEF Deploy!Hook, Deploy!screen, LastLines
<1>2. silent \in BOOLEAN /\ dialog \in Dialogs BY DEF DeployInv, DeployTypes, Dialogs
<1>3. stream = "open" /\ ~ silent => \E i \in 1 .. Len(sent) : sent[i] \in LastLines
  BY <1>1 DEF DeployInv, EndInv
<1> QED BY <1>1, <1>2, <1>3, StreamStops

LEMMA CancelsStep ==
  ASSUME DeployInv, Deploy!Cancels, shown' = shown, dialog' \in Dialogs,
         dialog'.at = "none" => dialog.at = "none",
         dialog'.at = "open" => UNCHANGED <<dialog, record>>
  PROVE  DeployInv'
<1>1. /\ stream' = IF stream = "open" THEN "ended" ELSE stream
      /\ silent' = (silent \/ stream = "open")
      /\ UNCHANGED <<reached, wire, buffer, sent, handled>>
  BY DEF Deploy!Cancels
<1>2. silent \in BOOLEAN BY DEF DeployInv, DeployTypes
<1>3. silent' \in BOOLEAN /\ (silent => silent') /\ (stream # "open" => silent' = silent)
      /\ (stream = "open" => silent')
  BY <1>1, <1>2
<1> QED BY <1>1, <1>3, StreamStops

LEMMA DeploysForm ==
  ASSUME DeployInv, Deploy!Deploys
  PROVE  (task' \in LastLines => task' = task) /\ reached' = reached
BY DEF Deploy!Deploys, LastLines

LEMMA ElsewhereStep == ASSUME DeployInv, Deploy!Elsewhere PROVE DeployInv'
<1>1. UNCHANGED <<dialog, record, shown>> BY DEF Deploy!Elsewhere, Deploy!screen
<1>2. dialog \in Dialogs /\ shown \in Steps /\ Near(shown.step, reached)
  BY DEF DeployInv, DeployTypes, Dialogs, NearInv
<1>3. CASE Deploy!Cancels BY <1>1, <1>2, <1>3, CancelsStep
<1>4. CASE Deploy!Deploys /\ UNCHANGED Deploy!reader
  <2>1. UNCHANGED <<stream, wire, buffer, sent, handled, silent>> BY <1>4 DEF Deploy!reader
  <2>2. (task' \in LastLines => task' = task) /\ reached' = reached BY <1>4, DeploysForm
  <2> QED BY <1>1, <1>2, <2>1, <2>2, StreamStays
<1> QED BY <1>3, <1>4 DEF Deploy!Elsewhere

-----------------------------------------------------------------------------
\* The stream.

LEMMA EmptyForm == <<>> \in Seq(Chars) /\ <<>> \in Seq(Deploy!States) /\ Len(<<>>) = 0
OBVIOUS

LEMMA AcceptStep == ASSUME DeployInv, Deploy!Accept PROVE DeployInv'
<1>1. /\ stream = "asked" /\ stream' = "open" /\ Deploy!Deploys
      /\ silent' = (task \in LastLines)
      /\ UNCHANGED <<wire, buffer, sent, handled, dialog, record, shown>>
  BY DEF Deploy!Accept, Deploy!screen, LastLines
<1>2. (task' \in LastLines => task' = task) /\ reached' = reached BY <1>1, DeploysForm
<1>3. DeployTypes /\ NearInv /\ EndInv /\ NoticeInv /\ ClosedInv /\ WholeInv BY DEF DeployInv
<1>4. sent = <<>> /\ handled = <<>> /\ buffer = <<>> /\ wire = <<>> BY <1>1, <1>3 DEF WholeInv
<1>5. DeployTypes' BY <1>1, <1>2, <1>3 DEF DeployTypes
<1>6. Whole' BY <1>1, <1>4, EmptyForm DEF Whole, Piece
<1>7. WholeInv' BY <1>1, <1>6 DEF WholeInv
<1>8. ClosedInv' BY <1>1, <1>3 DEF ClosedInv
<1>9. NearInv' BY <1>1, <1>2, <1>3 DEF NearInv
<1>10. EndInv' BY <1>1, <1>2 DEF EndInv
<1>11. NoticeInv' BY <1>1, <1>4 DEF NoticeInv, Noticed, Deploy!WaitsForSomething
<1> QED BY <1>5, <1>7, <1>8, <1>9, <1>10, <1>11 DEF DeployInv

LEMMA RefuseStep == ASSUME DeployInv, Deploy!Refuse PROVE DeployInv'
<1> DEFINE c == Deploy!Characters("refused")
           s == <<"refused">>
<1>1. /\ stream = "asked" /\ stream' = "ended"
      /\ wire' = Deploy!Front(c) /\ sent' = s /\ silent' = TRUE
      /\ UNCHANGED <<task, reached, buffer, handled, dialog, record, shown>>
  BY DEF Deploy!Refuse, Deploy!screen, Deploy!server
<1>2. DeployTypes /\ NearInv /\ NoticeInv /\ ClosedInv /\ WholeInv BY DEF DeployInv
<1>3. handled = <<>> /\ buffer = <<>> BY <1>1, <1>2 DEF WholeInv
<1>4. "refused" \in Deploy!States BY DEF Deploy!States
<1>5. s \in Seq(Deploy!States) /\ Len(s) = 1 /\ s[1] = "refused" BY <1>4
<1>6. /\ wire' \in Seq(Chars) /\ Len(wire') = 2
      /\ wire'[1] = <<"refused", "head">> /\ wire'[2] = <<"refused", "tail">>
  <2>1. c = <<<<"refused", "head">>, <<"refused", "tail">>, Deploy!EndOfLine>> BY DEF Deploy!Characters
  <2>2. wire' = SubSeq(c, 1, 2)
    <3>1. Len(c) = 3 BY <2>1
    <3>2. Deploy!Front(c) = SubSeq(c, 1, Len(c) - 1) BY DEF Deploy!Front
    <3> HIDE DEF c
    <3>3. Deploy!Front(c) = SubSeq(c, 1, 2) BY <3>1, <3>2
    <3> QED BY <1>1, <3>3
  <2>3. \A i \in 1 .. 2 : c[i] \in Chars BY <1>4, <2>1 DEF Chars
  <2>4. c[1] = <<"refused", "head">> /\ c[2] = <<"refused", "tail">> BY <2>1
  <2> HIDE DEF c
  <2>5. /\ SubSeq(c, 1, 2) \in Seq(Chars) /\ Len(SubSeq(c, 1, 2)) = 2
        /\ \A i \in 1 .. 2 : SubSeq(c, 1, 2)[i] = c[i]
    BY <2>3, SubSeqProperties
  <2> QED BY <2>2, <2>4, <2>5
<1>7. /\ Deploy!Text(s)[1] = <<"refused", "head">> /\ Deploy!Text(s)[2] = <<"refused", "tail">>
  <2>1. Deploy!Text(s)[3 * 1 - 2] = <<s[1], "head">> /\ Deploy!Text(s)[3 * 1 - 1] = <<s[1], "tail">>
    <3>1. 1 \in 1 .. Len(s) BY <1>5
    <3> HIDE DEF s
    <3> QED BY <1>5, <3>1, TextForm
  <2> QED BY <1>5, <2>1
<1> HIDE DEF s
<1>8. Whole'
  <2>1. Len(handled') = 0 /\ Len(buffer') = 0 BY <1>1, <1>3
  <2>2. Piece(buffer', sent', 0) BY <1>1, <1>3, <1>5, <2>1, EmptyForm DEF Piece
  <2>3. \A i \in 1 .. 2 : wire'[i] = Deploy!Text(sent')[i]
    <3>1. \A i \in 1 .. 2 : i = 1 \/ i = 2 OBVIOUS
    <3> QED BY <1>1, <1>6, <1>7, <3>1
  <2>4. \A i \in 1 .. 2 : 3 * 0 + 0 + i = i OBVIOUS
  <2>5. Refused' BY <1>1 DEF Refused, s
  <2> QED BY <1>6, <2>1, <2>2, <2>3, <2>4, <2>5 DEF Whole
<1>9. DeployTypes' BY <1>1, <1>2, <1>5, <1>6 DEF DeployTypes
<1>10. WholeInv' BY <1>1, <1>8 DEF WholeInv
<1>11. ClosedInv' BY <1>1, <1>2 DEF ClosedInv
<1>12. NearInv' BY <1>1, <1>2, <1>5, StepForm DEF NearInv, Near
<1>13. EndInv' BY <1>1 DEF EndInv
<1>14. NoticeInv' BY <1>1, <1>3 DEF NoticeInv, Noticed, Deploy!WaitsForSomething
<1> QED BY <1>9, <1>10, <1>11, <1>12, <1>13, <1>14 DEF DeployInv

LEMMA BreakStep == ASSUME DeployInv, Deploy!Break PROVE DeployInv'
<1>1. /\ stream # "none" /\ stream' = "none" /\ wire' = <<>> /\ silent' = TRUE
      /\ UNCHANGED <<reached, buffer, sent, handled, dialog, record, shown>>
  BY DEF Deploy!Break, Deploy!screen, Deploy!server
<1>2. DeployTypes /\ NearInv /\ NoticeInv /\ ClosedInv /\ WholeInv BY DEF DeployInv
<1>3. DeployTypes' BY <1>1, <1>2, EmptyForm DEF DeployTypes
<1>4. WholeInv' BY <1>1 DEF WholeInv
<1>5. ClosedInv' BY <1>1, <1>2 DEF ClosedInv
<1>6. NearInv' BY <1>1, <1>2 DEF NearInv
<1>7. EndInv' BY <1>1 DEF EndInv
<1>8. NoticeInv' BY <1>1 DEF NoticeInv, Deploy!WaitsForSomething
<1> QED BY <1>3, <1>4, <1>5, <1>6, <1>7, <1>8 DEF DeployInv

-----------------------------------------------------------------------------
\* What stands between what is handled and what is held, and what is on the wire.
LEMMA ReadForm ==
  ASSUME DeployInv, NEW n \in 1 .. Len(wire), Whole
  PROVE  LET h == Len(handled)
             b == Len(buffer)
             w == Len(wire)
             text == buffer \o SubSeq(wire, 1, n)
             rest == SubSeq(wire, n + 1, w)
         IN /\ Piece(text, sent, h) /\ Len(text) = b + n
            /\ rest \in Seq(Chars) /\ Len(rest) = w - n
            /\ \A i \in 1 .. w - n : rest[i] = Deploy!Text(sent)[3 * h + b + n + i]
<1> DEFINE h == Len(handled)
           b == Len(buffer)
           w == Len(wire)
           N == Len(sent)
           part == SubSeq(wire, 1, n)
           rest == SubSeq(wire, n + 1, w)
           text == buffer \o part
<1>1. DeployTypes BY DEF DeployInv
<1>2. h \in Nat /\ b \in Nat /\ w \in Nat /\ N \in Nat BY <1>1, LenProperties DEF DeployTypes
<1>3. \A i \in 1 .. w : wire[i] \in Chars BY <1>1 DEF DeployTypes
<1>4. wire \in Seq(Chars) /\ buffer \in Seq(Chars) BY <1>1 DEF DeployTypes
<1>5. /\ Piece(buffer, sent, h)
      /\ \A i \in 1 .. w : wire[i] = Deploy!Text(sent)[3 * h + b + i]
      /\ 3 * h + b + w = 3 * N \/ (Refused /\ 3 * h + b + w = 2)
  BY DEF Whole
<1>6. n \in 1 .. w OBVIOUS
<1>7. 3 * h + b + n <= 3 * N
  <2>1. Refused => N = 1 BY DEF Refused
  <2> HIDE DEF h, b, w, N
  <2> QED BY <1>2, <1>5, <1>6, <2>1
<1> HIDE DEF w
<1>8. part \in Seq(Chars) /\ Len(part) = n /\ \A i \in 1 .. n : part[i] = wire[i]
  <2>1. \A i \in 1 .. n : wire[i] \in Chars BY <1>2, <1>3, <1>6
  <2>2. /\ part \in Seq(Chars) /\ Len(part) = IF 1 <= n THEN n - 1 + 1 ELSE 0
        /\ \A i \in 1 .. n - 1 + 1 : part[i] = wire[1 + i - 1]
    BY <1>2, <1>6, <2>1, SubSeqProperties
  <2> HIDE DEF part
  <2>3. \A i \in 1 .. n : 1 + i - 1 = i OBVIOUS
  <2> QED BY <1>2, <1>6, <2>2, <2>3
<1>9. rest \in Seq(Chars) /\ Len(rest) = w - n /\ \A i \in 1 .. w - n : rest[i] = wire[n + i]
  <2>1. \A i \in n + 1 .. w : wire[i] \in Chars BY <1>2, <1>3, <1>6
  <2>2. /\ rest \in Seq(Chars) /\ Len(rest) = IF n + 1 <= w THEN w - (n + 1) + 1 ELSE 0
        /\ \A i \in 1 .. w - (n + 1) + 1 : rest[i] = wire[(n + 1) + i - 1]
    BY <1>2, <1>6, <2>1, SubSeqProperties
  <2> HIDE DEF rest
  <2>3. w - (n + 1) + 1 = w - n /\ \A i \in 1 .. w - n : (n + 1) + i - 1 = n + i BY <1>2, <1>6
  <2> QED BY <1>2, <1>6, <2>2, <2>3
<1> HIDE DEF part, rest
<1>10. /\ text \in Seq(Chars) /\ Len(text) = b + n
       /\ \A i \in 1 .. b + n : text[i] = IF i <= b THEN buffer[i] ELSE part[i - b]
  <2>1. /\ buffer \o part \in Seq(Chars) /\ Len(buffer \o part) = b + Len(part)
        /\ \A i \in 1 .. b + Len(part) : (buffer \o part)[i] = IF i <= b THEN buffer[i] ELSE part[i - b]
    BY <1>4, <1>8, ConcatProperties
  <2> HIDE DEF b
  <2> QED BY <1>8, <2>1
<1> HIDE DEF text
<1>11. \A i \in 1 .. b : buffer[i] = Deploy!Text(sent)[3 * h + i] BY <1>5 DEF Piece, b
<1> HIDE DEF h, b, N
<1>12. \A i \in 1 .. b + n : text[i] = Deploy!Text(sent)[3 * h + i]
  <2> TAKE i \in 1 .. b + n
  <2>1. CASE i <= b
    <3>1. i \in 1 .. b BY <1>2, <2>1
    <3> QED BY <1>10, <1>11, <2>1, <3>1
  <2>2. CASE ~ (i <= b)
    <3>1. i - b \in 1 .. n /\ i - b \in 1 .. w /\ 3 * h + b + (i - b) = 3 * h + i BY <1>2, <1>6, <2>2
    <3>2. text[i] = part[i - b] BY <1>10, <2>2
    <3>3. part[i - b] = wire[i - b] BY <1>8, <3>1
    <3>4. wire[i - b] = Deploy!Text(sent)[3 * h + b + (i - b)] BY <1>5, <3>1
    <3> QED BY <3>1, <3>2, <3>3, <3>4
  <2> QED BY <2>1, <2>2
<1>13. \A i \in 1 .. w - n : rest[i] = Deploy!Text(sent)[3 * h + b + n + i]
  <2> TAKE i \in 1 .. w - n
  <2>1. n + i \in 1 .. w /\ 3 * h + b + (n + i) = 3 * h + b + n + i BY <1>2, <1>6
  <2>2. rest[i] = wire[n + i] BY <1>9
  <2>3. wire[n + i] = Deploy!Text(sent)[3 * h + b + (n + i)] BY <1>5, <2>1
  <2> QED BY <2>1, <2>2, <2>3
<1>14. Piece(text, sent, h) BY <1>2, <1>6, <1>7, <1>10, <1>12 DEF Piece, N
<1> QED BY <1>9, <1>10, <1>13, <1>14 DEF h, b, w, text, part, rest

LEMMA ChunkStep ==
  ASSUME DeployInv, NEW n \in 1 .. Len(wire), Deploy!Read(n)
  PROVE  DeployInv'
<1> DEFINE h == Len(handled)
           b == Len(buffer)
           w == Len(wire)
           N == Len(sent)
           text == buffer \o SubSeq(wire, 1, n)
           m == Len(text) \div 3
           lines == Deploy!Lines(text)
           rest == Deploy!Rest(text)
           after == SubSeq(wire, n + 1, w)
<1>1. /\ wire' = after /\ Deploy!Handle(lines) /\ buffer' = rest
      /\ UNCHANGED <<task, reached, stream, sent, silent>>
  BY DEF Deploy!Read, Deploy!server
<1>2. DeployTypes /\ NearInv /\ EndInv /\ NoticeInv /\ ClosedInv /\ WholeInv BY DEF DeployInv
<1>3. h \in Nat /\ b \in Nat /\ w \in Nat /\ N \in Nat BY <1>2, LenProperties DEF DeployTypes
<1>4. stream \in {"open", "ended"} /\ Whole
  <2>1. wire # <<>> BY <1>3
  <2> QED BY <1>2, <2>1 DEF DeployTypes, WholeInv
<1>5. /\ Piece(text, sent, h) /\ Len(text) = b + n
      /\ after \in Seq(Chars) /\ Len(after) = w - n
      /\ \A i \in 1 .. w - n : after[i] = Deploy!Text(sent)[3 * h + b + n + i]
  BY <1>4, ReadForm
<1>6. sent \in Seq(Deploy!States) /\ handled \in Seq(Deploy!States) BY <1>2 DEF DeployTypes
<1> HIDE DEF text, after
<1>7. lines = [k \in 1 .. m |-> sent[h + k]] /\ h + m <= N BY <1>3, <1>5, <1>6, LinesForm
<1>8. Piece(rest, sent, h + m) /\ Len(rest) = Len(text) - 3 * m /\ Len(rest) <= 2
  BY <1>3, <1>5, <1>6, RestForm
<1> HIDE DEF lines, rest
<1>9. m \in Nat
  <2> HIDE DEF b
  <2> QED BY <1>3, <1>5
<1>10. /\ \A i \in 1 .. h : handled[i] = sent[i]
       /\ 3 * h + b + w = 3 * N \/ (Refused /\ 3 * h + b + w = 2)
  BY <1>4 DEF Whole
<1> HIDE DEF h, b, w, N, m
<1>11. \A k \in 1 .. m : h + k \in 1 .. N /\ sent[h + k] \in Deploy!States
  <2> TAKE k \in 1 .. m
  <2>1. h + k \in 1 .. N BY <1>3, <1>7, <1>9
  <2> QED BY <1>6, <2>1 DEF N
<1>12. lines \in Seq(Deploy!States) /\ Len(lines) = m /\ \A k \in 1 .. m : lines[k] = sent[h + k]
  <2>1. lines \in [1 .. m -> Deploy!States] BY <1>7, <1>11
  <2> QED BY <1>7, <1>9, <2>1
<1>13. \A i \in 1 .. Len(lines) : Near(Deploy!StepOf(lines[i]), reached)
  BY <1>2, <1>11, <1>12 DEF NearInv, N
<1>14. /\ dialog' \in Dialogs /\ dialog'.at = dialog.at
       /\ shown' \in Steps /\ handled' = handled \o lines
  BY <1>1, <1>2, <1>12, HandleForm DEF Dialogs
<1>15. Near(shown'.step, reached') /\ (dialog.at = "open" => Noticed')
  BY <1>1, <1>4, <1>12, <1>13, HandledStays
<1>16. /\ handled' \in Seq(Deploy!States) /\ Len(handled') = h + m
       /\ \A i \in 1 .. h + m : handled'[i] = sent[i]
  <2>1. /\ handled' \in Seq(Deploy!States) /\ Len(handled') = h + m
        /\ \A i \in 1 .. h + m : handled'[i] = IF i <= h THEN handled[i] ELSE lines[i - h]
    <3>1. /\ handled \o lines \in Seq(Deploy!States) /\ Len(handled \o lines) = h + Len(lines)
          /\ \A i \in 1 .. h + Len(lines) : (handled \o lines)[i] = IF i <= h THEN handled[i] ELSE lines[i - h]
      BY <1>6, <1>12, ConcatProperties DEF h
    <3> QED BY <1>12, <1>14, <3>1
  <2>2. ASSUME NEW i \in 1 .. h + m PROVE handled'[i] = sent[i]
    <3>1. CASE i <= h
      <4>1. i \in 1 .. h BY <1>3, <3>1
      <4> QED BY <1>10, <2>1, <3>1, <4>1
    <3>2. CASE ~ (i <= h)
      <4>1. i - h \in 1 .. m /\ h + (i - h) = i BY <1>3, <1>9, <3>2
      <4> QED BY <1>12, <2>1, <3>2, <4>1
    <3> QED BY <3>1, <3>2
  <2> QED BY <2>1, <2>2
<1>17. Whole'
  <2>1. Len(handled') = h + m /\ Len(buffer') = b + n - 3 * m /\ Len(wire') = w - n
    <3>1. Len(buffer') = b + n - 3 * m BY <1>1, <1>3, <1>5, <1>8, <1>9
    <3>2. Len(wire') = w - n BY <1>1, <1>5
    <3> QED BY <1>16, <3>1, <3>2
  <2>2. 3 * (h + m) + (b + n - 3 * m) = 3 * h + b + n BY <1>3, <1>9
  <2>3. \A i \in 1 .. w - n : wire'[i] = Deploy!Text(sent')[3 * (h + m) + (b + n - 3 * m) + i]
    BY <1>1, <1>5, <2>2
  <2>4. 3 * (h + m) + (b + n - 3 * m) + (w - n) = 3 * h + b + w BY <1>3, <1>9
  <2>5. Piece(buffer', sent', h + m) /\ Len(buffer') <= 2 BY <1>1, <1>8 DEF Piece
  <2>6. Refused => Refused' BY <1>1 DEF Refused
  <2>7. Len(sent') = N BY <1>1 DEF N
  <2>8. \A i \in 1 .. h + m : handled'[i] = sent'[i] BY <1>1, <1>16
  <2>9. 3 * (h + m) + (b + n - 3 * m) + (w - n) = 3 * N
        \/ (Refused' /\ 3 * (h + m) + (b + n - 3 * m) + (w - n) = 2)
    BY <1>10, <2>4, <2>6
  <2> QED BY <2>1, <2>3, <2>5, <2>7, <2>8, <2>9 DEF Whole
<1>18. DeployTypes'
  <2>1. rest \in Seq(Chars) BY <1>8 DEF Piece
  <2> QED BY <1>1, <1>2, <1>5, <1>14, <1>16, <2>1 DEF DeployTypes, Dialogs
<1>19. WholeInv' BY <1>1, <1>4, <1>17 DEF WholeInv
<1>20. ClosedInv' BY <1>1, <1>2, <1>4, <1>14 DEF ClosedInv
<1>21. NearInv' BY <1>1, <1>2, <1>15 DEF NearInv
<1>22. EndInv' BY <1>1, <1>2 DEF EndInv
<1>23. NoticeInv' BY <1>1, <1>4, <1>14, <1>15 DEF NoticeInv, Deploy!WaitsForSomething
<1> QED BY <1>18, <1>19, <1>20, <1>21, <1>22, <1>23 DEF DeployInv

\* At the end nothing is held but the line of a refusal.
LEMMA ReadEndStep == ASSUME DeployInv, Deploy!ReadEnd PROVE DeployInv'
<1> DEFINE lines == IF buffer = <<>> THEN <<>> ELSE <<buffer[1][1]>>
<1>1. /\ stream = "ended" /\ wire = <<>> /\ stream' = "none" /\ Deploy!Handle(lines) /\ buffer' = <<>>
      /\ UNCHANGED <<task, reached, wire, sent, silent>>
  BY DEF Deploy!ReadEnd, Deploy!server
<1>2. DeployTypes /\ NearInv /\ EndInv /\ NoticeInv /\ ClosedInv /\ WholeInv BY DEF DeployInv
<1>3. Whole BY <1>1, <1>2 DEF WholeInv
<1>4. Len(handled) \in Nat /\ Len(buffer) \in Nat /\ Len(sent) \in Nat /\ Len(wire) = 0
  BY <1>1, <1>2, LenProperties DEF DeployTypes
<1>5. \/ Len(handled) = Len(sent) /\ Len(buffer) = 0
      \/ Refused /\ Len(handled) = 0 /\ Len(buffer) = 2
  <2>1. /\ Len(buffer) <= 2
        /\ \/ 3 * Len(handled) + Len(buffer) + 0 = 3 * Len(sent)
           \/ Refused /\ 3 * Len(handled) + Len(buffer) + 0 = 2
    BY <1>3, <1>4 DEF Whole
  <2> DEFINE h == Len(handled)
             b == Len(buffer)
             n == Len(sent)
  <2>2. /\ h \in Nat /\ b \in Nat /\ n \in Nat /\ b <= 2
        /\ 3 * h + b + 0 = 3 * n \/ (Refused /\ 3 * h + b + 0 = 2)
    BY <1>4, <2>1
  <2> HIDE DEF h, b, n
  <2>3. ASSUME 3 * h + b + 0 = 3 * n PROVE h = n /\ b = 0 BY <2>2, <2>3
  <2>4. ASSUME 3 * h + b + 0 = 2 PROVE h = 0 /\ b = 2 BY <2>2, <2>4
  <2>5. (h = n /\ b = 0) \/ (Refused /\ h = 0 /\ b = 2) BY <2>2, <2>3, <2>4
  <2> QED BY <2>5 DEF h, b, n
<1>6. buffer = <<>> \/ (Refused /\ buffer[1][1] = "refused")
  <2>1. CASE Len(buffer) = 0 BY <1>2, <2>1 DEF DeployTypes
  <2>2. CASE Refused /\ Len(handled) = 0 /\ Len(buffer) = 2
    <3>1. buffer[1] = Deploy!Text(sent)[3 * 0 + 1]
      <4>1. \A i \in 1 .. Len(buffer) : buffer[i] = Deploy!Text(sent)[3 * Len(handled) + i]
        BY <1>3 DEF Whole, Piece
      <4>2. 1 \in 1 .. Len(buffer) BY <2>2
      <4> QED BY <2>2, <4>1, <4>2
    <3>2. Deploy!Text(sent)[3 * 1 - 2] = <<sent[1], "head">>
      <4>1. sent \in Seq(Deploy!States) BY <1>2 DEF DeployTypes
      <4>2. 1 \in 1 .. Len(sent) /\ sent[1] = "refused" BY <2>2 DEF Refused
      <4> QED BY <4>1, <4>2, TextForm
    <3>3. sent[1] = "refused" BY <2>2 DEF Refused
    <3>4. buffer[1] = <<"refused", "head">> BY <3>1, <3>2, <3>3
    <3> QED BY <2>2, <3>4
  <2> QED BY <1>5, <2>1, <2>2
<1>7. lines \in Seq(Deploy!States) /\ \A i \in 1 .. Len(lines) : lines[i] = "refused"
  <2>1. CASE buffer = <<>>
    <3>1. lines = <<>> BY <2>1
    <3> QED BY <3>1
  <2>2. CASE buffer # <<>>
    <3>1. lines = <<"refused">> BY <1>6, <2>2
    <3>2. "refused" \in Deploy!States BY DEF Deploy!States
    <3> QED BY <3>1, <3>2
  <2> QED BY <2>1, <2>2
<1> HIDE DEF lines
<1>8. \A i \in 1 .. Len(lines) : Near(Deploy!StepOf(lines[i]), reached)
  <2>1. Near(5, reached) BY DEF Near
  <2> QED BY <1>7, <2>1, StepForm
<1>9. /\ dialog' \in Dialogs /\ dialog'.at = dialog.at /\ (dialog.timer => dialog'.timer)
      /\ record = "error" => record' = "error"
      /\ shown' \in Steps /\ handled' = handled \o lines
  BY <1>1, <1>2, <1>7, HandleForm DEF Dialogs
<1>10. Near(shown'.step, reached')
  BY <1>1, <1>7, <1>8, HandledStays
<1>11. handled' \in Seq(Deploy!States) BY <1>2, <1>7, <1>9, ConcatProperties DEF DeployTypes
<1>12. DeployTypes' BY <1>1, <1>2, <1>9, <1>11, EmptyForm DEF DeployTypes, Dialogs
<1>13. WholeInv' BY <1>1 DEF WholeInv
<1>14. ClosedInv' BY <1>1, <1>2, <1>9 DEF ClosedInv
<1>15. NearInv' BY <1>1, <1>2, <1>10 DEF NearInv
<1>16. EndInv' BY <1>1 DEF EndInv
<1>17. Deploy!WaitsForSomething'
  <2> SUFFICES ASSUME dialog'.at = "open", record' = "deploying", ~ silent PROVE dialog'.timer
    BY <1>1 DEF Deploy!WaitsForSomething
  <2>1. Noticed BY <1>1, <1>2, <1>9 DEF NoticeInv
  <2>2. PICK i \in 1 .. Len(sent) : sent[i] \in LastLines BY <1>1, <1>2 DEF EndInv
  <2>3. Len(handled) = Len(sent) BY <1>5 DEF Refused
  <2>4. handled[i] = sent[i] BY <1>3, <2>3 DEF Whole
  <2>5. i \in 1 .. Len(handled) BY <2>3
  <2> QED BY <1>9, <2>1, <2>2, <2>4, <2>5 DEF Noticed, LastLines
<1>18. NoticeInv' BY <1>1, <1>17 DEF NoticeInv
<1> QED BY <1>12, <1>13, <1>14, <1>15, <1>16, <1>18 DEF DeployInv

-----------------------------------------------------------------------------
\* The dialog.

LEMMA LoadStep == ASSUME DeployInv, Deploy!Load PROVE DeployInv'
<1>1. /\ dialog.at # "open"
      /\ UNCHANGED <<task, reached, stream, wire, buffer, sent, handled, silent, dialog, shown>>
  BY DEF Deploy!Load, Deploy!server, Deploy!reader
<1>2. dialog \in Dialogs /\ shown \in Steps /\ Near(shown.step, reached)
  BY DEF DeployInv, DeployTypes, Dialogs, NearInv
<1> QED BY <1>1, <1>2, StreamStays

LEMMA OpenDeployingStep == ASSUME DeployInv, Deploy!OpenDeploying PROVE DeployInv'
<1>1. /\ dialog = Deploy!NoDialog /\ dialog' = [Deploy!NoDialog EXCEPT !.at = "open"]
      /\ shown' = Deploy!Pending /\ stream' = "asked"
      /\ reached' = IF task \in Deploy!Phase THEN Deploy!StepOf(task) ELSE 1
      /\ UNCHANGED <<task, wire, buffer, sent, handled, record, silent>>
  BY DEF Deploy!OpenDeploying
<1>2. DeployTypes /\ ClosedInv /\ WholeInv BY DEF DeployInv
<1>3. dialog.at = "none" BY <1>1 DEF Deploy!NoDialog
<1>4. sent = <<>> /\ handled = <<>> /\ buffer = <<>> /\ wire = <<>>
  BY <1>2, <1>3 DEF ClosedInv, WholeInv
<1>5. reached' \in 1 .. 3 BY <1>1, StepForm
<1>6. dialog' \in Dialogs /\ dialog'.at = "open" BY <1>1 DEF Deploy!NoDialog, Dialogs
<1>7. DeployTypes' BY <1>1, <1>2, <1>5, <1>6, PendingForm DEF DeployTypes, Dialogs
<1>8. WholeInv' BY <1>1, <1>4 DEF WholeInv
<1>9. ClosedInv' BY <1>6 DEF ClosedInv
<1>10. NearInv'
  <2>1. Near(1, reached') BY <1>5 DEF Near
  <2> QED BY <1>1, <1>4, <2>1, PendingForm DEF NearInv
<1>11. EndInv' BY <1>1 DEF EndInv
<1>12. NoticeInv' BY <1>1, <1>4 DEF NoticeInv, Noticed, Deploy!WaitsForSomething
<1> QED BY <1>7, <1>8, <1>9, <1>10, <1>11, <1>12 DEF DeployInv

LEMMA OpenFailedStep == ASSUME DeployInv, Deploy!OpenFailed PROVE DeployInv'
<1>1. /\ dialog = Deploy!NoDialog /\ record = "deploying_error"
      /\ dialog' = [Deploy!NoDialog EXCEPT !.at = "open"]
      /\ shown' \in {Deploy!Pending, Deploy!Marked(1, "error"), Deploy!Marked(1, "inProgress")}
      /\ UNCHANGED <<task, reached, stream, wire, buffer, sent, handled, record, silent>>
  BY DEF Deploy!OpenFailed, Deploy!server, Deploy!reader
<1>2. dialog.at = "none" /\ dialog' \in Dialogs BY <1>1 DEF Deploy!NoDialog, Dialogs
<1>3. stream = "none" BY <1>2 DEF DeployInv, ClosedInv
<1>4. shown' \in Steps /\ shown'.step = 1 BY <1>1, PendingForm, MarkedForm
<1>5. Near(1, reached) BY DEF DeployInv, DeployTypes, Near
<1> QED BY <1>1, <1>2, <1>3, <1>4, <1>5, StreamStays

LEMMA CloseItselfStep == ASSUME DeployInv, Deploy!CloseItself PROVE DeployInv'
<1>1. /\ dialog' = [dialog EXCEPT !.at = IF @ = "open" THEN "closing" ELSE @, !.timer = FALSE]
      /\ UNCHANGED <<task, reached, stream, wire, buffer, sent, handled, silent, shown>>
  BY DEF Deploy!CloseItself, Deploy!Destroy, Deploy!server, Deploy!reader
<1>2. dialog \in Dialogs /\ shown \in Steps /\ Near(shown.step, reached)
  BY DEF DeployInv, DeployTypes, Dialogs, NearInv
<1>3. dialog' \in Dialogs /\ dialog'.at # "open" /\ (dialog'.at = "none" => dialog.at = "none")
  BY <1>1, <1>2 DEF Dialogs
<1> QED BY <1>1, <1>2, <1>3, StreamStays

LEMMA CloseStep == ASSUME DeployInv, NEW reload \in BOOLEAN, Deploy!Close(reload) PROVE DeployInv'
<1>1. /\ dialog' = [dialog EXCEPT !.at = "closing"]
      /\ UNCHANGED <<task, reached, stream, wire, buffer, sent, handled, silent, shown>>
  BY DEF Deploy!Close, Deploy!server, Deploy!reader
<1>2. dialog \in Dialogs /\ shown \in Steps /\ Near(shown.step, reached)
  BY DEF DeployInv, DeployTypes, Dialogs, NearInv
<1>3. dialog' \in Dialogs /\ dialog'.at = "closing" BY <1>1, <1>2 DEF Dialogs
<1> QED BY <1>1, <1>2, <1>3, StreamStays

LEMMA AfterCloseStep == ASSUME DeployInv, Deploy!AfterClose PROVE DeployInv'
<1>1. /\ dialog' = [dialog EXCEPT !.at = "none"] /\ shown' = Deploy!Pending
      /\ stream' = "none" /\ wire' = <<>> /\ buffer' = <<>> /\ sent' = <<>> /\ handled' = <<>>
      /\ silent' = FALSE /\ UNCHANGED <<task, reached, record>>
  BY DEF Deploy!AfterClose, Deploy!Drop, Deploy!server
<1>2. DeployTypes BY DEF DeployInv
<1>3. dialog' \in Dialogs /\ dialog'.at = "none" BY <1>1, <1>2 DEF DeployTypes, Dialogs
<1>4. DeployTypes' BY <1>1, <1>2, <1>3, EmptyForm, PendingForm DEF DeployTypes, Dialogs
<1>5. WholeInv' BY <1>1 DEF WholeInv
<1>6. ClosedInv' BY <1>1 DEF ClosedInv
<1>7. NearInv'
  <2>1. Near(1, reached) BY <1>2 DEF DeployTypes, Near
  <2> QED BY <1>1, <2>1, PendingForm DEF NearInv
<1>8. EndInv' BY <1>1 DEF EndInv
<1>9. NoticeInv' BY <1>1, <1>3 DEF NoticeInv, Deploy!WaitsForSomething
<1> QED BY <1>4, <1>5, <1>6, <1>7, <1>8, <1>9 DEF DeployInv

LEMMA AskToStopStep == ASSUME DeployInv, Deploy!Ask PROVE DeployInv'
<1>1. /\ dialog.at = "open"
      /\ dialog' = [dialog EXCEPT !.confirm = IF record \in {"deploying_error", "error"} THEN "delete" ELSE "stop"]
      /\ UNCHANGED <<task, reached, stream, wire, buffer, sent, handled, silent, record, shown>>
  BY DEF Deploy!Ask, Deploy!server, Deploy!reader
<1>2. dialog \in Dialogs /\ shown \in Steps /\ Near(shown.step, reached)
  BY DEF DeployInv, DeployTypes, Dialogs, NearInv
<1>3. dialog' \in Dialogs /\ dialog'.at = "open" /\ dialog'.timer = dialog.timer
  BY <1>1, <1>2 DEF Dialogs
<1> QED BY <1>1, <1>2, <1>3, StreamStays

LEMMA ConfirmStopStep == ASSUME DeployInv, Deploy!Confirm PROVE DeployInv'
<1>1. /\ dialog' = [dialog EXCEPT !.confirm = "none", !.at = IF @ = "open" THEN "closing" ELSE @]
      /\ shown' = shown
  BY DEF Deploy!Confirm
<1>2. dialog \in Dialogs /\ silent \in BOOLEAN BY DEF DeployInv, DeployTypes, Dialogs
<1>3. dialog' \in Dialogs /\ dialog'.at # "open" /\ (dialog'.at = "none" => dialog.at = "none")
  <2>1. (IF dialog.at = "open" THEN "closing" ELSE dialog.at) \in {"none", "closing"}
    BY <1>2 DEF Dialogs
  <2> QED BY <1>1, <1>2, <2>1 DEF Dialogs
<1>4. CASE Deploy!Cancels BY <1>1, <1>3, <1>4, CancelsStep
<1>5. CASE /\ stream' = IF stream = "open" THEN "ended" ELSE stream
           /\ silent' = (silent \/ stream = "open")
           /\ UNCHANGED <<reached, wire, buffer, sent, handled>>
  <2>1. silent' \in BOOLEAN /\ (silent => silent') /\ (stream # "open" => silent' = silent)
        /\ (stream = "open" => silent')
    BY <1>2, <1>5
  <2> QED BY <1>1, <1>3, <1>5, <2>1, StreamStops
<1> QED BY <1>4, <1>5 DEF Deploy!Confirm

LEMMA WithdrawStep == ASSUME DeployInv, Deploy!Withdraw PROVE DeployInv'
<1>1. /\ dialog' = [dialog EXCEPT !.confirm = "none"]
      /\ UNCHANGED <<task, reached, stream, wire, buffer, sent, handled, silent, record, shown>>
  BY DEF Deploy!Withdraw, Deploy!server, Deploy!reader
<1>2. dialog \in Dialogs /\ shown \in Steps /\ Near(shown.step, reached)
  BY DEF DeployInv, DeployTypes, Dialogs, NearInv
<1>3. dialog' \in Dialogs /\ dialog'.at = dialog.at /\ dialog'.timer = dialog.timer
  BY <1>1, <1>2 DEF Dialogs
<1> QED BY <1>1, <1>2, <1>3, StreamStays

LEMMA DeployInit == Deploy!Init => DeployInv
<1> SUFFICES ASSUME Deploy!Init PROVE DeployInv OBVIOUS
<1>1. /\ task = "none" /\ reached = 1
      /\ stream = "none" /\ wire = <<>> /\ buffer = <<>> /\ sent = <<>> /\ handled = <<>>
      /\ dialog = Deploy!NoDialog /\ record = "none" /\ shown = Deploy!Pending
      /\ silent = FALSE
  BY DEF Deploy!Init
<1>2. dialog \in Dialogs /\ dialog.at = "none" BY <1>1 DEF Deploy!NoDialog, Dialogs
<1>3. DeployTypes
  <2>1. /\ wire \in Seq(Chars) /\ buffer \in Seq(Chars)
        /\ sent \in Seq(Deploy!States) /\ handled \in Seq(Deploy!States) /\ shown \in Steps
    BY <1>1, EmptyForm, PendingForm
  <2>2. reached \in 1 .. 3 /\ stream \in {"none", "asked", "open", "ended"} /\ silent \in BOOLEAN
    <3>1. reached \in 1 .. 3 BY <1>1
    <3>2. stream \in {"none", "asked", "open", "ended"} BY <1>1
    <3>3. silent \in BOOLEAN BY <1>1
    <3> QED BY <3>1, <3>2, <3>3
  <2> QED BY <1>2, <2>1, <2>2 DEF DeployTypes, Dialogs
<1>4. WholeInv BY <1>1 DEF WholeInv
<1>5. ClosedInv BY <1>1 DEF ClosedInv
<1>6. NearInv
  <2>1. Near(1, reached) BY <1>1 DEF Near
  <2> QED BY <1>1, <2>1, PendingForm DEF NearInv
<1>7. EndInv BY <1>1 DEF EndInv
<1>8. NoticeInv BY <1>1, <1>2 DEF NoticeInv, Deploy!WaitsForSomething
<1> QED BY <1>3, <1>4, <1>5, <1>6, <1>7, <1>8 DEF DeployInv

LEMMA DeployStep == DeployInv /\ [Deploy!Next]_(Deploy!vars) => DeployInv'
<1> SUFFICES ASSUME DeployInv, [Deploy!Next]_(Deploy!vars) PROVE DeployInv' OBVIOUS
<1>1. ASSUME NEW n \in 1 .. 3, Deploy!Progress(n) PROVE DeployInv' BY <1>1, ProgressStep
<1>2. ASSUME NEW state \in {"finish", "error"}, Deploy!Ends(state) PROVE DeployInv'
  BY <1>2, EndsStep DEF LastLines
<1>3. CASE Deploy!Hook BY <1>3, HookStep
<1>4. CASE Deploy!Elsewhere BY <1>4, ElsewhereStep
<1>5. CASE Deploy!Accept BY <1>5, AcceptStep
<1>6. CASE Deploy!Refuse BY <1>6, RefuseStep
<1>7. ASSUME NEW n \in DOMAIN wire, Deploy!Read(n) PROVE DeployInv'
  <2>1. n \in 1 .. Len(wire) BY <1>7 DEF Deploy!Read
  <2> QED BY <1>7, <2>1, ChunkStep
<1>8. CASE Deploy!ReadEnd BY <1>8, ReadEndStep
<1>9. CASE Deploy!Break BY <1>9, BreakStep
<1>10. CASE Deploy!Load BY <1>10, LoadStep
<1>11. CASE Deploy!OpenDeploying BY <1>11, OpenDeployingStep
<1>12. CASE Deploy!OpenFailed BY <1>12, OpenFailedStep
<1>13. CASE Deploy!CloseItself BY <1>13, CloseItselfStep
<1>14. CASE Deploy!AfterClose BY <1>14, AfterCloseStep
<1>15. ASSUME NEW reload \in BOOLEAN, Deploy!Close(reload) PROVE DeployInv' BY <1>15, CloseStep
<1>16. CASE Deploy!Ask BY <1>16, AskToStopStep
<1>17. CASE Deploy!Confirm BY <1>17, ConfirmStopStep
<1>18. CASE Deploy!Withdraw BY <1>18, WithdrawStep
<1>19. CASE UNCHANGED Deploy!vars
  <2>1. UNCHANGED <<task, reached, stream, wire, buffer, sent, handled, silent, dialog, record, shown>>
    BY <1>19 DEF Deploy!vars, Deploy!server, Deploy!reader, Deploy!screen
  <2>2. dialog \in Dialogs /\ shown \in Steps /\ Near(shown.step, reached)
    BY DEF DeployInv, DeployTypes, Dialogs, NearInv
  <2> QED BY <2>1, <2>2, StreamStays
<1> QED BY <1>1, <1>2, <1>3, <1>4, <1>5, <1>6, <1>7, <1>8, <1>9, <1>10, <1>11, <1>12, <1>13, <1>14,
           <1>15, <1>16, <1>17, <1>18, <1>19 DEF Deploy!Next

\* What was handled is the beginning of the text that was sent.
LEMMA HandledText ==
  ASSUME DeployTypes, Len(handled) <= Len(sent), \A i \in 1 .. Len(handled) : handled[i] = sent[i]
  PROVE  \A i \in 1 .. 3 * Len(handled) : Deploy!Text(handled)[i] = Deploy!Text(sent)[i]
<1> DEFINE h == Len(handled)
           N == Len(sent)
<1>1. h \in Nat /\ N \in Nat BY LenProperties DEF DeployTypes
<1>2. /\ \A i \in 1 .. 3 * h :
           Deploy!Text(handled)[i] = Deploy!Characters(handled[(i + 2) \div 3])[((i + 2) % 3) + 1]
      /\ \A i \in 1 .. 3 * N :
           Deploy!Text(sent)[i] = Deploy!Characters(sent[(i + 2) \div 3])[((i + 2) % 3) + 1]
  BY DEF Deploy!Text
<1> SUFFICES ASSUME NEW i \in 1 .. 3 * h PROVE Deploy!Text(handled)[i] = Deploy!Text(sent)[i] OBVIOUS
<1>3. h <= N /\ \A j \in 1 .. h : handled[j] = sent[j] OBVIOUS
<1> HIDE DEF h, N
<1>4. (i + 2) \div 3 \in 1 .. h /\ i \in 1 .. 3 * N BY <1>1, <1>3
<1> QED BY <1>2, <1>3, <1>4

LEMMA LinesDo == DeployInv => Deploy!LinesInOrder
<1> SUFFICES ASSUME DeployInv, stream \in {"open", "ended"}
             PROVE  Deploy!Text(handled) \o buffer \o wire \in
                      {Deploy!Text(sent), SubSeq(Deploy!Text(sent), 1, Len(Deploy!Text(sent)) - 1)}
  BY DEF Deploy!LinesInOrder
<1> DEFINE h == Len(handled)
           b == Len(buffer)
           w == Len(wire)
           N == Len(sent)
           A == Deploy!Text(handled)
           T == Deploy!Text(sent)
           Y == A \o buffer \o wire
           k == 3 * h + b + w
<1>1. DeployTypes /\ Whole BY DEF DeployInv, WholeInv
<1>2. h \in Nat /\ b \in Nat /\ w \in Nat /\ N \in Nat BY <1>1, LenProperties DEF DeployTypes
<1>3. /\ Piece(buffer, sent, h)
      /\ \A i \in 1 .. h : handled[i] = sent[i]
      /\ \A i \in 1 .. w : wire[i] = T[3 * h + b + i]
      /\ k = 3 * N \/ (Refused /\ k = 2)
  BY <1>1 DEF Whole
<1>4. T \in Seq(Chars) /\ Len(T) = 3 * N /\ A \in Seq(Chars) /\ Len(A) = 3 * h
  BY <1>1, TextForm DEF DeployTypes
<1>5. wire \in Seq(Chars) /\ buffer \in Seq(Chars) BY <1>1 DEF DeployTypes
<1>6. (\A i \in 1 .. b : buffer[i] = T[3 * h + i]) /\ 3 * h + b <= 3 * N BY <1>3 DEF Piece
<1>7. \A i \in 1 .. 3 * h : A[i] = T[i]
  <2>1. h <= N
    <3> HIDE DEF h, b, N, T
    <3> QED BY <1>2, <1>6
  <2> QED BY <1>1, <1>3, <2>1, HandledText
<1> HIDE DEF A, T
<1>8. /\ A \o buffer \in Seq(Chars) /\ Len(A \o buffer) = 3 * h + b
      /\ \A i \in 1 .. 3 * h + b : (A \o buffer)[i] = IF i <= 3 * h THEN A[i] ELSE buffer[i - 3 * h]
  <2>1. /\ A \o buffer \in Seq(Chars) /\ Len(A \o buffer) = Len(A) + b
        /\ \A i \in 1 .. Len(A) + b : (A \o buffer)[i] = IF i <= Len(A) THEN A[i] ELSE buffer[i - Len(A)]
    BY <1>4, <1>5, ConcatProperties
  <2> HIDE DEF h, b
  <2> QED BY <1>4, <2>1
<1>9. /\ Y \in Seq(Chars) /\ Len(Y) = k
      /\ \A i \in 1 .. k : Y[i] = IF i <= 3 * h + b THEN (A \o buffer)[i] ELSE wire[i - (3 * h + b)]
  <2> DEFINE B == A \o buffer
  <2>0. B \in Seq(Chars) /\ Len(B) = 3 * h + b BY <1>8
  <2> HIDE DEF B
  <2>1. /\ B \o wire \in Seq(Chars) /\ Len(B \o wire) = Len(B) + w
        /\ \A i \in 1 .. Len(B) + w : (B \o wire)[i] = IF i <= Len(B) THEN B[i] ELSE wire[i - Len(B)]
    BY <1>5, <2>0, ConcatProperties
  <2>2. Y = B \o wire BY DEF B
  <2> HIDE DEF h, b, w, Y
  <2> QED BY <2>0, <2>1, <2>2 DEF B
<1> HIDE DEF Y, h, b, w, N
<1>10. \A i \in 1 .. k : Y[i] = T[i]
  <2> SUFFICES ASSUME NEW i \in 1 .. k PROVE Y[i] = T[i] OBVIOUS
  <2>1. CASE i <= 3 * h
    <3>1. i \in 1 .. 3 * h /\ i \in 1 .. 3 * h + b /\ i <= 3 * h + b BY <1>2, <2>1
    <3> QED BY <1>7, <1>8, <1>9, <2>1, <3>1
  <2>2. CASE ~ (i <= 3 * h) /\ i <= 3 * h + b
    <3>1. i - 3 * h \in 1 .. b /\ 3 * h + (i - 3 * h) = i /\ i \in 1 .. 3 * h + b BY <1>2, <2>2
    <3> QED BY <1>6, <1>8, <1>9, <2>2, <3>1
  <2>3. CASE ~ (i <= 3 * h + b)
    <3>1. i - (3 * h + b) \in 1 .. w /\ 3 * h + b + (i - (3 * h + b)) = i BY <1>2, <2>3
    <3> QED BY <1>3, <1>9, <2>3, <3>1
  <2> QED BY <2>1, <2>2, <2>3
<1> HIDE DEF k
<1>11. CASE k = 3 * N
  <2>1. Y = T BY <1>4, <1>9, <1>10, <1>11
  <2> QED BY <2>1 DEF Y, A, T
<1>12. CASE Refused /\ k = 2
  <2>1. N = 1 BY <1>12 DEF Refused, N
  <2>2. Len(T) = 3 BY <1>4, <2>1
  <2>3. \A i \in 1 .. 2 : T[i] \in Chars
    <3>1. \A i \in 1 .. 2 : i \in 1 .. Len(T) BY <2>2
    <3> QED BY <1>4, <3>1
  <2>4. /\ SubSeq(T, 1, 2) \in Seq(Chars) /\ Len(SubSeq(T, 1, 2)) = 2
        /\ \A i \in 1 .. 2 : SubSeq(T, 1, 2)[i] = T[i]
    <3>1. /\ SubSeq(T, 1, 2) \in Seq(Chars) /\ Len(SubSeq(T, 1, 2)) = IF 1 <= 2 THEN 2 - 1 + 1 ELSE 0
          /\ \A i \in 1 .. 2 - 1 + 1 : SubSeq(T, 1, 2)[i] = T[1 + i - 1]
      BY <2>3, SubSeqProperties
    <3> QED BY <3>1
  <2> DEFINE U == SubSeq(T, 1, 2)
  <2>5. U \in Seq(Chars) /\ Len(U) = 2 /\ \A i \in 1 .. 2 : U[i] = T[i] BY <2>4
  <2> HIDE DEF U
  <2>6. Y = U BY <1>9, <1>10, <1>12, <2>5
  <2>7. SubSeq(T, 1, Len(T) - 1) = U BY <2>2 DEF U
  <2> QED BY <2>6, <2>7 DEF Y, A, T
<1> QED BY <1>3, <1>11, <1>12

LEMMA DeploymentDoes == DeployInv => Deploy!FollowsDeployment
<1> SUFFICES ASSUME DeployInv PROVE Deploy!FollowsDeployment OBVIOUS
<1>1. Deploy!NeverAhead BY DEF Deploy!NeverAhead, DeployInv, NearInv, Near
<1>2. Deploy!StreamHasDialog BY DEF Deploy!StreamHasDialog, DeployInv, ClosedInv
<1>3. Deploy!WaitsForSomething BY DEF DeployInv, NoticeInv
<1> QED BY <1>1, <1>2, <1>3 DEF Deploy!FollowsDeployment

\* However the stream of a deployment is cut into chunks, and however long it is, the
\* lines that were sent are handled whole, once and in order.
THEOREM LinesWhole == Deploy!Spec => []Deploy!LinesInOrder
<1> QED BY DeployInit, DeployStep, LinesDo, PTL DEF Deploy!Spec

\* The dialog follows the deployment: it is never ahead of it, leaves no stream behind,
\* and always has its end to wait for.
THEOREM DeploymentFollowed == Deploy!Spec => []Deploy!FollowsDeployment
<1> QED BY DeployInit, DeployStep, DeploymentDoes, PTL DEF Deploy!Spec
=============================================================================
