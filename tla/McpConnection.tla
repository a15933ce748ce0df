--------------------------- MODULE McpConnection ---------------------------
(***************************************************************************)
(* The console's connection to an MCP server, whose tools a page shows:    *)
(* useConnection, and the effects of IntegrationAIContainer that drive it. *)
(* Connecting awaits the network, so other things happen meanwhile; what   *)
(* disconnect awaits is there at once, so it is one step.                  *)
(***************************************************************************)
EXTENDS Naturals, FiniteSets

CONSTANTS
  Urls,     \* the MCP servers of the pages
  Clients,  \* MCP clients: bound on how many are connecting or open at once
  None

VARIABLES
  url,        \* mcpServerUrl of the page that is open
  status,     \* connectionStatus
  mcpClient,  \* the client the page holds
  conn,       \* each client: whether it is connected, and where to; "orphaned" is one
              \* that is connecting for a page that was left
  listing,    \* clients that have been asked for their tools
  tools,      \* the server whose tools are shown
  failed,     \* history: the last request for tools failed, or was not made
  overlapped  \* history: a page connected, or was left, while it was connecting

vars == <<url, status, mcpClient, conn, listing, tools, failed, overlapped>>

-----------------------------------------------------------------------------
Idle == [at |-> "idle", url |-> None]

Connecting == {c \in Clients : conn[c].at = "connecting"}
Open       == {c \in Clients : conn[c].at = "open"}

\* A client that is closed, and its requests with it.
Closed(c) == [conn EXCEPT ![c] = Idle]

\* disconnect: the client is closed and forgotten.
Disconnected ==
  /\ mcpClient' = None
  /\ status' = "disconnected"
  /\ listing' = listing \ {mcpClient}
  /\ failed' = (failed \/ mcpClient \in listing)

WithoutHeld == IF mcpClient = None THEN conn ELSE Closed(mcpClient)

\* Mutant: a page that is connected does not disconnect before it connects.
Connect_Again(u) ==
  \E c \in Clients :
    /\ conn[c] = Idle
    /\ url' = u
    /\ overlapped' = (overlapped \/ Connecting # {})
    /\ UNCHANGED <<status, mcpClient, listing, failed>>
    /\ conn' = [conn EXCEPT ![c] = [at |-> "connecting", url |-> u]]
    /\ UNCHANGED tools

\* The effect on mcpServerUrl, which comes with the page or another service, or
\* again when the language changes.
Connect(u) ==
  \E c \in Clients :
    /\ conn[c] = Idle
    /\ url' = u
    /\ overlapped' = (overlapped \/ Connecting # {})
    /\ IF status = "connected"
         THEN /\ Disconnected
              /\ conn' = [WithoutHeld EXCEPT ![c] = [at |-> "connecting", url |-> u]]
         ELSE /\ conn' = [conn EXCEPT ![c] = [at |-> "connecting", url |-> u]]
              /\ UNCHANGED <<status, mcpClient, listing, failed>>
    /\ UNCHANGED tools

\* The page's client is replaced, whoever it was.  Its tools are asked for when
\* the status changes.
Connected(c) ==
  /\ conn[c].at = "connecting"
  /\ conn' = [conn EXCEPT ![c].at = "open"]
  /\ mcpClient' = c
  /\ status' = "connected"
  /\ IF status # "connected"
       THEN listing' = listing \cup {c} /\ failed' = FALSE
       ELSE UNCHANGED listing /\ failed' = TRUE
  /\ UNCHANGED <<url, tools, overlapped>>

\* The state that is set is that of a page that is gone.
ConnectedForNobody(c) ==
  /\ conn[c].at = "orphaned"
  /\ conn' = [conn EXCEPT ![c].at = "open"]
  /\ UNCHANGED <<url, status, mcpClient, listing, tools, failed, overlapped>>

\* The server asks for credentials, or fails.  The client held stays.
Fails(c, unauthorized) ==
  /\ conn[c].at \in {"connecting", "orphaned"}
  /\ conn' = Closed(c)
  /\ status' = IF unauthorized \/ conn[c].at = "orphaned" THEN status ELSE "error"
  /\ UNCHANGED <<url, mcpClient, listing, tools, failed, overlapped>>

\* The connection is lost: the page is not told.
Dies(c) ==
  /\ conn[c].at = "open"
  /\ conn' = Closed(c)
  /\ listing' = listing \ {c}
  /\ failed' = (failed \/ c \in listing)
  /\ UNCHANGED <<url, status, mcpClient, tools, overlapped>>

\* tools/list is answered.
Listed(c) ==
  /\ c \in listing
  /\ listing' = listing \ {c}
  /\ tools' = conn[c].url
  /\ UNCHANGED <<url, status, mcpClient, conn, failed, overlapped>>

\* It is not, or too late: the tools shown stay.
TimesOut(c) ==
  /\ c \in listing
  /\ listing' = listing \ {c}
  /\ failed' = TRUE
  /\ UNCHANGED <<url, status, mcpClient, conn, tools, overlapped>>

\* The page is left: what it holds is closed; what is connecting goes on, and
\* nobody will hold it.
Leave ==
  /\ url # None
  /\ url' = None
  /\ status' = "disconnected"
  /\ mcpClient' = None
  /\ conn' = [c \in Clients |-> IF c \in Connecting THEN [conn[c] EXCEPT !.at = "orphaned"]
                               ELSE IF c = mcpClient THEN Idle ELSE conn[c]]
  /\ listing' = {}
  /\ tools' = None
  /\ failed' = FALSE
  /\ overlapped' = (overlapped \/ Connecting # {})

\* The browser tab is loaded anew.
Reload ==
  /\ url' = None /\ status' = "disconnected" /\ mcpClient' = None
  /\ conn' = [c \in Clients |-> Idle]
  /\ listing' = {} /\ tools' = None /\ failed' = FALSE /\ overlapped' = FALSE

-----------------------------------------------------------------------------
Init ==
  /\ url = None /\ status = "disconnected" /\ mcpClient = None
  /\ conn = [c \in Clients |-> Idle]
  /\ listing = {} /\ tools = None /\ failed = FALSE /\ overlapped = FALSE

Next ==
  \/ \E u \in Urls : Connect(u)
  \/ \E c \in Clients : \/ Connected(c) \/ ConnectedForNobody(c) \/ Dies(c) \/ Listed(c) \/ TimesOut(c)
                        \/ \E unauthorized \in BOOLEAN : Fails(c, unauthorized)
  \/ Leave
  \/ Reload

Spec == Init /\ [][Next]_vars

-----------------------------------------------------------------------------
(* Properties.                                                             *)

\* The page's one connection: no client stays connected that the page does not
\* hold, so that none is left behind by connecting again or leaving, and the tools
\* shown under a connected status are those of the page's server.  The code gives
\* no such promise once a page connected, or was left, while it was connecting, nor
\* for tools it did not get.
OneConnection ==
  \/ overlapped
  \/ /\ Open \subseteq {mcpClient}
     /\ status = "connected" /\ listing = {} /\ ~ failed => tools = url
=============================================================================
