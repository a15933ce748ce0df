----------------------------- MODULE TeamAccess -----------------------------
(***************************************************************************)
(* What the console lets its user do in a team's pages: the access data of *)
(* GlobalStateContext, and the pages that load and clean the rights in the *)
(* team they are about.  Rights stand for whose they are, and in what team. *)
(* A page's buttons ask at every render; its menu is remembered until the  *)
(* map of rights is another one, and cleaning does not make it another.    *)
(***************************************************************************)
EXTENDS Naturals, FiniteSets

CONSTANTS
  Users,
  Teams,
  Requests,  \* requests for rights that can be in progress at once
  None

VARIABLES
  user,     \* whose session it is
  page,     \* the team whose page is open
  system,   \* whose rights in the system are known
  team,     \* whose rights in which team are known
  flushed,  \* teamDataFlushed
  menu,     \* the rights the page's menu was computed with
  rq,       \* requests in progress
  strayed,  \* history: the kinds of rights of which another user's answer, or one for
            \* another page, came since they were last cleaned or loaded
  carried   \* history: the page was entered from another team's, or after an answer
            \* that strayed, and its own has not come

vars == <<user, page, system, team, flushed, menu, rq, strayed, carried>>

-----------------------------------------------------------------------------
NoRights == [user |-> None, team |-> None]
NoMenu   == [system |-> None, team |-> NoRights]
Idle     == [kind |-> "idle", user |-> None, team |-> None]

\* getTeamAccessData, getGlobalAccessData: the rights are those of whoever asks.
Ask(kind, u, t) ==
  \E r \in Requests : /\ rq[r] = Idle
                      /\ rq' = [rq EXCEPT ![r] = [kind |-> kind, user |-> u, team |-> t]]

\* Mutant: leaving a page leaves its rights.
Clean_Keeps == UNCHANGED <<team, flushed, strayed>>

\* cleanTeamAccessData: the map stays the one it is, so that no menu notices.
Clean ==
  /\ team' = NoRights
  /\ flushed' = FALSE
  /\ strayed' = strayed \ {"team"}

\* A map that is another one: the menu of the page is computed again.
Renew(s, t) ==
  /\ system' = s
  /\ team' = t
  /\ menu' = IF page = None THEN NoMenu ELSE [system |-> s, team |-> t]

-----------------------------------------------------------------------------
\* BasicLayout is mounted with the session.
Login(u) ==
  /\ user = None
  /\ user' = u
  /\ Ask("system", u, None)
  /\ UNCHANGED <<page, system, team, flushed, menu, strayed, carried>>

\* From page to page: the new one is rendered with the rights there are, then the
\* old one cleans them, then the new one asks for its own.
Go(t) ==
  /\ user # None
  /\ t # page
  /\ page' = t
  /\ menu' = IF t = None THEN NoMenu ELSE [system |-> system, team |-> team]
  /\ carried' = (t # None /\ (page # None \/ "team" \in strayed))
  /\ IF page = None THEN UNCHANGED <<team, flushed, strayed>> ELSE Clean
  /\ IF t = None THEN UNCHANGED rq ELSE Ask("team", user, t)
  /\ UNCHANGED <<user, system>>

\* An answer arrives, whatever page is open.
Answer(r) ==
  LET q == rq[r]
      mine == q.user = user /\ (q.kind = "system" \/ q.team = page)
  IN /\ q # Idle
     /\ rq' = [rq EXCEPT ![r] = Idle]
     /\ IF q.kind = "system"
          THEN /\ Renew(q.user, team)
               /\ UNCHANGED flushed
          ELSE /\ Renew(system, [user |-> q.user, team |-> q.team])
               /\ flushed' = TRUE
     /\ strayed' = IF mine THEN strayed \ {q.kind} ELSE strayed \cup {q.kind}
     /\ carried' = FALSE
     /\ UNCHANGED <<user, page>>

\* It is an error: the rights there are stay.
Fails(r) ==
  /\ rq[r] # Idle
  /\ rq' = [rq EXCEPT ![r] = Idle]
  /\ UNCHANGED <<user, page, system, team, flushed, menu, strayed, carried>>

\* resetAccess, which leaves teamDataFlushed as it is, then the page is left; what
\* was asked for goes on.
Logout ==
  /\ user # None
  /\ user' = None
  /\ page' = None
  /\ system' = None
  /\ menu' = NoMenu
  /\ team' = NoRights
  /\ flushed' = IF page = None THEN flushed ELSE FALSE
  /\ strayed' = IF page = None THEN strayed \ {"system"} ELSE {}
  /\ carried' = FALSE
  /\ UNCHANGED rq

\* The browser tab is loaded anew, in the session there is.
Reload ==
  /\ user # None
  /\ page' = None /\ system' = None /\ team' = NoRights /\ flushed' = FALSE /\ menu' = NoMenu
  /\ rq' = [r \in Requests |-> Idle]
  /\ strayed' = {} /\ carried' = FALSE
  /\ UNCHANGED user

Init ==
  /\ user = None /\ page = None
  /\ system = None /\ team = NoRights /\ flushed = FALSE /\ menu = NoMenu
  /\ rq = [r \in Requests |-> Idle]
  /\ strayed = {} /\ carried = FALSE

Next ==
  \/ \E u \in Users : Login(u)
  \/ \E t \in Teams \cup {None} : Go(t)
  \/ \E r \in Requests : Answer(r) \/ Fails(r)
  \/ Logout
  \/ Reload

Spec == Init /\ [][Next]_vars

-----------------------------------------------------------------------------
(* Properties.                                                             *)

Own == {NoRights, [user |-> user, team |-> page]}

\* What a team's page offers is what its user may do in that team, whatever pages
\* were open before and whatever of their requests is still on its way.  Excepted
\* is what the code gets wrong: an answer changes the rights of whatever page is
\* open when it comes, and a menu rendered before the rights of the page before
\* were cleaned keeps them until it is computed again.
OwnRights ==
  /\ "system" \notin strayed => system \in {None, user}
  /\ page # None /\ "team" \notin strayed =>
       /\ team \in Own
       /\ carried \/ menu.team \in Own
       /\ flushed => team = [user |-> user, team |-> page]
=============================================================================
