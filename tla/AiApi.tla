-------------------------------- MODULE AiApi --------------------------------
(***************************************************************************)
(* The routes of an AI service.  Each is a row of three tables - api and    *)
(* api_info for the router, ai_api_info for its prompt and model - and a    *)
(* path in the service's OpenAPI document (controller/ai-api,               *)
(* module/ai-api).                                                          *)
(*                                                                         *)
(* The controller and the module open transactions and then work with the   *)
(* context outside them, so that every call is a step of its own; the       *)
(* document is read in one and written, as a whole, in another.             *)
(*                                                                         *)
(* Whether a path is taken is asked of table api, which an edit does not    *)
(* change: it has the path a route was created with.                        *)
(***************************************************************************)
EXTENDS Naturals

CONSTANTS
  None,
  Ids,       \* the ids of routes
  Paths,     \* their paths
  Requests   \* requests that can be in progress at once

VARIABLES
  claim,  \* table api: the path a route was created with, None for no row
  route,  \* table api_info: its path, None for no row
  info,   \* table ai_api_info: its path, None for no row
  doc,    \* the paths of the document
  rq,     \* requests in progress
  upset   \* history: requests got in each other's way, one failed half-way, or two routes
          \* were given one path

vars == <<claim, route, info, doc, rq, upset>>

-----------------------------------------------------------------------------
Free == [kind |-> "none", at |-> "none"]

Busy == {r \in Requests : rq[r] # Free}

Put(r, q) == rq' = [rq EXCEPT ![r] = q]
Done(r)   == Put(r, Free)

\* The paths of a route in its tables.
PathsOf(i) == {route[i], info[i]} \ {None}

\* Exist: another route was created with this path.
Taken(i, p) == \E j \in Ids \ {i} : claim[j] = p

\* Requests about one route, or about one path, are in each other's way.
Meets(i, ps) == \E r \in Busy : rq[r].id = i \/ rq[r].paths \cap ps # {}

Start(r, kind, at, i, p) ==
  LET ps == PathsOf(i) \cup ({p} \ {None}) IN
  /\ rq[r] = Free
  /\ Put(r, [kind |-> kind, at |-> at, id |-> i, path |-> p, org |-> None, doc |-> {},
             paths |-> ps])
  /\ upset' = \/ upset
              \/ Meets(i, ps)
              \/ kind # "delete" /\ \E j \in Ids \ {i} : p \in PathsOf(j)

At(r, at) == rq[r] # Free /\ rq[r].at = at

-----------------------------------------------------------------------------
(* A request starts.                                                       *)

\* A route that is added gets an id of its own.
Create(r, i, p) ==
  /\ PathsOf(i) = {} /\ \A s \in Busy : rq[s].id # i
  /\ Start(r, "create", "docRead", i, p)
  /\ UNCHANGED <<claim, route, info, doc>>

\* The router's part comes first, in a transaction of its own.
Edit(r, i, p) ==
  /\ route[i] # None
  /\ ~ Taken(i, p)
  /\ route' = [route EXCEPT ![i] = p]
  /\ Start(r, "edit", "info", i, p)
  /\ UNCHANGED <<claim, info, doc>>

Delete(r, i) ==
  /\ route[i] # None
  /\ route' = [route EXCEPT ![i] = None]
  /\ claim' = [claim EXCEPT ![i] = None]
  /\ Start(r, "delete", "info", i, None)
  /\ UNCHANGED <<info, doc>>

-----------------------------------------------------------------------------
(* The steps after it.                                                     *)

\* An edit or a deletion looks for the path the document has.
ReadInfo(r) ==
  /\ At(r, "info")
  /\ info[rq[r].id] # None
  /\ Put(r, [rq[r] EXCEPT !.org = info[rq[r].id], !.at = "docRead"])
  /\ UNCHANGED <<claim, route, info, doc, upset>>

\* getAPIDoc.  What another request has read and is about to change is lost, or will be.
ReadDoc(r) ==
  /\ At(r, "docRead")
  /\ Put(r, [rq[r] EXCEPT !.doc = doc, !.at = "docWrite"])
  /\ upset' = (upset \/ \E s \in Busy : At(s, "docWrite"))
  /\ UNCHANGED <<claim, route, info, doc>>

\* Mutant: the path a route had stays in the document.
NewDoc_KeepsOld(q) == q.doc \cup ({q.path} \ {None})

\* updateAPIDoc, deleteAPIDoc.
NewDoc(q) == (q.doc \ {q.org}) \cup ({q.path} \ {None})

WriteDoc(r) ==
  /\ At(r, "docWrite")
  /\ doc' = NewDoc(rq[r])
  /\ Put(r, [rq[r] EXCEPT !.at = "save"])
  /\ UNCHANGED <<claim, route, info, upset>>

\* The row of the AI module is added, changed or removed.  A request to add a route has its
\* router still before it.
Save(r) ==
  LET q == rq[r] IN
  /\ At(r, "save")
  /\ q.kind = "create" \/ info[q.id] # None
  /\ info' = [info EXCEPT ![q.id] = q.path]
  /\ IF q.kind = "create" THEN Put(r, [q EXCEPT !.at = "router"]) ELSE Done(r)
  /\ UNCHANGED <<claim, route, doc, upset>>

CreateRouter(r) ==
  LET q == rq[r] IN
  /\ At(r, "router")
  /\ ~ Taken(q.id, q.path)
  /\ claim' = [claim EXCEPT ![q.id] = q.path]
  /\ route' = [route EXCEPT ![q.id] = q.path]
  /\ Done(r)
  /\ UNCHANGED <<info, doc, upset>>

\* A statement fails, the router refuses a path that is taken, a row is gone, or the process
\* stops: what has been written stays.
Fail(r) ==
  /\ rq[r] # Free
  /\ Done(r)
  /\ upset' = (upset \/ rq[r].kind # "create" \/ rq[r].at \in {"save", "router"})
  /\ UNCHANGED <<claim, route, info, doc>>

-----------------------------------------------------------------------------
Init ==
  /\ claim = [i \in Ids |-> None]
  /\ route = [i \in Ids |-> None]
  /\ info = [i \in Ids |-> None]
  /\ doc = {}
  /\ rq = [r \in Requests |-> Free]
  /\ upset = FALSE

Serve(r) ==
  \/ \E i \in Ids : (\E p \in Paths : Create(r, i, p) \/ Edit(r, i, p)) \/ Delete(r, i)
  \/ ReadInfo(r) \/ ReadDoc(r) \/ WriteDoc(r) \/ Save(r) \/ CreateRouter(r) \/ Fail(r)

\* Bound: nothing is said of what comes after an upset.
Over == upset /\ UNCHANGED vars

Next ==
  \/ ~ upset /\ \E r \in Requests : Serve(r)
  \/ Over

Spec == Init /\ [][Next]_vars

-----------------------------------------------------------------------------
InWork      == {rq[r].id : r \in Busy}
PathsInWork == UNION {rq[r].paths : r \in Busy}

\* What is published as the document of an AI service, and offered as the tools of its MCP
\* server, are its routes: as long as no two requests about one route or path overlap, none
\* reads the document between another's reading and writing it, none fails half-way and no
\* path is given twice, a route no request is at work on has one path in its two tables, and
\* the document has the paths of these routes and no others, whatever requests about other
\* routes are in progress.
DocMatches ==
  ~ upset =>
    /\ \A i \in Ids \ InWork : route[i] = info[i]
    /\ doc \ PathsInWork = {route[i] : i \in Ids \ InWork} \ {None}
=============================================================================
