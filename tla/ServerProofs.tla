----------------------------- MODULE ServerProofs -----------------------------
(* Proofs about the modules that MCServer composes, for all values of      *)
(* their constants.                                                        *)
EXTENDS MCServer, FiniteSetTheorems, SequenceTheorems, WellFoundedInduction, TLAPS

-----------------------------------------------------------------------------
(* A behaviour of MCServer is one of the module it is of.                  *)

LEMMA PartInit ==
  ASSUME Init
  PROVE  /\ part = "publish" => Publishing!Init
         /\ part = "mask" => Masking!Init
         /\ part = "plant" => Planting!Init
         /\ part = "balance" => Balancing!Init
         /\ part = "route" => Routing!Init
         /\ part = "count" => Counting!Init
BY DEF Init

LEMMA PartNext ==
  ASSUME [Next]_<<part, vars>>
  PROVE  /\ part' = part
         /\ part = "publish" => [Publishing!NextReliable]_(Publishing!vars)
         /\ part = "mask" => [Masking!Next]_(Masking!vars)
         /\ part = "plant" => [Planting!Next]_(Planting!catVars)
         /\ part = "balance" => [Balancing!Next]_(Balancing!vars)
         /\ part = "route" => [Routing!Next]_(Routing!vars)
         /\ part = "count" => [Counting!Next]_(Counting!vars)
<1>1. CASE Next BY <1>1 DEF Next
<1>2. CASE UNCHANGED <<part, vars>>
  <2>1. UNCHANGED <<part, gateway, latest, rq, rows, used, astray>> BY <1>2 DEF vars
  <2>2. UNCHANGED publishing /\ UNCHANGED masking /\ UNCHANGED balancing BY <1>2 DEF vars
  <2>3. UNCHANGED routing /\ UNCHANGED counting BY <1>2 DEF vars
  <2>4. UNCHANGED Publishing!vars BY <2>1, <2>2 DEF publishing, Publishing!vars, Publishing!store
  <2>5. UNCHANGED Masking!vars BY <2>1, <2>2 DEF masking, Masking!vars
  <2>6. UNCHANGED Planting!catVars BY <2>1 DEF Planting!catVars
  <2>7. UNCHANGED Balancing!vars BY <2>1, <2>2 DEF balancing, Balancing!vars
  <2>8. UNCHANGED Routing!vars BY <2>1, <2>3 DEF routing, Routing!vars
  <2>9. UNCHANGED Counting!vars BY <2>1, <2>3 DEF counting, Counting!vars
  <2> QED BY <2>1, <2>4, <2>5, <2>6, <2>7, <2>8, <2>9
<1> QED BY <1>1, <1>2

-----------------------------------------------------------------------------
(* The routes of AI services.                                              *)

RouteSteps == {"info", "docRead", "docWrite", "save", "router"}

RouteWork == [kind : {"create", "edit", "delete"}, at : RouteSteps, id : Ids,
              path : Paths \cup {None}, org : Paths \cup {None}, doc : SUBSET Paths,
              paths : SUBSET Paths]

RouteTypes ==
  /\ route \in [Ids -> Paths \cup {None}]
  /\ info \in [Ids -> Paths \cup {None}]
  /\ doc \in SUBSET Paths
  /\ rq \in [Pair -> {Routing!Free} \cup RouteWork]
  /\ upset \in BOOLEAN

\* A request has to itself its route and the paths it is about, which are all that its route
\* has in the tables.
RoutesApart ==
  /\ \A r \in Routing!Busy :
       /\ Routing!PathsOf(rq[r].id) \cup ({rq[r].path} \ {None}) \subseteq rq[r].paths
       /\ \A j \in Ids \ {rq[r].id} : rq[r].paths \cap Routing!PathsOf(j) = {}
  /\ \A r, s \in Routing!Busy : r # s => rq[r].id # rq[s].id /\ rq[r].paths \cap rq[s].paths = {}
  /\ \A i, j \in Ids : i # j => Routing!PathsOf(i) \cap Routing!PathsOf(j) = {}

\* How far a request is: the path of its route the document has, that it knows, and that the
\* tables have.
InDoc(q) == IF q.at \in {"save", "router"} THEN q.path ELSE info[q.id]

RouteUnderWay(q) ==
  /\ doc \cap q.paths = {InDoc(q)} \ {None}
  /\ q.at \in {"docRead", "docWrite"} => q.org = info[q.id]
  /\ q.at = "docWrite" => q.doc = doc
  /\ q.kind = "create" => /\ route[q.id] = None
                          /\ info[q.id] = IF q.at = "router" THEN q.path ELSE None
  /\ q.kind # "create" => route[q.id] = q.path /\ q.at # "router"

OneWriter == \A r, s \in Pair : Routing!At(r, "docWrite") /\ Routing!At(s, "docWrite") => r = s

\* The routes nothing is at work on.
RoutesAtRest ==
  /\ \A i \in Ids \ Routing!InWork : route[i] = info[i] /\ (route[i] # None => route[i] \in doc)
  /\ \A d \in doc : d \in Routing!PathsInWork \/ \E i \in Ids \ Routing!InWork : route[i] = d

RouteInv ==
  /\ RouteTypes
  /\ ~ upset => /\ RoutesApart
                /\ \A r \in Routing!Busy : RouteUnderWay(rq[r])
                /\ OneWriter
                /\ RoutesAtRest

LEMMA RouteFree ==
  /\ \A r \in Pair : r \in Routing!Busy <=> rq[r] # Routing!Free
  /\ RouteTypes => \A r \in Routing!Busy : rq[r] \in RouteWork
BY DEF Routing!Busy, RouteTypes

\* A request that is busy goes on, within its own route and paths.
LEMMA RouteOnward ==
  ASSUME RouteInv, ~ upset, RouteTypes', NEW r \in Routing!Busy, NEW q \in RouteWork,
         q # Routing!Free,
         rq' = [rq EXCEPT ![r] = q],
         q.kind = rq[r].kind, q.id = rq[r].id, q.path = rq[r].path, q.paths = rq[r].paths,
         \A j \in Ids \ {q.id} : route'[j] = route[j] /\ info'[j] = info[j],
         Routing!PathsOf(q.id)' \subseteq q.paths,
         doc' \ q.paths = doc \ q.paths,
         doc' # doc => Routing!At(r, "docWrite"),
         RouteUnderWay(q)',
         q.at = "docWrite" => \A s \in Pair \ {r} : ~ Routing!At(s, "docWrite")
  PROVE  RouteInv'
<1>1. /\ RoutesApart /\ OneWriter /\ RoutesAtRest
      /\ \A s \in Routing!Busy : RouteUnderWay(rq[s])
  BY DEF RouteInv
<1>2. /\ r \in Pair
      /\ \A s \in Pair : rq'[s] = IF s = r THEN q ELSE rq[s]
      /\ Routing!Busy' = Routing!Busy
      /\ \A s \in Routing!Busy : s \in Pair /\ rq[s] \in RouteWork
  BY DEF RouteInv, RouteTypes, Routing!Busy
<1>3. \A j \in Ids \ {q.id} : Routing!PathsOf(j)' = Routing!PathsOf(j)
  BY DEF Routing!PathsOf
<1>4. Routing!InWork' = Routing!InWork /\ Routing!PathsInWork' = Routing!PathsInWork
  BY <1>2 DEF Routing!InWork, Routing!PathsInWork
<1>5. q.id \in Ids BY DEF RouteWork
<1>6. RoutesApart'
  <2>1. ASSUME NEW s \in Routing!Busy
        PROVE  /\ Routing!PathsOf(rq[s].id)' \cup ({rq'[s].path} \ {None}) \subseteq rq'[s].paths
               /\ \A j \in Ids \ {rq'[s].id} : rq'[s].paths \cap Routing!PathsOf(j)' = {}
    <3>1. CASE s = r
      <4>1. rq'[s] = q /\ \A j \in Ids \ {q.id} : q.paths \cap Routing!PathsOf(j) = {}
        BY <1>1, <1>2, <3>1 DEF RoutesApart
      <4>2. {q.path} \ {None} \subseteq q.paths BY <1>1 DEF RoutesApart
      <4> QED BY <1>3, <4>1, <4>2 DEF Routing!PathsOf
    <3>2. CASE s # r
      <4>1. rq'[s] = rq[s] /\ rq[s].id # q.id /\ rq[s].paths \cap q.paths = {}
        BY <1>1, <1>2, <3>2 DEF RoutesApart
      <4>2. rq[s].id \in Ids BY <1>2 DEF RouteWork
      <4>3. /\ Routing!PathsOf(rq[s].id) \cup ({rq[s].path} \ {None}) \subseteq rq[s].paths
            /\ \A j \in Ids \ {rq[s].id} : rq[s].paths \cap Routing!PathsOf(j) = {}
        BY <1>1 DEF RoutesApart
      <4>4. rq[s].paths \cap Routing!PathsOf(q.id)' = {} BY <4>1
      <4>5. Routing!PathsOf(rq[s].id)' = Routing!PathsOf(rq[s].id)
        BY <1>3, <4>1, <4>2 DEF Routing!PathsOf
      <4> QED BY <1>3, <4>1, <4>3, <4>4, <4>5
    <3> QED BY <3>1, <3>2
  <2>2. ASSUME NEW s \in Routing!Busy, NEW t \in Routing!Busy, s # t
        PROVE  rq'[s].id # rq'[t].id /\ rq'[s].paths \cap rq'[t].paths = {}
    BY <1>1, <1>2, <2>2 DEF RoutesApart
  <2>3. ASSUME NEW i \in Ids, NEW j \in Ids, i # j
        PROVE  (Routing!PathsOf(i) \cap Routing!PathsOf(j))' = {}
    <3>1. \A k \in Ids \ {q.id} : Routing!PathsOf(k) \cap q.paths = {}
      BY <1>1 DEF RoutesApart
    <3>2. CASE i = q.id BY <1>3, <2>3, <3>1, <3>2
    <3>3. CASE j = q.id BY <1>3, <2>3, <3>1, <3>3
    <3>4. CASE i # q.id /\ j # q.id BY <1>1, <1>3, <2>3, <3>4 DEF RoutesApart
    <3> QED BY <3>2, <3>3, <3>4
  <2> QED BY <1>2, <2>1, <2>2, <2>3 DEF RoutesApart
<1>7. \A s \in Routing!Busy' : RouteUnderWay(rq[s])'
  <2> SUFFICES ASSUME NEW s \in Routing!Busy, s # r PROVE RouteUnderWay(rq[s])'
    BY <1>2
  <2>1. rq'[s] = rq[s] /\ rq[s].id # q.id /\ rq[s].paths \cap q.paths = {}
    BY <1>1, <1>2 DEF RoutesApart
  <2>2. rq[s].id \in Ids /\ RouteUnderWay(rq[s]) BY <1>1, <1>2 DEF RouteWork
  <2>3. route'[rq[s].id] = route[rq[s].id] /\ info'[rq[s].id] = info[rq[s].id]
    BY <2>1, <2>2
  <2>4. doc' \cap rq[s].paths = doc \cap rq[s].paths BY <2>1
  <2>5. rq[s].at = "docWrite" => doc' = doc
    BY <1>1, <1>2 DEF OneWriter, Routing!At, Routing!Busy
  <2> QED BY <2>1, <2>2, <2>3, <2>4, <2>5 DEF RouteUnderWay, InDoc
<1>8. OneWriter' BY <1>1, <1>2 DEF OneWriter, Routing!At
<1>9. RoutesAtRest'
  <2>1. q.id \in Routing!InWork /\ q.paths \subseteq Routing!PathsInWork
    BY DEF Routing!InWork, Routing!PathsInWork
  <2>2. ASSUME NEW i \in Ids \ Routing!InWork
        PROVE  route'[i] = info'[i] /\ (route'[i] # None => route'[i] \in doc')
    <3>1. route'[i] = route[i] /\ info'[i] = info[i] /\ i # q.id BY <2>1, <2>2
    <3>2. route[i] # None => route[i] \notin q.paths
      BY <1>1, <3>1 DEF RoutesApart, Routing!PathsOf
    <3> QED BY <1>1, <3>1, <3>2 DEF RoutesAtRest
  <2>3. ASSUME NEW d \in doc', d \notin Routing!PathsInWork
        PROVE  \E i \in Ids \ Routing!InWork : route'[i] = d
    BY <1>1, <2>1, <2>3 DEF RoutesAtRest
  <2> QED BY <1>4, <2>2, <2>3 DEF RoutesAtRest
<1> QED BY <1>6, <1>7, <1>8, <1>9 DEF RouteInv

\* A request that is busy ends, and leaves its route at rest.
LEMMA RouteEnds ==
  ASSUME RouteInv, ~ upset, RouteTypes', NEW r \in Routing!Busy, NEW q, q = rq[r],
         rq' = [rq EXCEPT ![r] = Routing!Free],
         \A j \in Ids \ {q.id} : route'[j] = route[j] /\ info'[j] = info[j],
         doc' = doc,
         route'[q.id] = info'[q.id],
         doc \cap q.paths = {route'[q.id]} \ {None},
         route'[q.id] \in q.paths \cup {None}
  PROVE  RouteInv'
<1>1. /\ RoutesApart /\ OneWriter /\ RoutesAtRest
      /\ \A s \in Routing!Busy : RouteUnderWay(rq[s])
  BY DEF RouteInv
<1>2. /\ r \in Pair
      /\ \A s \in Pair : rq'[s] = IF s = r THEN Routing!Free ELSE rq[s]
      /\ Routing!Busy' = Routing!Busy \ {r}
      /\ \A s \in Routing!Busy : s \in Pair /\ rq[s] \in RouteWork
  BY DEF RouteInv, RouteTypes, Routing!Busy
<1>3. \A j \in Ids \ {q.id} : Routing!PathsOf(j)' = Routing!PathsOf(j)
  BY DEF Routing!PathsOf
<1>4. q.id \in Ids /\ (Routing!PathsOf(q.id) \cup ({q.path} \ {None})) \subseteq q.paths
  BY <1>1, <1>2 DEF RouteWork, RoutesApart
<1>5. \A s \in Routing!Busy' :
        /\ rq'[s] = rq[s] /\ s \in Routing!Busy /\ s # r /\ rq[s].id \in Ids /\ rq[s].id # q.id
        /\ rq[s].paths \cap q.paths = {}
  BY <1>1, <1>2 DEF RoutesApart, RouteWork
<1>6. {route'[q.id], info'[q.id]} \ {None} \subseteq q.paths
  OBVIOUS
<1>7. RoutesApart'
  <2>1. ASSUME NEW s \in Routing!Busy'
        PROVE  (/\ Routing!PathsOf(rq[s].id) \cup ({rq[s].path} \ {None}) \subseteq rq[s].paths
                /\ \A j \in Ids \ {rq[s].id} : rq[s].paths \cap Routing!PathsOf(j) = {})'
    <3>1. /\ Routing!PathsOf(rq[s].id) \cup ({rq[s].path} \ {None}) \subseteq rq[s].paths
          /\ \A j \in Ids \ {rq[s].id} : rq[s].paths \cap Routing!PathsOf(j) = {}
      BY <1>1, <1>5 DEF RoutesApart
    <3>2. rq[s].paths \cap Routing!PathsOf(q.id)' = {} BY <1>5, <1>6 DEF Routing!PathsOf
    <3>3. Routing!PathsOf(rq[s].id)' = Routing!PathsOf(rq[s].id)
      BY <1>5 DEF Routing!PathsOf
    <3> QED BY <1>3, <1>5, <3>1, <3>2, <3>3
  <2>2. ASSUME NEW s \in Routing!Busy', NEW t \in Routing!Busy', s # t
        PROVE  rq'[s].id # rq'[t].id /\ rq'[s].paths \cap rq'[t].paths = {}
    BY <1>1, <1>5, <2>2 DEF RoutesApart
  <2>3. ASSUME NEW i \in Ids, NEW j \in Ids, i # j
        PROVE  (Routing!PathsOf(i) \cap Routing!PathsOf(j))' = {}
    <3>1. \A k \in Ids \ {q.id} : Routing!PathsOf(k) \cap q.paths = {}
      BY <1>1 DEF RoutesApart
    <3>2. Routing!PathsOf(q.id)' \subseteq q.paths BY <1>6 DEF Routing!PathsOf
    <3>3. CASE i = q.id BY <1>3, <2>3, <3>1, <3>2, <3>3
    <3>4. CASE j = q.id BY <1>3, <2>3, <3>1, <3>2, <3>4
    <3>5. CASE i # q.id /\ j # q.id BY <1>1, <1>3, <2>3, <3>5 DEF RoutesApart
    <3> QED BY <3>3, <3>4, <3>5
  <2> QED BY <2>1, <2>2, <2>3 DEF RoutesApart
<1>8. \A s \in Routing!Busy' : RouteUnderWay(rq[s])'
  <2> SUFFICES ASSUME NEW s \in Routing!Busy' PROVE RouteUnderWay(rq[s])'
    OBVIOUS
  <2>1. RouteUnderWay(rq[s]) BY <1>1, <1>5
  <2> QED BY <1>5, <2>1 DEF RouteUnderWay, InDoc
<1>9. OneWriter' BY <1>1, <1>2 DEF OneWriter, Routing!At
<1>10. RoutesAtRest'
  <2>1. /\ Routing!InWork' = Routing!InWork \ {q.id}
        /\ Routing!PathsInWork' = Routing!PathsInWork \ q.paths
    BY <1>2, <1>5 DEF Routing!InWork, Routing!PathsInWork
  <2>2. ASSUME NEW i \in Ids \ Routing!InWork'
        PROVE  route'[i] = info'[i] /\ (route'[i] # None => route'[i] \in doc')
    <3>1. CASE i = q.id BY <3>1
    <3>2. CASE i # q.id BY <1>1, <2>1, <2>2, <3>2 DEF RoutesAtRest
    <3> QED BY <3>1, <3>2
  <2>3. ASSUME NEW d \in doc', d \notin Routing!PathsInWork'
        PROVE  \E i \in Ids \ Routing!InWork' : route'[i] = d
    <3>1. CASE d \in q.paths BY <1>4, <2>1, <3>1
    <3>2. CASE d \notin q.paths
      <4>1. PICK i \in Ids \ Routing!InWork : route[i] = d
        BY <1>1, <2>1, <2>3, <3>2 DEF RoutesAtRest
      <4>2. i # q.id BY DEF Routing!InWork
      <4> QED BY <2>1, <4>1, <4>2
    <3> QED BY <3>1, <3>2
  <2> QED BY <2>2, <2>3 DEF RoutesAtRest
<1> QED BY <1>7, <1>8, <1>9, <1>10 DEF RouteInv

\* A request starts, about a route and paths that are nobody else's.
LEMMA RouteStarts ==
  ASSUME RouteInv, ~ upset, RouteTypes', None \notin Paths,
         NEW r \in Pair, rq[r] = Routing!Free, NEW q \in RouteWork, q # Routing!Free,
         rq' = [rq EXCEPT ![r] = q],
         q.paths = Routing!PathsOf(q.id) \cup ({q.path} \ {None}),
         ~ Routing!Meets(q.id, q.paths),
         \A j \in Ids \ {q.id} : q.path \notin Routing!PathsOf(j) /\ route'[j] = route[j],
         info' = info, doc' = doc,
         route'[q.id] \in {route[q.id], q.path},
         q.at = "info" \/ (q.at = "docRead" /\ q.org = info[q.id]),
         q.kind = "create" => route'[q.id] = None /\ info[q.id] = None,
         q.kind # "create" => route'[q.id] = q.path
  PROVE  RouteInv'
<1>1. /\ RoutesApart /\ OneWriter /\ RoutesAtRest
      /\ \A s \in Routing!Busy : RouteUnderWay(rq[s])
  BY DEF RouteInv
<1>2. /\ \A s \in Pair : rq'[s] = IF s = r THEN q ELSE rq[s]
      /\ Routing!Busy' = Routing!Busy \cup {r}
      /\ r \notin Routing!Busy
      /\ \A s \in Routing!Busy : s \in Pair /\ rq[s] \in RouteWork
  BY DEF RouteInv, RouteTypes, Routing!Busy
<1>3. q.id \in Ids /\ \A s \in Routing!Busy : rq[s].id \in Ids BY <1>2 DEF RouteWork
<1>4. \A s \in Routing!Busy :
        rq'[s] = rq[s] /\ rq[s].id # q.id /\ rq[s].paths \cap q.paths = {}
  BY <1>2 DEF Routing!Meets
<1>5. \A j \in Ids \ {q.id} : /\ Routing!PathsOf(j)' = Routing!PathsOf(j)
                             /\ q.paths \cap Routing!PathsOf(j) = {}
  BY <1>1, <1>3 DEF Routing!PathsOf, RoutesApart
<1>6. Routing!PathsOf(q.id)' \subseteq q.paths BY DEF Routing!PathsOf
<1>7. RoutesApart'
  <2>1. ASSUME NEW s \in Routing!Busy'
        PROVE  (/\ Routing!PathsOf(rq[s].id) \cup ({rq[s].path} \ {None}) \subseteq rq[s].paths
                /\ \A j \in Ids \ {rq[s].id} : rq[s].paths \cap Routing!PathsOf(j) = {})'
    <3>1. CASE s = r
      <4>1. rq'[s] = q BY <1>2, <3>1
      <4>2. Routing!PathsOf(rq[s].id)' \subseteq q.paths BY <1>6, <4>1 DEF Routing!PathsOf
      <4> QED BY <1>5, <4>1, <4>2
    <3>2. CASE s \in Routing!Busy
      <4>1. /\ Routing!PathsOf(rq[s].id) \cup ({rq[s].path} \ {None}) \subseteq rq[s].paths
            /\ \A j \in Ids \ {rq[s].id} : rq[s].paths \cap Routing!PathsOf(j) = {}
        BY <1>1, <3>2 DEF RoutesApart
      <4>2. rq[s].paths \cap Routing!PathsOf(q.id)' = {} BY <1>4, <1>6, <3>2
      <4>3. Routing!PathsOf(rq[s].id)' = Routing!PathsOf(rq[s].id)
        BY <1>3, <1>4, <3>2 DEF Routing!PathsOf
      <4> QED BY <1>4, <1>5, <3>2, <4>1, <4>2, <4>3
    <3> QED BY <1>2, <3>1, <3>2
  <2>2. ASSUME NEW s \in Routing!Busy', NEW t \in Routing!Busy', s # t
        PROVE  rq'[s].id # rq'[t].id /\ rq'[s].paths \cap rq'[t].paths = {}
    BY <1>1, <1>2, <1>4, <2>2 DEF RoutesApart
  <2>3. ASSUME NEW i \in Ids, NEW j \in Ids, i # j
        PROVE  (Routing!PathsOf(i) \cap Routing!PathsOf(j))' = {}
    <3>1. CASE i = q.id BY <1>5, <1>6, <2>3, <3>1
    <3>2. CASE j = q.id BY <1>5, <1>6, <2>3, <3>2
    <3>3. CASE i # q.id /\ j # q.id BY <1>1, <1>5, <2>3, <3>3 DEF RoutesApart
    <3> QED BY <3>1, <3>2, <3>3
  <2> QED BY <2>1, <2>2, <2>3 DEF RoutesApart
<1>8. q.id \notin Routing!InWork /\ q.paths \cap Routing!PathsInWork = {}
  BY <1>4 DEF Routing!InWork, Routing!PathsInWork
<1>9. doc \cap q.paths = {info[q.id]} \ {None}
  <2>1. info[q.id] \in q.paths \cup {None} BY DEF Routing!PathsOf
  <2>2. info[q.id] # None => info[q.id] \in doc BY <1>1, <1>3, <1>8 DEF RoutesAtRest
  <2>3. ASSUME NEW d \in doc \cap q.paths PROVE d = info[q.id] /\ d # None
    <3>1. d \in Paths BY DEF RouteWork
    <3>2. PICK i \in Ids \ Routing!InWork : route[i] = d
      BY <1>1, <1>8 DEF RoutesAtRest
    <3>3. d \in Routing!PathsOf(i) BY <3>1, <3>2 DEF Routing!PathsOf
    <3>4. i = q.id BY <1>5, <3>3
    <3> QED BY <1>1, <3>1, <3>2, <3>4 DEF RoutesAtRest
  <2> QED BY <2>1, <2>2, <2>3
<1>10. \A s \in Routing!Busy' : RouteUnderWay(rq[s])'
  <2>1. RouteUnderWay(rq[r])' BY <1>2, <1>9 DEF RouteUnderWay, InDoc
  <2>2. ASSUME NEW s \in Routing!Busy PROVE RouteUnderWay(rq[s])'
    <3>1. RouteUnderWay(rq[s]) /\ rq'[s] = rq[s] /\ rq[s].id \in Ids \ {q.id}
      BY <1>1, <1>3, <1>4
    <3> QED BY <3>1 DEF RouteUnderWay, InDoc
  <2> QED BY <1>2, <2>1, <2>2
<1>11. OneWriter' BY <1>1, <1>2 DEF OneWriter, Routing!At
<1>12. RoutesAtRest'
  <2>1. /\ Routing!InWork' = Routing!InWork \cup {q.id}
        /\ Routing!PathsInWork' = Routing!PathsInWork \cup q.paths
    BY <1>2, <1>4 DEF Routing!InWork, Routing!PathsInWork
  <2>2. ASSUME NEW i \in Ids \ Routing!InWork'
        PROVE  route'[i] = info'[i] /\ (route'[i] # None => route'[i] \in doc')
    BY <1>1, <2>1, <2>2 DEF RoutesAtRest
  <2>3. ASSUME NEW d \in doc', d \notin Routing!PathsInWork'
        PROVE  \E i \in Ids \ Routing!InWork' : route'[i] = d
    <3>1. PICK i \in Ids \ Routing!InWork : route[i] = d
      BY <1>1, <2>1, <2>3 DEF RoutesAtRest
    <3>2. d \in Paths BY DEF RouteInv, RouteTypes
    <3>3. i # q.id BY <2>1, <2>3, <3>1, <3>2 DEF Routing!PathsOf
    <3> QED BY <2>1, <3>1, <3>3
  <2> QED BY <2>2, <2>3 DEF RoutesAtRest
<1> QED BY <1>7, <1>10, <1>11, <1>12 DEF RouteInv

LEMMA RouteNotFree ==
  ASSUME NEW q \in RouteWork PROVE q # Routing!Free
<1>1. q.kind # "none" BY DEF RouteWork
<1> QED BY <1>1 DEF Routing!Free

LEMMA RouteStart ==
  ASSUME RouteInv, ~ upset, None \notin Paths, NEW r \in Pair, NEW i \in Ids,
         \/ \E p \in Paths : Routing!Create(r, i, p) \/ Routing!Edit(r, i, p)
         \/ Routing!Delete(r, i)
  PROVE  RouteInv'
<1>1. PICK kind \in {"create", "edit", "delete"}, at \in {"docRead", "info"},
           p \in Paths \cup {None} :
        /\ Routing!Start(r, kind, at, i, p)
        /\ \/ /\ kind = "create" /\ at = "docRead" /\ p # None
              /\ Routing!PathsOf(i) = {} /\ route' = route
           \/ /\ kind = "edit" /\ at = "info" /\ p # None /\ route[i] # None
              /\ route' = [route EXCEPT ![i] = p]
           \/ /\ kind = "delete" /\ at = "info" /\ p = None /\ route[i] # None
              /\ route' = [route EXCEPT ![i] = p]
        /\ UNCHANGED <<info, doc>>
  BY DEF Routing!Create, Routing!Edit, Routing!Delete
<1> DEFINE ps == Routing!PathsOf(i) \cup ({p} \ {None})
           q  == [kind |-> kind, at |-> at, id |-> i, path |-> p, org |-> None, doc |-> {},
                  paths |-> ps]
<1>2. /\ rq[r] = Routing!Free
      /\ rq' = [rq EXCEPT ![r] = q]
      /\ upset' = (upset \/ Routing!Meets(i, ps)
                          \/ (kind # "delete" /\ \E j \in Ids \ {i} : p \in Routing!PathsOf(j)))
  BY <1>1 DEF Routing!Start, Routing!Put
<1>3. ps \subseteq Paths BY DEF RouteInv, RouteTypes, Routing!PathsOf
<1>4. q \in RouteWork BY <1>3 DEF RouteWork, RouteSteps
<1>5. RouteTypes'
  <2>1. rq' \in [Pair -> {Routing!Free} \cup RouteWork]
    BY <1>2, <1>4 DEF RouteInv, RouteTypes
  <2>2. upset' \in BOOLEAN BY <1>2
  <2>3. route' \in [Ids -> Paths \cup {None}] BY <1>1 DEF RouteInv, RouteTypes
  <2> QED BY <1>1, <2>1, <2>2, <2>3 DEF RouteInv, RouteTypes
<1>6. CASE upset' BY <1>5, <1>6 DEF RouteInv
<1>7. CASE ~ upset'
  <2>1. ~ Routing!Meets(i, ps) BY <1>2, <1>7
  <2>2. \A j \in Ids \ {i} : p \notin Routing!PathsOf(j) /\ route'[j] = route[j]
    BY <1>1, <1>2, <1>7 DEF RouteInv, RouteTypes, Routing!PathsOf
  <2>3. kind = "create" => route[i] = None /\ info[i] = None
    BY <1>1 DEF Routing!PathsOf
  <2>4. route'[i] = IF kind = "create" THEN route[i] ELSE p
    BY <1>1 DEF RouteInv, RouteTypes
  <2>5. /\ q.kind = kind /\ q.at = at /\ q.id = i /\ q.path = p /\ q.org = None /\ q.paths = ps
        /\ q # Routing!Free
    BY <1>4, RouteNotFree
  <2>6. at = "info" \/ (at = "docRead" /\ q.org = info[i]) BY <1>1, <2>3, <2>5
  <2> HIDE DEF q, ps
  <2> QED BY <1>1, <1>2, <1>4, <1>5, <2>1, <2>2, <2>3, <2>4, <2>5, <2>6, RouteStarts DEF ps
<1> QED BY <1>6, <1>7

LEMMA RouteReadInfo ==
  ASSUME RouteInv, ~ upset, NEW r \in Pair, Routing!ReadInfo(r)
  PROVE  RouteInv'
<1>1. r \in Routing!Busy /\ rq[r] \in RouteWork /\ rq[r].at = "info" /\ RouteUnderWay(rq[r])
  BY RouteFree DEF Routing!ReadInfo, Routing!At, RouteInv
<1>2. info[rq[r].id] \in Paths \cup {None} BY <1>1 DEF RouteInv, RouteTypes, RouteWork
<1>3. PICK q \in RouteWork : q = [rq[r] EXCEPT !.org = info[rq[r].id], !.at = "docRead"]
  BY <1>1, <1>2 DEF RouteWork, RouteSteps
<1>4. rq' = [rq EXCEPT ![r] = q] /\ route' = route /\ info' = info /\ doc' = doc /\ upset' = upset
  BY <1>3 DEF Routing!ReadInfo, Routing!Put
<1>5. /\ q # Routing!Free
      /\ q.kind = rq[r].kind /\ q.id = rq[r].id /\ q.path = rq[r].path /\ q.paths = rq[r].paths
      /\ q.at = "docRead" /\ q.org = info[q.id]
  BY <1>1, <1>3, RouteNotFree DEF RouteWork
<1>6. RouteTypes' BY <1>1, <1>4 DEF RouteInv, RouteTypes
<1>7. RouteUnderWay(q)' BY <1>1, <1>4, <1>5 DEF RouteUnderWay, InDoc
<1>8. Routing!PathsOf(q.id)' \subseteq q.paths
  BY <1>1, <1>4, <1>5 DEF RouteInv, RoutesApart, Routing!PathsOf
<1> QED BY <1>1, <1>4, <1>5, <1>6, <1>7, <1>8, RouteOnward

LEMMA RouteReadDoc ==
  ASSUME RouteInv, ~ upset, NEW r \in Pair, Routing!ReadDoc(r)
  PROVE  RouteInv'
<1>1. r \in Routing!Busy /\ rq[r] \in RouteWork /\ rq[r].at = "docRead" /\ RouteUnderWay(rq[r])
  BY RouteFree DEF Routing!ReadDoc, Routing!At, RouteInv
<1>2. PICK q \in RouteWork : q = [rq[r] EXCEPT !.doc = doc, !.at = "docWrite"]
  BY <1>1 DEF RouteWork, RouteSteps, RouteInv, RouteTypes
<1>3. /\ rq' = [rq EXCEPT ![r] = q] /\ route' = route /\ info' = info /\ doc' = doc
      /\ upset' = (upset \/ \E s \in Routing!Busy : Routing!At(s, "docWrite"))
  BY <1>2 DEF Routing!ReadDoc, Routing!Put
<1>4. /\ q # Routing!Free
      /\ q.kind = rq[r].kind /\ q.id = rq[r].id /\ q.path = rq[r].path /\ q.paths = rq[r].paths
      /\ q.at = "docWrite" /\ q.org = rq[r].org /\ q.doc = doc
  BY <1>1, <1>2, RouteNotFree DEF RouteWork
<1>5. RouteTypes' BY <1>1, <1>3 DEF RouteInv, RouteTypes
<1>6. CASE upset' BY <1>5, <1>6 DEF RouteInv
<1>7. CASE ~ upset'
  <2>1. RouteUnderWay(q)' BY <1>1, <1>3, <1>4 DEF RouteUnderWay, InDoc
  <2>2. Routing!PathsOf(q.id)' \subseteq q.paths
    BY <1>1, <1>3, <1>4 DEF RouteInv, RoutesApart, Routing!PathsOf
  <2>3. \A s \in Pair \ {r} : ~ Routing!At(s, "docWrite")
    BY <1>3, <1>7 DEF Routing!Busy, Routing!At
  <2> QED BY <1>1, <1>3, <1>4, <1>5, <2>1, <2>2, <2>3, RouteOnward
<1> QED BY <1>6, <1>7

LEMMA RouteWriteDoc ==
  ASSUME RouteInv, ~ upset, None \notin Paths, NEW r \in Pair, Routing!WriteDoc(r)
  PROVE  RouteInv'
<1>1. r \in Routing!Busy /\ rq[r] \in RouteWork /\ rq[r].at = "docWrite" /\ RouteUnderWay(rq[r])
  BY RouteFree DEF Routing!WriteDoc, Routing!At, RouteInv
<1>2. PICK q \in RouteWork : q = [rq[r] EXCEPT !.at = "save"]
  BY <1>1 DEF RouteWork, RouteSteps
<1>3. /\ rq' = [rq EXCEPT ![r] = q] /\ route' = route /\ info' = info /\ upset' = upset
      /\ doc' = (rq[r].doc \ {rq[r].org}) \cup ({rq[r].path} \ {None})
  BY <1>2 DEF Routing!WriteDoc, Routing!Put, Routing!NewDoc
<1>4. /\ q # Routing!Free
      /\ q.kind = rq[r].kind /\ q.id = rq[r].id /\ q.path = rq[r].path /\ q.paths = rq[r].paths
      /\ q.at = "save"
  BY <1>1, <1>2, RouteNotFree DEF RouteWork
<1>5. doc' = (doc \ {info[q.id]}) \cup ({q.path} \ {None})
  BY <1>1, <1>3, <1>4 DEF RouteUnderWay
<1>6. RouteTypes'
  <2>1. doc' \in SUBSET Paths BY <1>1, <1>4, <1>5 DEF RouteInv, RouteTypes, RouteWork
  <2> QED BY <1>1, <1>3, <2>1 DEF RouteInv, RouteTypes
<1>7. Routing!PathsOf(q.id) \subseteq q.paths /\ {q.path} \ {None} \subseteq q.paths
  BY <1>1, <1>4 DEF RouteInv, RoutesApart
<1>8. info[q.id] \in q.paths \/ info[q.id] = None BY <1>7 DEF Routing!PathsOf
<1>9. doc' \ q.paths = doc \ q.paths
  BY <1>5, <1>7, <1>8 DEF RouteInv, RouteTypes
<1>10. doc' \cap q.paths = {q.path} \ {None}
  BY <1>1, <1>4, <1>5, <1>7 DEF RouteUnderWay, InDoc
<1>11. RouteUnderWay(q)' BY <1>1, <1>3, <1>4, <1>10 DEF RouteUnderWay, InDoc
<1>12. Routing!PathsOf(q.id)' \subseteq q.paths BY <1>3, <1>7 DEF Routing!PathsOf
<1>13. Routing!At(r, "docWrite") BY DEF Routing!WriteDoc
<1> QED BY <1>1, <1>3, <1>4, <1>6, <1>9, <1>11, <1>12, <1>13, RouteOnward

LEMMA RouteSave ==
  ASSUME RouteInv, ~ upset, NEW r \in Pair, Routing!Save(r)
  PROVE  RouteInv'
<1>1. r \in Routing!Busy /\ rq[r] \in RouteWork /\ rq[r].at = "save" /\ RouteUnderWay(rq[r])
  BY RouteFree DEF Routing!Save, Routing!At, RouteInv
<1>2. /\ info' = [info EXCEPT ![rq[r].id] = rq[r].path]
      /\ route' = route /\ doc' = doc /\ upset' = upset
  BY DEF Routing!Save
<1>3. rq[r].id \in Ids /\ rq[r].path \in Paths \cup {None} BY <1>1 DEF RouteWork
<1>4. /\ \A j \in Ids \ {rq[r].id} : route'[j] = route[j] /\ info'[j] = info[j]
      /\ info'[rq[r].id] = rq[r].path
      /\ info' \in [Ids -> Paths \cup {None}]
  BY <1>2, <1>3 DEF RouteInv, RouteTypes
<1>5. /\ Routing!PathsOf(rq[r].id) \subseteq rq[r].paths
      /\ {rq[r].path} \ {None} \subseteq rq[r].paths
  BY <1>1 DEF RouteInv, RoutesApart
<1>6. doc \cap rq[r].paths = {rq[r].path} \ {None} BY <1>1 DEF RouteUnderWay, InDoc
<1>7. CASE rq[r].kind = "create"
  <2>1. PICK q \in RouteWork : q = [rq[r] EXCEPT !.at = "router"]
    BY <1>1 DEF RouteWork, RouteSteps
  <2>2. rq' = [rq EXCEPT ![r] = q] BY <1>7, <2>1 DEF Routing!Save, Routing!Put
  <2>3. /\ q # Routing!Free
        /\ q.kind = rq[r].kind /\ q.id = rq[r].id /\ q.path = rq[r].path /\ q.paths = rq[r].paths
        /\ q.at = "router"
    BY <1>1, <2>1, RouteNotFree DEF RouteWork
  <2>4. RouteTypes' BY <1>1, <1>2, <1>4, <2>2 DEF RouteInv, RouteTypes
  <2>5. RouteUnderWay(q)' BY <1>1, <1>2, <1>4, <1>6, <1>7, <2>3 DEF RouteUnderWay, InDoc
  <2>6. Routing!PathsOf(q.id)' \subseteq q.paths
    BY <1>2, <1>4, <1>5, <2>3 DEF Routing!PathsOf
  <2> QED BY <1>1, <1>2, <1>4, <2>2, <2>3, <2>4, <2>5, <2>6, RouteOnward
<1>8. CASE rq[r].kind # "create"
  <2>1. rq' = [rq EXCEPT ![r] = Routing!Free]
    BY <1>8 DEF Routing!Save, Routing!Put, Routing!Done
  <2>2. RouteTypes' BY <1>1, <1>2, <1>4, <2>1 DEF RouteInv, RouteTypes
  <2>3. route'[rq[r].id] = rq[r].path BY <1>1, <1>2, <1>8 DEF RouteUnderWay
  <2>4. PICK q : q = rq[r] OBVIOUS
  <2> QED BY <1>1, <1>2, <1>4, <1>5, <1>6, <2>1, <2>2, <2>3, <2>4, RouteEnds
<1> QED BY <1>7, <1>8

LEMMA RouteCreateRouter ==
  ASSUME RouteInv, ~ upset, NEW r \in Pair, Routing!CreateRouter(r)
  PROVE  RouteInv'
<1>1. r \in Routing!Busy /\ rq[r] \in RouteWork /\ rq[r].at = "router" /\ RouteUnderWay(rq[r])
  BY RouteFree DEF Routing!CreateRouter, Routing!At, RouteInv
<1>2. /\ route' = [route EXCEPT ![rq[r].id] = rq[r].path]
      /\ info' = info /\ doc' = doc /\ upset' = upset
      /\ rq' = [rq EXCEPT ![r] = Routing!Free]
  BY DEF Routing!CreateRouter, Routing!Done, Routing!Put
<1>3. rq[r].id \in Ids /\ rq[r].path \in Paths \cup {None} BY <1>1 DEF RouteWork
<1>4. /\ \A j \in Ids \ {rq[r].id} : route'[j] = route[j] /\ info'[j] = info[j]
      /\ route'[rq[r].id] = rq[r].path
      /\ route' \in [Ids -> Paths \cup {None}]
  BY <1>2, <1>3 DEF RouteInv, RouteTypes
<1>5. {rq[r].path} \ {None} \subseteq rq[r].paths BY <1>1 DEF RouteInv, RoutesApart
<1>6. rq[r].kind = "create" /\ info[rq[r].id] = rq[r].path BY <1>1 DEF RouteUnderWay
<1>7. doc \cap rq[r].paths = {rq[r].path} \ {None} BY <1>1 DEF RouteUnderWay, InDoc
<1>8. RouteTypes' BY <1>1, <1>2, <1>4 DEF RouteInv, RouteTypes
<1>9. PICK q : q = rq[r] OBVIOUS
<1> QED BY <1>1, <1>2, <1>4, <1>5, <1>6, <1>7, <1>8, <1>9, RouteEnds

LEMMA RouteFail ==
  ASSUME RouteInv, ~ upset, NEW r \in Pair, Routing!Fail(r)
  PROVE  RouteInv'
<1>1. r \in Routing!Busy /\ rq[r] \in RouteWork /\ RouteUnderWay(rq[r])
  BY RouteFree DEF Routing!Fail, RouteInv
<1>2. /\ route' = route /\ info' = info /\ doc' = doc
      /\ upset' = (upset \/ rq[r].kind # "create" \/ rq[r].at \in {"save", "router"})
      /\ rq' = [rq EXCEPT ![r] = Routing!Free]
  BY DEF Routing!Fail, Routing!Done, Routing!Put
<1>3. RouteTypes' BY <1>1, <1>2 DEF RouteInv, RouteTypes
<1>4. CASE upset' BY <1>3, <1>4 DEF RouteInv
<1>5. CASE ~ upset'
  <2>1. route[rq[r].id] = None /\ info[rq[r].id] = None BY <1>1, <1>2, <1>5 DEF RouteUnderWay
  <2>2. doc \cap rq[r].paths = {None} \ {None}
    BY <1>1, <1>2, <1>5, <2>1 DEF RouteUnderWay, InDoc
  <2>3. PICK q : q = rq[r] OBVIOUS
  <2> QED BY <1>1, <1>2, <1>3, <2>1, <2>2, <2>3, RouteEnds
<1> QED BY <1>4, <1>5

LEMMA RouteInit ==
  ASSUME Routing!Init
  PROVE  RouteInv
<1>1. RouteTypes BY DEF Routing!Init, RouteTypes
<1>2. Routing!Busy = {} /\ \A i \in Ids : route[i] = None /\ info[i] = None
  BY DEF Routing!Init, Routing!Busy
<1>3. RoutesApart BY <1>2 DEF RoutesApart, Routing!PathsOf
<1>4. OneWriter BY <1>2 DEF OneWriter, Routing!At, Routing!Busy
<1>5. RoutesAtRest BY <1>2 DEF RoutesAtRest, Routing!Init
<1> QED BY <1>1, <1>2, <1>3, <1>4, <1>5 DEF RouteInv

LEMMA RouteNext ==
  ASSUME RouteInv, None \notin Paths, [Routing!Next]_(Routing!vars)
  PROVE  RouteInv'
<1>1. CASE UNCHANGED Routing!vars
  BY <1>1 DEF Routing!vars, RouteInv, RouteTypes, RoutesApart, RouteUnderWay, InDoc, OneWriter,
              RoutesAtRest, Routing!Busy, Routing!PathsOf, Routing!At, Routing!InWork,
              Routing!PathsInWork
<1>2. ASSUME ~ upset, NEW r \in Pair, Routing!Serve(r) PROVE RouteInv'
  BY <1>2, RouteStart, RouteReadInfo, RouteReadDoc, RouteWriteDoc, RouteSave, RouteCreateRouter,
     RouteFail DEF Routing!Serve
<1> QED BY <1>1, <1>2 DEF Routing!Next, Routing!Over

LEMMA RouteMatches ==
  ASSUME RouteInv, None \notin Paths
  PROVE  Routing!DocMatches
<1> SUFFICES ASSUME ~ upset
             PROVE  /\ \A i \in Ids \ Routing!InWork : route[i] = info[i]
                    /\ doc \ Routing!PathsInWork
                         = {route[i] : i \in Ids \ Routing!InWork} \ {None}
  BY DEF Routing!DocMatches
<1>1. RoutesApart /\ RoutesAtRest /\ doc \in SUBSET Paths BY DEF RouteInv, RouteTypes
<1>2. ASSUME NEW i \in Ids \ Routing!InWork, route[i] # None
      PROVE  route[i] \in doc \ Routing!PathsInWork
  <2>1. \A r \in Routing!Busy : i # rq[r].id BY DEF Routing!InWork
  <2>2. \A r \in Routing!Busy : route[i] \notin rq[r].paths
    BY <1>1, <1>2, <2>1 DEF RoutesApart, Routing!PathsOf
  <2> QED BY <1>1, <1>2, <2>2 DEF RoutesAtRest, Routing!PathsInWork
<1> QED BY <1>1, <1>2 DEF RoutesAtRest

\* The document of an AI service has the paths of its routes, whatever requests about other
\* routes are in progress: DocMatches of AiApi.
THEOREM RoutesDocumented == Routing!Spec => []Routing!DocMatches
<1>1. Routing!Init => RouteInv BY RouteInit, ConstantsAssumption DEF RouteConstants
<1>2. RouteInv /\ [Routing!Next]_(Routing!vars) => RouteInv'
  BY RouteNext, ConstantsAssumption DEF RouteConstants
<1>3. RouteInv => Routing!DocMatches BY RouteMatches, ConstantsAssumption DEF RouteConstants
<1> QED BY <1>1, <1>2, <1>3, PTL DEF Routing!Spec

\* The same of the behaviours of MCServer.
THEOREM DocumentKept == Spec => []DocMatches
<1> DEFINE I == part = "route" => RouteInv
<1>1. Init => I BY RouteInit, PartInit, ConstantsAssumption DEF RouteConstants
<1>2. I /\ [Next]_<<part, vars>> => I' BY RouteNext, PartNext, ConstantsAssumption
                                          DEF RouteConstants
<1>3. I => DocMatches BY RouteMatches, ConstantsAssumption DEF DocMatches, RouteConstants
<1> QED BY <1>1, <1>2, <1>3, PTL DEF Spec

-----------------------------------------------------------------------------
(* The counting of tokens.                                                 *)

CountTypes ==
  /\ used \in [Keys -> Nat \cup {None}]
  /\ total \in Nat
  /\ message \in [Messages -> [queued : BOOLEAN, attempts : 0 .. MaxAttempts + 1]]
  /\ handler = Counting!Idle
       \/ handler \in [at : {"key", "route", "commit", "acknowledge"}, of : Messages,
                       used : Nat \cup {None}]
  /\ edit = Counting!NoEdit \/ edit \in [key : Keys, used : Nat]
  /\ passed \in [{"key", "route"} -> SUBSET Messages]

\* A message that may be delivered again has deliveries left, but for the one that gives it up.
Deliverable ==
  /\ \A m \in Messages : message[m].queued => message[m].attempts <= MaxAttempts
  /\ handler # Counting!Idle => message[handler.of].attempts <= MaxAttempts

\* The transaction has the row it holds, with one token more.
HoldsRow ==
  handler.at \in {"route", "commit"} =>
    used[KeyOf[handler.of]] \in Nat /\ handler.used = used[KeyOf[handler.of]] + 1

\* What the key and the route have counted of calls: at least those that are settled, at most
\* their deliveries without the one that is still to be counted.
Counter == [key   |-> [counted |-> {"acknowledge"}, pending |-> {"key", "route", "commit"}],
            route |-> [counted |-> {"commit", "acknowledge"}, pending |-> {"key", "route"}]]

Settled(w) == {m \in Messages : /\ ~ message[m].queued /\ m \notin passed[w]
                                /\ m = handler.of => handler.at \in Counter[w].counted}

Pending(w, calls) == handler.at \in Counter[w].pending /\ handler.of \in calls

Counts(w, calls, n) ==
  /\ Cardinality(calls \cap Settled(w)) <= n
  /\ n + (IF Pending(w, calls) THEN 1 ELSE 0) <= Cardinality(Counting!Deliveries(calls))

Calls(k) == {m \in Messages : KeyOf[m] = k}

CountInv ==
  /\ CountTypes /\ Deliverable /\ HoldsRow
  /\ \A k \in Counting!Stored \ torn : Counts("key", Calls(k), used[k])
  /\ Counts("route", Messages, total)

LEMMA CountFinite ==
  ASSUME CountConstants, CountTypes, NEW S \in SUBSET Messages
  PROVE  /\ IsFiniteSet(S) /\ Cardinality(S) \in Nat
         /\ IsFiniteSet(Counting!Deliveries(S)) /\ Cardinality(Counting!Deliveries(S)) \in Nat
<1>1. IsFiniteSet(S) BY FS_Subset DEF CountConstants
<1>2. IsFiniteSet(1 .. MaxAttempts + 1) BY FS_Interval DEF CountConstants
<1>3. IsFiniteSet(Messages \X (1 .. MaxAttempts + 1))
  BY <1>2, FS_Product DEF CountConstants
<1>4. Counting!Deliveries(S) \subseteq Messages \X (1 .. MaxAttempts + 1)
  <2> SUFFICES ASSUME NEW m \in S, NEW n \in 1 .. message[m].attempts
               PROVE  n \in 1 .. MaxAttempts + 1
    BY DEF Counting!Deliveries
  <2>1. message[m].attempts \in 0 .. MaxAttempts + 1 BY DEF CountTypes
  <2> QED BY <2>1 DEF CountConstants
<1>5. IsFiniteSet(Counting!Deliveries(S)) BY <1>3, <1>4, FS_Subset
<1> QED BY <1>1, <1>5, FS_CardinalityType

\* Nothing is counted, and nothing more is settled.
LEMMA CountStays ==
  ASSUME CountConstants, CountTypes, CountTypes',
         NEW w \in {"key", "route"}, NEW calls \in SUBSET Messages, NEW n \in Nat,
         Counts(w, calls, n),
         calls \cap Settled(w)' \subseteq Settled(w),
         Pending(w, calls)' => Pending(w, calls),
         \A m \in calls : message'[m].attempts = message[m].attempts
  PROVE  Counts(w, calls, n)'
<1>1. Counting!Deliveries(calls)' = Counting!Deliveries(calls) BY DEF Counting!Deliveries
<1>2. Cardinality(calls \cap Settled(w)') <= Cardinality(calls \cap Settled(w))
  <2>1. IsFiniteSet(calls \cap Settled(w)) BY CountFinite
  <2> QED BY <2>1, FS_Subset
<1>3. /\ Cardinality(calls \cap Settled(w)) \in Nat /\ Cardinality(calls \cap Settled(w)') \in Nat
      /\ Cardinality(Counting!Deliveries(calls)) \in Nat
  <2>1. calls \cap Settled(w) \in SUBSET Messages /\ calls \cap Settled(w)' \in SUBSET Messages
    OBVIOUS
  <2> QED BY <2>1, CountFinite
<1> QED BY <1>1, <1>2, <1>3 DEF Counts

\* A call is counted: it is no longer pending, and settled.
LEMMA CountOne ==
  ASSUME CountConstants, CountTypes, CountTypes',
         NEW w \in {"key", "route"}, NEW calls \in SUBSET Messages, NEW n \in Nat,
         Counts(w, calls, n),
         calls \cap Settled(w)' \subseteq Settled(w) \cup {handler.of},
         Pending(w, calls), ~ Pending(w, calls)',
         message' = message
  PROVE  Counts(w, calls, n + 1)'
<1>1. Counting!Deliveries(calls)' = Counting!Deliveries(calls) BY DEF Counting!Deliveries
<1> DEFINE S == calls \cap Settled(w)
<1>2. IsFiniteSet(S) /\ Cardinality(S) \in Nat BY CountFinite
<1>3. /\ IsFiniteSet(S \cup {handler.of})
      /\ Cardinality(S \cup {handler.of}) \in Nat
      /\ Cardinality(S \cup {handler.of}) <= Cardinality(S) + 1
  BY <1>2, FS_AddElement, FS_CardinalityType
<1>4. calls \cap Settled(w)' \subseteq S \cup {handler.of} OBVIOUS
<1>5. Cardinality(calls \cap Settled(w)') <= Cardinality(S \cup {handler.of})
  BY <1>3, <1>4, FS_Subset
<1>6. calls \cap Settled(w)' \in SUBSET Messages OBVIOUS
<1>7. /\ Cardinality(calls \cap Settled(w)') \in Nat
      /\ Cardinality(Counting!Deliveries(calls)) \in Nat
  BY <1>6, CountFinite
<1> HIDE DEF S
<1>8. Cardinality(S) <= n /\ n + 1 <= Cardinality(Counting!Deliveries(calls))
  BY DEF Counts, S
<1>9. Cardinality(calls \cap Settled(w)') <= n + 1 BY <1>2, <1>3, <1>5, <1>7, <1>8
<1> QED BY <1>1, <1>7, <1>8, <1>9 DEF Counts

LEMMA CountInit ==
  ASSUME CountConstants, Counting!Init
  PROVE  CountInv
<1>1. CountTypes BY DEF CountConstants, Counting!Init, CountTypes
<1>2. Deliverable /\ HoldsRow
  BY DEF CountConstants, Counting!Init, Deliverable, HoldsRow, Counting!Idle
<1>3. ASSUME NEW w \in {"key", "route"}, NEW calls \in SUBSET Messages
      PROVE  Counts(w, calls, 0)
  <2>1. Settled(w) = {} BY DEF Counting!Init, Settled
  <2>2. ~ Pending(w, calls) BY DEF Counting!Init, Counting!Idle, Pending, Counter
  <2>3. Cardinality(calls \cap Settled(w)) = 0 BY <2>1, FS_EmptySet
  <2>4. Cardinality(Counting!Deliveries(calls)) \in Nat BY <1>1, CountFinite
  <2> QED BY <2>2, <2>3, <2>4 DEF Counts
<1>4. \A k \in Keys : Calls(k) \in SUBSET Messages /\ used[k] = 0
  BY DEF Calls, Counting!Init
<1>5. total = 0 BY DEF Counting!Init
<1>6. \A k \in Counting!Stored \ torn : Counts("key", Calls(k), used[k])
  BY <1>3, <1>4 DEF Counting!Stored
<1>7. Counts("route", Messages, total) BY <1>3, <1>5
<1> QED BY <1>1, <1>2, <1>6, <1>7 DEF CountInv

LEMMA CountSubsets ==
  ASSUME CountInv
  PROVE  /\ \A k \in Keys : Calls(k) \in SUBSET Messages
         /\ \A k \in Counting!Stored : k \in Keys /\ used[k] \in Nat
         /\ total \in Nat
BY DEF CountInv, CountTypes, Calls, Counting!Stored

LEMMA CountPass ==
  ASSUME CountInv, NEW m \in Messages, NEW where, Counting!Pass(m, where)
  PROVE  /\ passed' \in [{"key", "route"} -> SUBSET Messages]
         /\ \A w \in {"key", "route"} :
              passed'[w] = IF w \in where THEN passed[w] \cup {m} ELSE passed[w]
BY DEF Counting!Pass, CountInv, CountTypes

\* The counts and the tokens stay.
LEMMA CountKeeps ==
  ASSUME CountInv, CountTypes', Deliverable', HoldsRow',
         used' = used, total' = total, torn' = torn,
         \A w \in {"key", "route"}, calls \in SUBSET Messages, n \in Nat :
           Counts(w, calls, n) => Counts(w, calls, n)'
  PROVE  CountInv'
<1>1. \A k \in Counting!Stored' \ torn' : Counts("key", Calls(k), used[k])'
  <2>1. Counting!Stored' = Counting!Stored BY DEF Counting!Stored
  <2> SUFFICES ASSUME NEW k \in Counting!Stored \ torn PROVE Counts("key", Calls(k), used[k])'
    BY <2>1
  <2>2. PICK n \in Nat : n = used[k] BY CountSubsets
  <2>3. Counts("key", Calls(k), n) BY <2>2 DEF CountInv
  <2>4. Calls(k) \in SUBSET Messages BY CountSubsets
  <2>5. Counts("key", Calls(k), n)' BY <2>3, <2>4
  <2> QED BY <2>2, <2>5
<1>2. Counts("route", Messages, total)'
  <2>1. PICK n \in Nat : n = total BY CountSubsets
  <2>2. Counts("route", Messages, n)' BY <2>1 DEF CountInv
  <2> QED BY <2>1, <2>2
<1> QED BY <1>1, <1>2 DEF CountInv

LEMMA CountReceive ==
  ASSUME CountConstants, CountInv, NEW m \in Messages, Counting!Receive(m)
  PROVE  CountInv'
<1>1. /\ handler = Counting!Idle /\ message[m].queued /\ message[m].attempts \in 0 .. MaxAttempts
      /\ UNCHANGED <<used, total, edit, torn>>
  BY DEF Counting!Receive, CountInv, CountTypes, Deliverable, CountConstants
<1>2. /\ \A q \in Messages \ {m} : message'[q] = message[q]
      /\ ~ message'[m].queued /\ message'[m].attempts = message[m].attempts + 1
      /\ message' \in [Messages -> [queued : BOOLEAN, attempts : 0 .. MaxAttempts + 1]]
  BY <1>1 DEF Counting!Receive, CountInv, CountTypes, CountConstants
<1>3. \/ /\ message[m].attempts < MaxAttempts /\ passed' = passed
         /\ handler' = [at |-> "key", of |-> m, used |-> None]
      \/ /\ handler' = handler
         /\ passed' \in [{"key", "route"} -> SUBSET Messages]
         /\ \A w \in {"key", "route"} : passed'[w] = passed[w] \cup {m}
  <2>1. CASE message[m].attempts < MaxAttempts
    BY <2>1 DEF Counting!Receive, Counting!Idle
  <2>2. CASE ~ (message[m].attempts < MaxAttempts)
    <3>1. handler' = handler /\ Counting!Pass(m, {"key", "route"})
      BY <2>2 DEF Counting!Receive
    <3> QED BY <3>1, CountPass
  <2> QED BY <2>1, <2>2
<1>4. CountTypes'
  BY <1>1, <1>2, <1>3 DEF CountInv, CountTypes
<1>5. Deliverable'
  BY <1>1, <1>2, <1>3 DEF CountInv, CountTypes, Deliverable, CountConstants, Counting!Idle
<1>6. HoldsRow' BY <1>1, <1>3 DEF HoldsRow, Counting!Idle
<1>7. ASSUME NEW w \in {"key", "route"}, NEW calls \in SUBSET Messages, NEW n \in Nat,
             Counts(w, calls, n)
      PROVE  Counts(w, calls, n)'
  <2>1. handler.of = None /\ handler.at = "idle" BY <1>1 DEF Counting!Idle
  <2>2. Settled(w)' \subseteq Settled(w)
    <3>1. m \notin Settled(w)'
      BY <1>3, <2>1 DEF Settled, Counter, CountConstants
    <3>2. \A q \in Messages \ {m} : q \in Settled(w)' => q \in Settled(w)
      BY <1>2, <1>3, <2>1 DEF Settled, CountConstants
    <3> QED BY <3>1, <3>2 DEF Settled
  <2>3. ~ Pending(w, calls) BY <2>1 DEF Pending, Counter
  <2>4. CASE m \notin calls
    <3>1. ~ Pending(w, calls)' BY <1>3, <2>1, <2>4 DEF Pending, Counter
    <3>2. \A q \in calls : message'[q].attempts = message[q].attempts BY <1>2, <2>4
    <3> QED BY <1>4, <1>7, <2>2, <3>1, <3>2, CountStays DEF CountInv
  <2>5. CASE m \in calls
    <3> DEFINE D == Counting!Deliveries(calls)
               d == <<m, message[m].attempts + 1>>
    <3>1. Counting!Deliveries(calls)' = D \cup {d}
      <4>1. \A i : i \in 1 .. message'[m].attempts
                    <=> i \in 1 .. message[m].attempts \/ i = message[m].attempts + 1
        BY <1>1, <1>2
      <4> QED BY <1>2, <2>5, <4>1 DEF Counting!Deliveries
    <3>2. d \notin D BY <1>1 DEF Counting!Deliveries
    <3>3. Cardinality(Counting!Deliveries(calls)') = Cardinality(D) + 1
      <4>1. IsFiniteSet(D) BY CountFinite DEF CountInv
      <4> HIDE DEF D, d
      <4> QED BY <3>1, <3>2, <4>1, FS_AddElement
    <3>4. Cardinality(calls \cap Settled(w)') <= Cardinality(calls \cap Settled(w))
      <4>1. IsFiniteSet(calls \cap Settled(w)) BY CountFinite DEF CountInv
      <4>2. calls \cap Settled(w)' \subseteq calls \cap Settled(w) BY <2>2
      <4> QED BY <4>1, <4>2, FS_Subset
    <3>5. /\ Cardinality(D) \in Nat
          /\ Cardinality(calls \cap Settled(w)) \in Nat
          /\ Cardinality(calls \cap Settled(w)') \in Nat
      <4>1. calls \cap Settled(w) \in SUBSET Messages /\ calls \cap Settled(w)' \in SUBSET Messages
        OBVIOUS
      <4> QED BY <1>4, <4>1, CountFinite DEF CountInv
    <3> HIDE DEF D
    <3>6. Cardinality(calls \cap Settled(w)) <= n /\ n <= Cardinality(D)
      BY <1>7, <2>3 DEF Counts, D
    <3> QED BY <3>3, <3>4, <3>5, <3>6 DEF Counts
  <2> QED BY <2>4, <2>5
<1> QED BY <1>1, <1>4, <1>5, <1>6, <1>7, CountKeeps

LEMMA CountRequeue ==
  ASSUME CountConstants, CountInv, handler # Counting!Idle, Counting!Requeue(handler.of),
         UNCHANGED <<used, total, edit, torn>>
  PROVE  CountInv'
<1>1. PICK m \in Messages : m = handler.of BY DEF CountInv, CountTypes
<1>2. /\ \A q \in Messages \ {m} : message'[q] = message[q]
      /\ message'[m].queued /\ message'[m].attempts = message[m].attempts
      /\ message' \in [Messages -> [queued : BOOLEAN, attempts : 0 .. MaxAttempts + 1]]
      /\ handler' = Counting!Idle
  BY <1>1 DEF Counting!Requeue, CountInv, CountTypes
<1>3. /\ passed' \in [{"key", "route"} -> SUBSET Messages]
      /\ \A w \in {"key", "route"} : passed'[w] = passed[w] \ {m}
  BY <1>1 DEF Counting!Requeue, CountInv, CountTypes
<1>4. CountTypes' BY <1>2, <1>3 DEF CountInv, CountTypes
<1>5. Deliverable' BY <1>1, <1>2 DEF CountInv, Deliverable
<1>6. HoldsRow' BY <1>2 DEF HoldsRow, Counting!Idle
<1>7. ASSUME NEW w \in {"key", "route"}, NEW calls \in SUBSET Messages, NEW n \in Nat,
             Counts(w, calls, n)
      PROVE  Counts(w, calls, n)'
  <2>1. Settled(w)' \subseteq Settled(w) BY <1>1, <1>2, <1>3 DEF Settled
  <2>2. ~ Pending(w, calls)' BY <1>2 DEF Pending, Counter, Counting!Idle
  <2>3. \A q \in calls : message'[q].attempts = message[q].attempts BY <1>2
  <2> QED BY <1>4, <1>7, <2>1, <2>2, <2>3, CountStays DEF CountInv
<1> QED BY <1>4, <1>5, <1>6, <1>7, CountKeeps

\* The handler with a message, at a step.
LEMMA CountHandler ==
  ASSUME CountInv, NEW step, handler.at = step, step # "idle"
  PROVE  /\ handler.of \in Messages /\ handler # Counting!Idle
         /\ handler \in [at : {"key", "route", "commit", "acknowledge"}, of : Messages,
                        used : Nat \cup {None}]
         /\ KeyOf \in [Messages -> Keys] => KeyOf[handler.of] \in Keys
BY DEF CountInv, CountTypes, Counting!Idle

LEMMA CountKeyStep ==
  ASSUME CountConstants, CountInv, Counting!CountKey
  PROVE  CountInv'
<1>1. handler.at = "key" /\ message' = message /\ UNCHANGED <<used, total, edit, torn>>
  BY DEF Counting!CountKey
<1>2. /\ handler.of \in Messages /\ handler # Counting!Idle /\ KeyOf[handler.of] \in Keys
      /\ handler \in [at : {"key", "route", "commit", "acknowledge"}, of : Messages,
                     used : Nat \cup {None}]
  BY <1>1, CountHandler DEF CountConstants
<1>3. \/ /\ used[KeyOf[handler.of]] \in Nat /\ passed' = passed
         /\ handler' = [handler EXCEPT !.at = "route", !.used = used[KeyOf[handler.of]] + 1]
      \/ /\ handler' = [handler EXCEPT !.at = "acknowledge"]
         /\ Counting!Pass(handler.of, {"key", "route"})
  BY CountSubsets DEF Counting!CountKey, Counting!Goes
<1>4. /\ passed' \in [{"key", "route"} -> SUBSET Messages]
      /\ handler'.at = "acknowledge" => \A w \in {"key", "route"} : handler.of \in passed'[w]
      /\ \A w \in {"key", "route"} : passed[w] \subseteq passed'[w]
  <2>1. CASE passed' = passed /\ handler' = [handler EXCEPT !.at = "route",
                                                !.used = used[KeyOf[handler.of]] + 1]
    <3>1. handler'.at = "route" BY <1>2, <2>1
    <3> QED BY <2>1, <3>1 DEF CountInv, CountTypes
  <2>2. CASE Counting!Pass(handler.of, {"key", "route"})
    <3>1. PICK m \in Messages : m = handler.of BY <1>2
    <3>2. Counting!Pass(m, {"key", "route"}) BY <2>2, <3>1
    <3>3. /\ passed' \in [{"key", "route"} -> SUBSET Messages]
          /\ \A w \in {"key", "route"} : passed'[w] = passed[w] \cup {m}
      BY <3>2, CountPass
    <3> QED BY <3>1, <3>3
  <2> QED BY <1>3, <2>1, <2>2
<1>5. /\ handler'.of = handler.of /\ handler' # Counting!Idle
      /\ handler'.at \in {"route", "acknowledge"}
      /\ handler' \in [at : {"key", "route", "commit", "acknowledge"}, of : Messages,
                      used : Nat \cup {None}]
  <2>1. handler' \in [at : {"key", "route", "commit", "acknowledge"}, of : Messages,
                      used : Nat \cup {None}]
    <3>1. CASE used[KeyOf[handler.of]] \in Nat /\
               handler' = [handler EXCEPT !.at = "route", !.used = used[KeyOf[handler.of]] + 1]
      <4>1. used[KeyOf[handler.of]] + 1 \in Nat BY <3>1
      <4> QED BY <1>2, <3>1, <4>1
    <3>2. CASE handler' = [handler EXCEPT !.at = "acknowledge"] BY <1>2, <3>2
    <3> QED BY <1>3, <3>1, <3>2
  <2>2. handler'.of = handler.of /\ handler'.at \in {"route", "acknowledge"} BY <1>2, <1>3
  <2> QED BY <2>1, <2>2 DEF Counting!Idle
<1>6. CountTypes' BY <1>1, <1>4, <1>5 DEF CountInv, CountTypes
<1>7. Deliverable' BY <1>1, <1>2, <1>5 DEF CountInv, Deliverable
<1>8. HoldsRow' BY <1>1, <1>2, <1>3 DEF HoldsRow
<1>9. ASSUME NEW w \in {"key", "route"}, NEW calls \in SUBSET Messages, NEW n \in Nat,
             Counts(w, calls, n)
      PROVE  Counts(w, calls, n)'
  <2>1. Settled(w)' \subseteq Settled(w)
    BY <1>1, <1>4, <1>5 DEF Settled, Counter
  <2>2. Pending(w, calls)' => Pending(w, calls)
    BY <1>1, <1>5 DEF Pending, Counter
  <2> QED BY <1>1, <1>6, <1>9, <2>1, <2>2, CountStays DEF CountInv
<1> QED BY <1>1, <1>6, <1>7, <1>8, <1>9, CountKeeps

LEMMA CountRouteStep ==
  ASSUME CountConstants, CountInv, Counting!CountRoute
  PROVE  CountInv'
<1>1. /\ handler.at = "route" /\ message' = message /\ UNCHANGED <<used, edit, torn>>
      /\ handler' = [handler EXCEPT !.at = "commit"]
  BY DEF Counting!CountRoute, Counting!Goes
<1>2. /\ handler.of \in Messages /\ handler # Counting!Idle
      /\ handler \in [at : {"key", "route", "commit", "acknowledge"}, of : Messages,
                     used : Nat \cup {None}]
  BY <1>1, CountHandler
<1>3. \/ total' = total + 1 /\ passed' = passed
      \/ total' = total /\ Counting!Pass(handler.of, {"route"})
  BY DEF Counting!CountRoute
<1>4. /\ passed' \in [{"key", "route"} -> SUBSET Messages]
      /\ passed'["key"] = passed["key"]
      /\ passed["route"] \subseteq passed'["route"]
      /\ total' = total + 1 \/ (total' = total /\ handler.of \in passed'["route"])
  <2>1. CASE total' = total + 1 /\ passed' = passed BY <2>1 DEF CountInv, CountTypes
  <2>2. CASE total' = total /\ Counting!Pass(handler.of, {"route"})
    <3>1. PICK m \in Messages : m = handler.of BY <1>2
    <3>2. Counting!Pass(m, {"route"}) BY <2>2, <3>1
    <3>3. /\ passed' \in [{"key", "route"} -> SUBSET Messages]
          /\ \A w \in {"key", "route"} :
               passed'[w] = IF w \in {"route"} THEN passed[w] \cup {m} ELSE passed[w]
      BY <3>2, CountPass
    <3>4. passed'["key"] = passed["key"] /\ passed'["route"] = passed["route"] \cup {m}
      BY <3>3
    <3> QED BY <2>2, <3>1, <3>3, <3>4
  <2> QED BY <1>3, <2>1, <2>2
<1>5. /\ handler'.of = handler.of /\ handler'.at = "commit" /\ handler'.used = handler.used
      /\ handler' # Counting!Idle
      /\ handler' \in [at : {"key", "route", "commit", "acknowledge"}, of : Messages,
                      used : Nat \cup {None}]
  <2>1. /\ handler'.of = handler.of /\ handler'.at = "commit" /\ handler'.used = handler.used
        /\ handler' \in [at : {"key", "route", "commit", "acknowledge"}, of : Messages,
                        used : Nat \cup {None}]
    BY <1>1, <1>2
  <2> QED BY <2>1 DEF Counting!Idle
<1>6. CountTypes' BY <1>1, <1>4, <1>5 DEF CountInv, CountTypes
<1>7. Deliverable' BY <1>1, <1>2, <1>5 DEF CountInv, Deliverable
<1>8. HoldsRow' BY <1>1, <1>5 DEF CountInv, HoldsRow
<1>9. ASSUME NEW calls \in SUBSET Messages, NEW n \in Nat, Counts("key", calls, n)
      PROVE  Counts("key", calls, n)'
  <2>1. Settled("key")' \subseteq Settled("key")
    BY <1>1, <1>4, <1>5 DEF Settled, Counter
  <2>2. Pending("key", calls)' => Pending("key", calls)
    BY <1>1, <1>5 DEF Pending, Counter
  <2> QED BY <1>1, <1>6, <1>9, <2>1, <2>2, CountStays DEF CountInv
<1>10. \A k \in Counting!Stored' \ torn' : Counts("key", Calls(k), used[k])'
  <2>1. Counting!Stored' = Counting!Stored BY <1>1 DEF Counting!Stored
  <2> SUFFICES ASSUME NEW k \in Counting!Stored \ torn PROVE Counts("key", Calls(k), used[k])'
    BY <1>1, <2>1
  <2>2. PICK n \in Nat : n = used[k] BY CountSubsets
  <2>3. Counts("key", Calls(k), n) BY <2>2 DEF CountInv
  <2>4. Calls(k) \in SUBSET Messages BY CountSubsets
  <2>5. Counts("key", Calls(k), n)' BY <1>9, <2>3, <2>4
  <2> QED BY <1>1, <2>2, <2>5
<1>11. Counts("route", Messages, total)'
  <2>1. PICK n \in Nat : n = total BY CountSubsets
  <2>2. Counts("route", Messages, n) BY <2>1 DEF CountInv
  <2>3. Pending("route", Messages) /\ ~ Pending("route", Messages)'
    BY <1>1, <1>2, <1>5 DEF Pending, Counter
  <2>4. Settled("route")' \subseteq Settled("route") \cup {handler.of}
    BY <1>1, <1>4, <1>5 DEF Settled, Counter
  <2>5. CASE total' = total + 1
    <3>1. Messages \cap Settled("route")' \subseteq Settled("route") \cup {handler.of}
      BY <2>4
    <3>2. Counts("route", Messages, n + 1)'
      BY <1>1, <1>6, <2>2, <2>3, <3>1, CountOne DEF CountInv
    <3> QED BY <2>1, <2>5, <3>2
  <2>6. CASE total' = total /\ handler.of \in passed'["route"]
    <3>1. Settled("route")' \subseteq Settled("route") BY <2>4, <2>6 DEF Settled
    <3>2. Counts("route", Messages, n)'
      BY <1>1, <1>6, <2>2, <2>3, <3>1, CountStays DEF CountInv
    <3> QED BY <2>1, <2>6, <3>2
  <2> QED BY <1>4, <2>5, <2>6
<1> QED BY <1>6, <1>7, <1>8, <1>10, <1>11 DEF CountInv

LEMMA CountCommit ==
  ASSUME CountConstants, CountInv, Counting!Commit
  PROVE  CountInv'
<1>1. /\ handler.at = "commit" /\ UNCHANGED <<total, message, edit, passed, torn>>
      /\ handler' = [handler EXCEPT !.at = "acknowledge"]
      /\ used' = [used EXCEPT ![KeyOf[handler.of]] = handler.used]
  BY DEF Counting!Commit, Counting!Goes
<1>2. /\ handler.of \in Messages /\ handler # Counting!Idle /\ KeyOf[handler.of] \in Keys
      /\ handler \in [at : {"key", "route", "commit", "acknowledge"}, of : Messages,
                     used : Nat \cup {None}]
  BY <1>1, CountHandler DEF CountConstants
<1>3. PICK c \in Keys : c = KeyOf[handler.of] BY <1>2
<1>4. /\ used[c] \in Nat /\ used'[c] = used[c] + 1
      /\ \A k \in Keys \ {c} : used'[k] = used[k]
      /\ used' \in [Keys -> Nat \cup {None}]
  BY <1>1, <1>2, <1>3 DEF CountInv, CountTypes, HoldsRow
<1>5. /\ handler'.of = handler.of /\ handler'.at = "acknowledge"
      /\ handler' # Counting!Idle
      /\ handler' \in [at : {"key", "route", "commit", "acknowledge"}, of : Messages,
                      used : Nat \cup {None}]
  <2>1. /\ handler'.of = handler.of /\ handler'.at = "acknowledge"
        /\ handler' \in [at : {"key", "route", "commit", "acknowledge"}, of : Messages,
                        used : Nat \cup {None}]
    BY <1>1, <1>2
  <2> QED BY <2>1 DEF Counting!Idle
<1>6. CountTypes' BY <1>1, <1>4, <1>5 DEF CountInv, CountTypes
<1>7. Deliverable' BY <1>1, <1>2, <1>5 DEF CountInv, Deliverable
<1>8. HoldsRow' BY <1>5 DEF HoldsRow
<1>9. /\ \A w \in {"key", "route"} : Settled(w)' \subseteq Settled(w) \cup {handler.of}
      /\ \A m \in Settled("key")' \cup Settled("route")' : m \in Messages
      /\ Settled("route")' \subseteq Settled("route")
  BY <1>1, <1>5 DEF Settled, Counter
<1>10. Counting!Stored' = Counting!Stored
  BY <1>3, <1>4 DEF Counting!Stored, CountConstants, CountInv, CountTypes
<1>11. ASSUME NEW k \in Counting!Stored \ torn PROVE Counts("key", Calls(k), used[k])'
  <2>1. PICK n \in Nat : n = used[k] BY CountSubsets
  <2>2. Counts("key", Calls(k), n) BY <2>1 DEF CountInv
  <2>3. Calls(k) \in SUBSET Messages BY CountSubsets
  <2>4. ~ Pending("key", Calls(k))' BY <1>5 DEF Pending, Counter
  <2>5. CASE k = c
    <3>1. Pending("key", Calls(k)) BY <1>1, <1>2, <1>3, <2>5 DEF Pending, Counter, Calls
    <3>2. Calls(k) \cap Settled("key")' \subseteq Settled("key") \cup {handler.of} BY <1>9
    <3>3. Counts("key", Calls(k), n + 1)'
      BY <1>1, <1>6, <2>2, <2>3, <2>4, <3>1, <3>2, CountOne DEF CountInv
    <3> QED BY <1>4, <2>1, <2>5, <3>3
  <2>6. CASE k # c
    <3>1. handler.of \notin Calls(k) BY <1>3, <2>6 DEF Calls
    <3>2. Calls(k) \cap Settled("key")' \subseteq Settled("key") BY <1>9, <3>1
    <3>3. Counts("key", Calls(k), n)'
      BY <1>1, <1>6, <2>2, <2>3, <2>4, <3>2, CountStays DEF CountInv
    <3>4. k \in Keys BY CountSubsets
    <3> QED BY <1>4, <2>1, <2>6, <3>3, <3>4
  <2> QED BY <2>5, <2>6
<1>12. Counts("route", Messages, total)'
  <2>1. PICK n \in Nat : n = total BY CountSubsets
  <2>2. Counts("route", Messages, n) BY <2>1 DEF CountInv
  <2>3. ~ Pending("route", Messages)' BY <1>5 DEF Pending, Counter
  <2>4. Counts("route", Messages, n)'
    BY <1>1, <1>6, <1>9, <2>2, <2>3, CountStays DEF CountInv
  <2> QED BY <1>1, <2>1, <2>4
<1>13. torn' = torn BY <1>1
<1> QED BY <1>6, <1>7, <1>8, <1>10, <1>11, <1>12, <1>13 DEF CountInv

LEMMA CountAcknowledge ==
  ASSUME CountConstants, CountInv, Counting!Acknowledge
  PROVE  CountInv'
<1>1. /\ handler.at = "acknowledge" /\ handler' = Counting!Idle
      /\ UNCHANGED <<used, total, message, edit, passed, torn>>
  BY DEF Counting!Acknowledge
<1>2. CountTypes' BY <1>1 DEF CountInv, CountTypes
<1>3. Deliverable' BY <1>1 DEF CountInv, Deliverable
<1>4. HoldsRow' BY <1>1 DEF HoldsRow, Counting!Idle
<1>5. ASSUME NEW w \in {"key", "route"}, NEW calls \in SUBSET Messages, NEW n \in Nat,
             Counts(w, calls, n)
      PROVE  Counts(w, calls, n)'
  <2>1. Settled(w)' \subseteq Settled(w) BY <1>1 DEF Settled, Counter
  <2>2. ~ Pending(w, calls)' BY <1>1 DEF Pending, Counter, Counting!Idle
  <2> QED BY <1>1, <1>2, <1>5, <2>1, <2>2, CountStays DEF CountInv
<1> QED BY <1>1, <1>2, <1>3, <1>4, <1>5, CountKeeps

\* What pages do to rows: the tokens of a key that is neither without a row nor torn afterwards
\* are what they were.
LEMMA CountPages ==
  ASSUME CountConstants, CountInv, CountTypes',
         UNCHANGED <<total, message, handler, passed>>,
         \A k \in Keys : Counting!Locked(k) => used'[k] = used[k],
         \A k \in Counting!Stored' \ torn' : k \notin torn /\ used'[k] = used[k]
  PROVE  CountInv'
<1>1. Deliverable' BY DEF CountInv, Deliverable
<1>2. HoldsRow'
  <2> SUFFICES ASSUME handler.at \in {"route", "commit"}
               PROVE  used'[KeyOf[handler.of]] = used[KeyOf[handler.of]]
    BY DEF CountInv, HoldsRow
  <2>1. KeyOf[handler.of] \in Keys BY CountHandler DEF CountConstants
  <2> QED BY <2>1 DEF Counting!Locked
<1>3. ASSUME NEW w \in {"key", "route"}, NEW calls \in SUBSET Messages, NEW n \in Nat,
             Counts(w, calls, n)
      PROVE  Counts(w, calls, n)'
  <2>1. Settled(w)' = Settled(w) BY DEF Settled
  <2>2. Pending(w, calls)' = Pending(w, calls) BY DEF Pending
  <2> QED BY <1>3, <2>1, <2>2, CountStays DEF CountInv
<1>4. ASSUME NEW k \in Counting!Stored' \ torn' PROVE Counts("key", Calls(k), used[k])'
  <2>1. k \in Counting!Stored \ torn BY DEF Counting!Stored
  <2>2. PICK n \in Nat : n = used[k] BY <2>1, CountSubsets
  <2>3. Counts("key", Calls(k), n) BY <2>1, <2>2 DEF CountInv
  <2>4. Calls(k) \in SUBSET Messages BY <2>1, CountSubsets
  <2>5. Counts("key", Calls(k), n)' BY <1>3, <2>3, <2>4
  <2> QED BY <2>2, <2>5
<1>5. Counts("route", Messages, total)'
  <2>1. PICK n \in Nat : n = total BY CountSubsets
  <2>2. Counts("route", Messages, n)' BY <1>3, <2>1 DEF CountInv
  <2> QED BY <2>1, <2>2
<1> QED BY <1>1, <1>2, <1>4, <1>5 DEF CountInv

LEMMA CountEdits ==
  ASSUME CountConstants, CountInv,
         \/ Counting!EditWrite
         \/ \E k \in Keys : Counting!EditRead(k) \/ Counting!Delete(k)
  PROVE  CountInv'
<1>1. CASE \E k \in Keys : Counting!EditRead(k)
  <2>1. PICK k \in Keys : Counting!EditRead(k) BY <1>1
  <2>2. /\ UNCHANGED <<used, total, message, handler, passed, torn>>
        /\ edit' = [key |-> k, used |-> used[k]] /\ used[k] \in Nat
    BY <2>1, CountSubsets DEF Counting!EditRead
  <2>3. CountTypes' BY <2>2 DEF CountInv, CountTypes
  <2>4. Counting!Stored' = Counting!Stored BY <2>2 DEF Counting!Stored
  <2> QED BY <2>2, <2>3, CountPages
<1>2. CASE Counting!EditWrite
  <2>1. edit \in [key : Keys, used : Nat]
    BY <1>2 DEF Counting!EditWrite, CountInv, CountTypes
  <2>2. /\ ~ Counting!Locked(edit.key) /\ UNCHANGED <<total, message, handler, passed>>
        /\ used' = [used EXCEPT ![edit.key] = edit.used]
        /\ edit' = Counting!NoEdit
        /\ (used' = used /\ torn' = torn) \/ torn' = torn \cup {edit.key}
    BY <1>2 DEF Counting!EditWrite
  <2>3. CountTypes' BY <2>1, <2>2 DEF CountInv, CountTypes
  <2>4. \A k \in Keys \ {edit.key} : used'[k] = used[k] BY <2>2 DEF CountInv, CountTypes
  <2>5. \A k \in Keys : Counting!Locked(k) => used'[k] = used[k] BY <2>2, <2>4
  <2>6. \A k \in Counting!Stored' \ torn' : k \notin torn /\ used'[k] = used[k]
    BY <2>2, <2>4 DEF Counting!Stored
  <2> QED BY <2>2, <2>3, <2>5, <2>6, CountPages
<1>3. CASE \E k \in Keys : Counting!Delete(k)
  <2>1. PICK k \in Keys : Counting!Delete(k) BY <1>3
  <2>2. /\ ~ Counting!Locked(k) /\ UNCHANGED <<total, message, handler, edit, passed, torn>>
        /\ used' = [used EXCEPT ![k] = None]
    BY <2>1 DEF Counting!Delete
  <2>3. CountTypes' BY <2>2 DEF CountInv, CountTypes
  <2>4. used'[k] = None /\ \A c \in Keys \ {k} : used'[c] = used[c]
    BY <2>2 DEF CountInv, CountTypes
  <2>5. \A c \in Counting!Stored' \ torn' : c \notin torn /\ used'[c] = used[c]
    BY <2>2, <2>4 DEF Counting!Stored
  <2> QED BY <2>2, <2>3, <2>4, <2>5, CountPages
<1> QED BY <1>1, <1>2, <1>3

LEMMA CountNext ==
  ASSUME CountConstants, CountInv, [Counting!Next]_(Counting!vars)
  PROVE  CountInv'
<1>1. CASE UNCHANGED Counting!vars
  <2>1. CountTypes' BY <1>1 DEF Counting!vars, CountInv, CountTypes
  <2>2. UNCHANGED <<used, total, message, handler, passed, torn>> BY <1>1 DEF Counting!vars
  <2>3. Counting!Stored' = Counting!Stored BY <2>2 DEF Counting!Stored
  <2> QED BY <2>1, <2>2, <2>3, CountPages
<1>2. CASE \E m \in Messages : Counting!Receive(m) BY <1>2, CountReceive
<1>3. CASE Counting!CountKey BY <1>3, CountKeyStep
<1>4. CASE Counting!CountRoute BY <1>4, CountRouteStep
<1>5. CASE Counting!Commit BY <1>5, CountCommit
<1>6. CASE Counting!Fail \/ Counting!Crash
  <2>1. handler # Counting!Idle /\ Counting!Requeue(handler.of)
    BY <1>6, CountHandler DEF Counting!Fail, Counting!Crash, Counting!Refused
  <2>2. UNCHANGED <<used, total, edit, torn>> BY <1>6 DEF Counting!Fail, Counting!Crash
  <2> QED BY <2>1, <2>2, CountRequeue
<1>7. CASE Counting!Acknowledge BY <1>7, CountAcknowledge
<1>8. CASE \/ Counting!EditWrite
           \/ \E k \in Keys : Counting!EditRead(k) \/ Counting!Delete(k)
  BY <1>8, CountEdits
<1> QED BY <1>1, <1>2, <1>3, <1>4, <1>5, <1>6, <1>7, <1>8 DEF Counting!Next, Counting!Over

LEMMA CountHolds ==
  ASSUME CountConstants, CountInv
  PROVE  Counting!CallsCounted
<1>1. ASSUME NEW w \in {"key", "route"}, NEW calls \in SUBSET Messages, NEW n \in Nat,
             Counts(w, calls, n)
      PROVE  n \in Cardinality(calls \cap (Counting!Acknowledged \ passed[w]))
                      .. Cardinality(Counting!Deliveries(calls))
  <2>1. calls \cap (Counting!Acknowledged \ passed[w]) \subseteq calls \cap Settled(w)
    BY DEF Counting!Acknowledged, Settled
  <2>2. calls \cap Settled(w) \in SUBSET Messages
    OBVIOUS
  <2>3. IsFiniteSet(calls \cap Settled(w)) /\ Cardinality(calls \cap Settled(w)) \in Nat
    BY <2>2, CountFinite DEF CountInv
  <2>4. /\ Cardinality(calls \cap (Counting!Acknowledged \ passed[w])) \in Nat
        /\ Cardinality(calls \cap (Counting!Acknowledged \ passed[w]))
              <= Cardinality(calls \cap Settled(w))
    BY <2>1, <2>3, FS_Subset, FS_CardinalityType
  <2>5. Cardinality(Counting!Deliveries(calls)) \in Nat BY CountFinite DEF CountInv
  <2> QED BY <1>1, <2>3, <2>4, <2>5 DEF Counts
<1>2. ASSUME NEW k \in Counting!Stored \ torn
      PROVE  used[k] \in Cardinality(Calls(k) \cap (Counting!Acknowledged \ passed.key))
                            .. Cardinality(Counting!Deliveries(Calls(k)))
  <2>1. used[k] \in Nat /\ Calls(k) \in SUBSET Messages BY CountSubsets
  <2>2. Counts("key", Calls(k), used[k]) BY DEF CountInv
  <2> QED BY <1>1, <2>1, <2>2
<1>3. total \in Cardinality(Counting!Acknowledged \ passed.route)
                   .. Cardinality(Counting!Deliveries(Messages))
  <2>1. Messages \cap (Counting!Acknowledged \ passed.route) = Counting!Acknowledged \ passed.route
    BY DEF Counting!Acknowledged
  <2> QED BY <1>1, <2>1, CountSubsets DEF CountInv
<1>4. \A k \in Counting!Stored \ torn :
        LET calls == {m \in Messages : KeyOf[m] = k}
        IN used[k] \in Cardinality(calls \cap (Counting!Acknowledged \ passed.key))
                         .. Cardinality(Counting!Deliveries(calls))
  BY <1>2 DEF Calls
<1>5. \A S : Counting!Cardinality(S) = Cardinality(S) BY DEF Counting!Cardinality, Cardinality
<1> QED BY <1>3, <1>4, <1>5 DEF Counting!CallsCounted

\* Each call that is acknowledged is counted at least once and at most as often as it was
\* delivered, whatever fails and stops in between: CallsCounted of TokenCount.
THEOREM TokensCounted == Counting!Spec => []Counting!CallsCounted
<1>1. Counting!Init => CountInv BY CountInit, ConstantsAssumption
<1>2. CountInv /\ [Counting!Next]_(Counting!vars) => CountInv' BY CountNext, ConstantsAssumption
<1>3. CountInv => Counting!CallsCounted BY CountHolds, ConstantsAssumption
<1> QED BY <1>1, <1>2, <1>3, PTL DEF Counting!Spec

\* The same of the behaviours of MCServer.
THEOREM CountsKept == Spec => []CallsCounted
<1> DEFINE I == part = "count" => CountInv
<1>1. Init => I BY CountInit, PartInit, ConstantsAssumption
<1>2. I /\ [Next]_<<part, vars>> => I' BY CountNext, PartNext, ConstantsAssumption
<1>3. I => CallsCounted BY CountHolds, ConstantsAssumption DEF CallsCounted
<1> QED BY <1>1, <1>2, <1>3, PTL DEF Spec

-----------------------------------------------------------------------------
(* The tree of categories.                                                 *)

PlantWork == [kind : {"sort", "add", "rename", "delete"}, pc : {"sent", "read", "done", "refused"},
              cat : Cats \cup {"none"}, parent : Cats \cup {"root"}, tree : Planting!Trees,
              had : SUBSET Cats]

PlantTypes ==
  /\ rows \in [Cats -> Cats \cup {"root", "gone"}]
  /\ rq \in [Trio -> PlantWork \cup {Planting!Free}]
  /\ astray \in SUBSET Cats

\* A request that is still to be carried out is about a category; that to delete one found
\* none below it.
Well(q) ==
  /\ q.kind \in {"add", "rename", "delete"} /\ q.pc \in {"sent", "read"} => q.cat \in Cats
  /\ q.kind = "delete" /\ q.pc = "read" => q.had = {}

PlantsWell == \A r \in Trio : Well(rq[r])

Adds(q) == q.kind = "add" /\ q.pc \in {"sent", "read"}

\* What a request puts in its place, once it writes.
Puts(q, c) ==
  \/ Adds(q) /\ q.cat = c
  \/ q.kind = "sort" /\ q.pc = "read" /\ c \in DOMAIN q.tree
  \/ q.kind = "rename" /\ q.pc = "read" /\ q.cat = c

\* A category that is being added has no row, and is nobody else's.
PlantsNew ==
  \A r \in Trio : Adds(rq[r]) => /\ rows[rq[r].cat] = "gone"
                                 /\ \A s \in Trio \ {r} : ~ Puts(rq[s], rq[r].cat)

\* Where what is above it leads from a stored category, without a row written blindly, there
\* is the root.
Hangs == \A S \in Planting!Upward(rows) :
           S \cap Planting!Stored # {} /\ "root" \notin S => S \cap astray # {}

PlantInv == PlantTypes /\ PlantsWell /\ PlantsNew /\ Hangs

LEMMA PlantStays ==
  ASSUME PlantInv
  PROVE  Planting!CategoriesStay
<1> SUFFICES ASSUME NEW c \in Planting!Stored, c \notin Planting!Reached(rows)
             PROVE  Planting!Above(rows, c) \cap astray # {}
  BY DEF Planting!CategoriesStay
<1> DEFINE A == Planting!Above(rows, c)
<1>1. c \in Cats /\ DOMAIN rows = Cats /\ rows[c] \in Cats \cup {"root", "gone"}
  BY DEF Planting!Stored, PlantInv, PlantTypes
<1>2. c \in A /\ A \subseteq Cats \cup {"root", "gone"}
  BY <1>1 DEF Planting!Above, Planting!Upward, Planting!Root, Planting!Gone
<1>3. A \in Planting!Upward(rows)
  <2> SUFFICES ASSUME NEW d \in A \cap DOMAIN rows PROVE rows[d] \in A
    BY <1>2 DEF Planting!Upward, Planting!Root, Planting!Gone
  <2>1. rows[d] \in Cats \cup {"root", "gone"} BY <1>1 DEF PlantInv, PlantTypes
  <2>2. \A S \in Planting!Upward(rows) : c \in S => rows[d] \in S
    BY DEF Planting!Above, Planting!Upward
  <2> QED BY <2>1, <2>2 DEF Planting!Above, Planting!Root, Planting!Gone
<1>4. "root" \notin A
  <2>1. PICK S \in Planting!Upward(rows) : c \in S /\ "root" \notin S
    BY <1>1 DEF Planting!Reached, Planting!Root
  <2> QED BY <2>1 DEF Planting!Above
<1> QED BY <1>2, <1>3, <1>4 DEF PlantInv, Hangs

\* The tree is as it was.
LEMMA HangsSame ==
  ASSUME PlantInv, rows' = rows, astray \subseteq astray'
  PROVE  Hangs'
BY DEF PlantInv, Hangs, Planting!Upward, Planting!Stored

\* A tree that hangs from the root is written.
LEMMA HangsSorted ==
  ASSUME PlantInv, PlantConstants, NEW t \in Planting!Trees,
         rows' = [c \in Cats |-> IF c \in DOMAIN t THEN t[c] ELSE rows[c]],
         astray' = astray \ DOMAIN t
  PROVE  Hangs'
<1> SUFFICES ASSUME NEW S \in Planting!Upward(rows)', S \cap Planting!Stored' # {}, "root" \notin S
             PROVE  S \cap astray' # {}
  BY DEF Hangs
<1>1. /\ S \subseteq Cats \cup {"root", "gone"}
      /\ \A c \in S \cap Cats : rows'[c] \in S
  BY DEF Planting!Upward, Planting!Root, Planting!Gone
<1>2. DOMAIN t \subseteq Cats /\ \A c \in DOMAIN t : c \in Planting!Reached(t)
  BY DEF Planting!Trees
<1>3. S \cap DOMAIN t = {}
  <2> SUFFICES ASSUME NEW c \in S \cap DOMAIN t PROVE FALSE
    OBVIOUS
  <2>1. S \in Planting!Upward(t) BY <1>1, <1>2 DEF Planting!Upward, Planting!Root, Planting!Gone
  <2> QED BY <1>2, <2>1 DEF Planting!Reached, Planting!Root
<1>4. S \in Planting!Upward(rows)
  BY <1>1, <1>3 DEF Planting!Upward, Planting!Root, Planting!Gone, PlantInv, PlantTypes
<1>5. S \cap Planting!Stored # {}
  <2>1. PICK c \in S : c \in Planting!Stored' OBVIOUS
  <2> QED BY <1>3, <2>1 DEF Planting!Stored
<1> QED BY <1>3, <1>4, <1>5 DEF PlantInv, Hangs

\* A category that has no row gets a place.
LEMMA HangsAdded ==
  ASSUME PlantInv, PlantConstants, NEW c \in Cats, rows[c] = "gone",
         NEW parent \in Cats \cup {"root"},
         rows' = [rows EXCEPT ![c] = parent],
         astray' = IF parent \in Planting!Stored \cup {"root"} THEN astray ELSE astray \cup {c}
  PROVE  Hangs'
<1> SUFFICES ASSUME NEW S \in Planting!Upward(rows)', S \cap Planting!Stored' # {}, "root" \notin S
             PROVE  S \cap astray' # {}
  BY DEF Hangs
<1>1. /\ S \subseteq Cats \cup {"root", "gone"}
      /\ \A d \in S \cap Cats : rows'[d] \in S
      /\ rows'[c] = parent /\ \A d \in Cats \ {c} : rows'[d] = rows[d]
      /\ DOMAIN rows = Cats
  BY DEF Planting!Upward, Planting!Root, Planting!Gone, PlantInv, PlantTypes
<1>2. astray \subseteq astray' /\ astray \subseteq Cats BY DEF PlantInv, PlantTypes
<1>3. CASE c \notin S
  <2>1. S \in Planting!Upward(rows)
    BY <1>1, <1>3 DEF Planting!Upward, Planting!Root, Planting!Gone
  <2>2. S \cap Planting!Stored # {} BY <1>1, <1>3 DEF Planting!Stored
  <2> QED BY <1>2, <2>1, <2>2 DEF PlantInv, Hangs
<1>4. CASE c \in S /\ parent \in Planting!Stored
  <2> DEFINE T == S \cup {"gone"}
  <2>1. T \in Planting!Upward(rows)
    BY <1>1 DEF Planting!Upward, Planting!Root, Planting!Gone, PlantConstants
  <2>2. parent \in T /\ "root" \notin T BY <1>1, <1>4
  <2>3. T \cap astray # {} BY <1>4, <2>1, <2>2 DEF PlantInv, Hangs
  <2> QED BY <1>2, <2>3 DEF PlantConstants
<1>5. CASE c \in S /\ parent \notin Planting!Stored
  <2>1. parent # "root" BY <1>1, <1>5
  <2> QED BY <1>5, <2>1
<1> QED BY <1>3, <1>4, <1>5

\* A category is put where it was when it was read.
LEMMA HangsRenamed ==
  ASSUME PlantInv, NEW c \in Cats, NEW parent,
         rows' = [rows EXCEPT ![c] = parent],
         astray' = IF rows[c] = parent THEN astray ELSE astray \cup {c}
  PROVE  Hangs'
<1>1. CASE rows[c] = parent
  <2>1. rows' = rows BY <1>1 DEF PlantInv, PlantTypes
  <2> QED BY <1>1, <2>1, HangsSame
<1>2. CASE rows[c] # parent
  <2> SUFFICES ASSUME NEW S \in Planting!Upward(rows)', S \cap Planting!Stored' # {}, "root" \notin S,
                      c \notin S
               PROVE  S \cap astray # {}
    BY <1>2 DEF Hangs
  <2>1. \A d \in Cats \ {c} : rows'[d] = rows[d] BY DEF PlantInv, PlantTypes
  <2>2. S \in Planting!Upward(rows)
    BY <2>1 DEF Planting!Upward, PlantInv, PlantTypes
  <2>3. S \cap Planting!Stored # {} BY <2>1 DEF Planting!Stored
  <2> QED BY <2>2, <2>3 DEF PlantInv, Hangs
<1> QED BY <1>1, <1>2

\* A category goes, and what is below it then is astray.
LEMMA HangsDeleted ==
  ASSUME PlantInv, PlantConstants, NEW c \in Cats,
         rows' = [rows EXCEPT ![c] = "gone"],
         astray' = (astray \ {c}) \cup Planting!Children(c)
  PROVE  Hangs'
<1> SUFFICES ASSUME NEW S \in Planting!Upward(rows)', S \cap Planting!Stored' # {}, "root" \notin S,
                    S \cap Planting!Children(c) = {}
             PROVE  (S \cap astray) \ {c} # {}
  BY DEF Hangs
<1> DEFINE T == S \ {c}
<1>1. rows'[c] = "gone" /\ \A d \in Cats \ {c} : rows'[d] = rows[d] BY DEF PlantInv, PlantTypes
<1>2. T \in Planting!Upward(rows)
  <2> SUFFICES ASSUME NEW d \in T \cap Cats PROVE rows[d] \in S /\ rows[d] # c
    BY DEF Planting!Upward, PlantInv, PlantTypes
  <2>1. rows[d] \in S BY <1>1 DEF Planting!Upward, PlantInv, PlantTypes
  <2>2. rows[d] # c
    <3> SUFFICES ASSUME rows[d] = c PROVE d \in Planting!Children(c)
      OBVIOUS
    <3> QED BY DEF Planting!Children, Planting!Stored, Planting!Gone, PlantConstants
  <2> QED BY <2>1, <2>2
<1>3. T \cap Planting!Stored # {}
  BY <1>1 DEF Planting!Stored, Planting!Gone
<1> QED BY <1>2, <1>3 DEF PlantInv, Hangs

\* One request changes, and possibly rows that are not of categories that others add.
LEMMA PlantPut ==
  ASSUME PlantInv, NEW r \in Trio, NEW q \in PlantWork \cup {Planting!Free},
         rq' = [rq EXCEPT ![r] = q],
         rows' \in [Cats -> Cats \cup {"root", "gone"}], astray' \in SUBSET Cats,
         Well(q),
         Adds(q) => rows'[q.cat] = "gone" /\ \A s \in Trio \ {r} : ~ Puts(rq[s], q.cat),
         \A s \in Trio \ {r} : Adds(rq[s]) =>
           rows'[rq[s].cat] = "gone" /\ ~ Puts(q, rq[s].cat),
         Hangs'
  PROVE  PlantInv'
<1>1. \A s \in Trio : rq'[s] = IF s = r THEN q ELSE rq[s] BY DEF PlantInv, PlantTypes
<1>2. PlantTypes' BY DEF PlantInv, PlantTypes
<1>3. PlantsWell' BY <1>1 DEF PlantInv, PlantsWell
<1>4. PlantsNew'
  <2> SUFFICES ASSUME NEW s \in Trio, Adds(rq'[s])
               PROVE  /\ rows'[rq'[s].cat] = "gone"
                      /\ \A u \in Trio \ {s} : ~ Puts(rq'[u], rq'[s].cat)
    BY DEF PlantsNew, Adds, Puts
  <2>1. CASE s = r BY <1>1, <2>1
  <2>2. CASE s # r BY <1>1, <2>2 DEF PlantInv, PlantsNew
  <2> QED BY <2>1, <2>2
<1> QED BY <1>2, <1>3, <1>4 DEF PlantInv

LEMMA PlantRequests ==
  ASSUME PlantInv, NEW r \in Trio
  PROVE  /\ rq[r] \in PlantWork \/ rq[r] = Planting!Free
         /\ rq[r].kind # "none" => rq[r] \in PlantWork
         /\ Well(rq[r])
BY DEF PlantInv, PlantTypes, PlantsWell, Planting!Free, Planting!Nothing

LEMMA PlantEmpty == Planting!Empty \in Planting!Trees
<1>1. Planting!Empty \in [{} -> {} \cup {Planting!Root}] BY DEF Planting!Empty
<1>2. Planting!Reached(Planting!Empty) = DOMAIN Planting!Empty
  BY DEF Planting!Empty, Planting!Reached
<1> QED BY <1>1, <1>2 DEF Planting!Trees

\* What a request is made of.
LEMMA PlantMade ==
  ASSUME NEW kind \in {"sort", "add", "rename", "delete"},
         NEW at \in {"sent", "read", "done", "refused"}, NEW c \in Cats \cup {"none"},
         NEW parent \in Cats \cup {"root"}, NEW t \in Planting!Trees
  PROVE  [kind |-> kind, pc |-> at, cat |-> c, parent |-> parent, tree |-> t, had |-> {}]
           \in PlantWork
BY DEF PlantWork

\* A request that has been carried out or refused.
LEMMA PlantOver ==
  ASSUME NEW kind \in {"sort", "add", "rename", "delete"}, NEW at \in {"done", "refused"},
         NEW q, q = [Planting!Request(kind) EXCEPT !.pc = at]
  PROVE  /\ q \in PlantWork
         /\ Well(q) /\ ~ Adds(q) /\ \A c : ~ Puts(q, c)
<1>1. q = [kind |-> kind, pc |-> at, cat |-> "none", parent |-> "root", tree |-> Planting!Empty,
           had |-> {}]
  BY DEF Planting!Request, Planting!Nothing, Planting!Root
<1>2. q \in PlantWork
  <2>1. /\ at \in {"sent", "read", "done", "refused"}
        /\ "none" \in Cats \cup {"none"} /\ "root" \in Cats \cup {"root"}
    OBVIOUS
  <2>2. [kind |-> kind, pc |-> at, cat |-> "none", parent |-> "root", tree |-> Planting!Empty,
         had |-> {}] \in PlantWork
    BY <2>1, PlantMade, PlantEmpty, Zenon
  <2> QED BY <1>1, <2>2, Zenon
<1> QED BY <1>1, <1>2 DEF Well, Adds, Puts

\* A request changes, and no row.
LEMMA PlantUnwritten ==
  ASSUME PlantInv, NEW r \in Trio, NEW q \in PlantWork \cup {Planting!Free},
         rq' = [rq EXCEPT ![r] = q], UNCHANGED <<rows, astray>>, Well(q),
         Adds(q) => rows[q.cat] = "gone" /\ \A s \in Trio \ {r} : ~ Puts(rq[s], q.cat),
         \A s \in Trio \ {r} : Adds(rq[s]) => ~ Puts(q, rq[s].cat)
  PROVE  PlantInv'
<1>1. Hangs' BY HangsSame
<1>2. rows' \in [Cats -> Cats \cup {"root", "gone"}] /\ astray' \in SUBSET Cats
  BY DEF PlantInv, PlantTypes
<1>3. \A s \in Trio : Adds(rq[s]) => rows'[rq[s].cat] = "gone" BY DEF PlantInv, PlantsNew
<1> QED BY <1>1, <1>2, <1>3, PlantPut

\* A request is over.
LEMMA PlantEnds ==
  ASSUME PlantInv, NEW r \in Trio, NEW at \in {"done", "refused"}, rq[r].kind # "none",
         NEW q, q = [Planting!Request(rq[r].kind) EXCEPT !.pc = at]
  PROVE  /\ q \in PlantWork
         /\ Well(q) /\ ~ Adds(q) /\ \A c : ~ Puts(q, c)
<1>1. rq[r].kind \in {"sort", "add", "rename", "delete"}
  BY PlantRequests DEF PlantWork
<1> QED BY <1>1, PlantOver

LEMMA PlantRefused ==
  ASSUME PlantInv, NEW r \in Trio, rq[r].kind # "none", Planting!Put(r, Planting!Refused(r)),
         Planting!Unwritten
  PROVE  PlantInv'
<1>1. PICK q : q = Planting!Refused(r) OBVIOUS
<1>2. q \in PlantWork /\ Well(q) /\ ~ Adds(q) /\ \A c : ~ Puts(q, c)
  BY <1>1, PlantEnds DEF Planting!Refused
<1> QED BY <1>1, <1>2, PlantUnwritten DEF Planting!Put, Planting!Unwritten

\* A request goes on to write, as it was asked or with the place that it read.
LEMMA PlantGoes ==
  ASSUME PlantInv, NEW r \in Trio, rq[r].kind # "none", rq[r].pc = "sent",
         NEW q \in {Planting!Goes(r), [Planting!Goes(r) EXCEPT !.had = {}]}
                     \cup {[Planting!Goes(r) EXCEPT !.parent = p] : p \in Cats \cup {"root"}}
  PROVE  q \in PlantWork /\ q.kind = rq[r].kind /\ q.cat = rq[r].cat /\ q.tree = rq[r].tree
         /\ q.pc = "read" /\ q.had \in {{}, rq[r].had}
<1>1. PICK w \in PlantWork : w = rq[r] BY PlantRequests
<1> QED BY <1>1 DEF PlantWork, Planting!Goes

LEMMA PlantSortRead ==
  ASSUME PlantInv, NEW r \in Trio, Planting!SortRead(r)
  PROVE  PlantInv'
<1>1. /\ rq[r].kind = "sort" /\ rq[r].pc = "sent" /\ Planting!Unwritten
      /\ Planting!Put(r, IF DOMAIN rq[r].tree \subseteq Planting!Stored THEN Planting!Goes(r)
                         ELSE Planting!Refused(r))
  BY DEF Planting!SortRead, Planting!Read
<1>2. CASE DOMAIN rq[r].tree \subseteq Planting!Stored
  <2>1. PICK q : q = Planting!Goes(r) OBVIOUS
  <2>2. q \in PlantWork /\ q.kind = "sort" /\ q.tree = rq[r].tree BY <1>1, <2>1, PlantGoes
  <2>3. Well(q) /\ ~ Adds(q) BY <2>2 DEF Well, Adds
  <2>4. \A s \in Trio \ {r} : Adds(rq[s]) => ~ Puts(q, rq[s].cat)
    BY <1>2, <2>2 DEF Puts, Adds, PlantInv, PlantsNew, Planting!Stored, Planting!Gone
  <2> QED BY <1>1, <1>2, <2>1, <2>2, <2>3, <2>4, PlantUnwritten DEF Planting!Put,
             Planting!Unwritten
<1>3. CASE ~ DOMAIN rq[r].tree \subseteq Planting!Stored BY <1>1, <1>3, PlantRefused
<1> QED BY <1>2, <1>3

LEMMA PlantAddRead ==
  ASSUME PlantInv, NEW r \in Trio, Planting!AddRead(r)
  PROVE  PlantInv'
<1>1. /\ rq[r].kind = "add" /\ rq[r].pc = "sent" /\ Planting!Unwritten
      /\ Planting!Put(r, IF rq[r].parent \in Planting!Stored \cup {Planting!Root} THEN Planting!Goes(r)
                         ELSE Planting!Refused(r))
  BY DEF Planting!AddRead, Planting!Read
<1>2. CASE rq[r].parent \in Planting!Stored \cup {Planting!Root}
  <2>1. PICK q : q = Planting!Goes(r) OBVIOUS
  <2>2. q \in PlantWork /\ q.kind = "add" /\ q.cat = rq[r].cat BY <1>1, <2>1, PlantGoes
  <2>3. Adds(rq[r]) /\ Well(rq[r]) BY <1>1, PlantRequests DEF Adds
  <2>4. Well(q) BY <1>1, <2>2, <2>3 DEF Well
  <2>5. \A s \in Trio \ {r} : Adds(rq[s]) => ~ Puts(q, rq[s].cat)
    BY <2>2, <2>3 DEF Puts, PlantInv, PlantsNew
  <2>6. rows[q.cat] = "gone" /\ \A s \in Trio \ {r} : ~ Puts(rq[s], q.cat)
    BY <2>2, <2>3 DEF PlantInv, PlantsNew
  <2> QED BY <1>1, <1>2, <2>1, <2>2, <2>4, <2>5, <2>6, PlantUnwritten
          DEF Planting!Put, Planting!Unwritten
<1>3. CASE rq[r].parent \notin Planting!Stored \cup {Planting!Root} BY <1>1, <1>3, PlantRefused
<1> QED BY <1>2, <1>3

LEMMA PlantRenameRead ==
  ASSUME PlantInv, NEW r \in Trio, Planting!RenameRead(r)
  PROVE  PlantInv'
<1>1. /\ rq[r].kind = "rename" /\ rq[r].pc = "sent" /\ Planting!Unwritten
      /\ Planting!Put(r, IF rq[r].cat \in Planting!Stored
                         THEN [Planting!Goes(r) EXCEPT !.parent = rows[rq[r].cat]]
                         ELSE Planting!Refused(r))
  BY DEF Planting!RenameRead, Planting!Read
<1>2. CASE rq[r].cat \in Planting!Stored
  <2>1. PICK p \in Cats \cup {"root"} : p = rows[rq[r].cat]
    BY <1>2 DEF Planting!Stored, Planting!Gone, PlantInv, PlantTypes
  <2>2. PICK q : q = [Planting!Goes(r) EXCEPT !.parent = p] OBVIOUS
  <2>3. q \in PlantWork /\ q.kind = "rename" /\ q.cat = rq[r].cat
    <3>1. q \in {[Planting!Goes(r) EXCEPT !.parent = o] : o \in Cats \cup {"root"}} BY <2>1, <2>2
    <3> QED BY <1>1, <3>1, PlantGoes
  <2>4. Well(q) /\ ~ Adds(q) BY <1>2, <2>3 DEF Well, Adds, Planting!Stored
  <2>5. \A s \in Trio \ {r} : Adds(rq[s]) => ~ Puts(q, rq[s].cat)
    BY <1>2, <2>3 DEF Puts, Adds, PlantInv, PlantsNew, Planting!Stored, Planting!Gone
  <2> QED BY <1>1, <1>2, <2>1, <2>2, <2>3, <2>4, <2>5, PlantUnwritten
          DEF Planting!Put, Planting!Unwritten
<1>3. CASE rq[r].cat \notin Planting!Stored BY <1>1, <1>3, PlantRefused
<1> QED BY <1>2, <1>3

LEMMA PlantDeleteRead ==
  ASSUME PlantInv, NEW r \in Trio, Planting!DeleteRead(r)
  PROVE  PlantInv'
<1>1. /\ rq[r].kind = "delete" /\ rq[r].pc = "sent" /\ Planting!Unwritten
      /\ Planting!Put(r, IF Planting!Deletable(rq[r].cat)
                         THEN [Planting!Goes(r) EXCEPT !.had = Planting!Children(rq[r].cat)]
                         ELSE Planting!Refused(r))
  BY DEF Planting!DeleteRead, Planting!Read
<1>2. CASE Planting!Deletable(rq[r].cat)
  <2>1. PICK q : q = [Planting!Goes(r) EXCEPT !.had = {}] OBVIOUS
  <2>2. /\ q \in PlantWork /\ q.kind = "delete" /\ q.cat = rq[r].cat /\ q.had \in {{}, rq[r].had}
        /\ q.pc = "read"
    BY <1>1, <2>1, PlantGoes
  <2>3. q.had = {}
    <3>1. PICK w \in PlantWork : w = rq[r] BY <1>1, PlantRequests
    <3> QED BY <2>1, <3>1 DEF PlantWork, Planting!Goes
  <2>4. Well(q) /\ ~ Adds(q) /\ \A c : ~ Puts(q, c)
    BY <1>1, <2>2, <2>3, PlantRequests DEF Well, Adds, Puts
  <2> QED BY <1>1, <1>2, <2>1, <2>2, <2>4, PlantUnwritten
          DEF Planting!Put, Planting!Unwritten, Planting!Deletable
<1>3. CASE ~ Planting!Deletable(rq[r].cat) BY <1>1, <1>3, PlantRefused
<1> QED BY <1>2, <1>3

\* What is written leaves the categories alone that others add.
LEMMA PlantWrites ==
  ASSUME PlantInv, NEW r \in Trio, NEW q, q = Planting!Done(r), rq[r].kind # "none",
         rq' = [rq EXCEPT ![r] = q],
         rows' \in [Cats -> Cats \cup {"root", "gone"}], astray' \in SUBSET Cats,
         \A c \in Cats : rows[c] = "gone" /\ rows'[c] # "gone" => Puts(rq[r], c),
         Hangs'
  PROVE  PlantInv'
<1>1. q \in PlantWork /\ Well(q) /\ ~ Adds(q) /\ \A c : ~ Puts(q, c)
  BY PlantEnds DEF Planting!Done
<1>2. \A s \in Trio \ {r} : Adds(rq[s]) => rows'[rq[s].cat] = "gone"
  <2> SUFFICES ASSUME NEW s \in Trio \ {r}, Adds(rq[s]) PROVE rows'[rq[s].cat] = "gone"
    OBVIOUS
  <2>1. rq[s].cat \in Cats BY DEF Adds, PlantInv, PlantsWell, Well
  <2>2. rows[rq[s].cat] = "gone" /\ ~ Puts(rq[r], rq[s].cat) BY DEF PlantInv, PlantsNew
  <2> QED BY <2>1, <2>2
<1> QED BY <1>1, <1>2, PlantPut

LEMMA PlantSortWrite ==
  ASSUME PlantInv, PlantConstants, NEW r \in Trio, Planting!SortWrite(r)
  PROVE  PlantInv'
<1>1. rq[r].kind = "sort" /\ rq[r].pc = "read" BY DEF Planting!SortWrite, Planting!Write
<1>2. rq[r] \in PlantWork BY <1>1, PlantRequests
<1>3. PICK t \in Planting!Trees : t = rq[r].tree BY <1>2 DEF PlantWork
<1>4. DOMAIN t \subseteq Cats /\ \A c \in DOMAIN t : t[c] \in Cats \cup {"root"}
  BY DEF Planting!Trees, Planting!Root
<1>5. Planting!Restrict(t, DOMAIN t \ DOMAIN t) = Planting!Empty
  BY DEF Planting!Restrict, Planting!Empty
<1>6. /\ rows' = [c \in Cats |-> IF c \in DOMAIN t THEN t[c] ELSE rows[c]]
      /\ astray' = astray \ DOMAIN t /\ Planting!Put(r, Planting!Done(r))
  BY <1>3, <1>5 DEF Planting!SortWrite, Planting!Commits
<1>7. Hangs' BY <1>6, HangsSorted
<1>8. rows' \in [Cats -> Cats \cup {"root", "gone"}] /\ astray' \in SUBSET Cats
  BY <1>4, <1>6 DEF PlantInv, PlantTypes
<1>9. \A c \in Cats : rows[c] = "gone" /\ rows'[c] # "gone" => Puts(rq[r], c)
  BY <1>1, <1>3, <1>6 DEF Puts
<1>10. PICK q : q = Planting!Done(r) OBVIOUS
<1> QED BY <1>1, <1>6, <1>7, <1>8, <1>9, <1>10, PlantWrites DEF Planting!Put

LEMMA PlantAddWrite ==
  ASSUME PlantInv, PlantConstants, NEW r \in Trio, Planting!AddWrite(r)
  PROVE  PlantInv'
<1>1. rq[r].kind = "add" /\ rq[r].pc = "read" BY DEF Planting!AddWrite, Planting!Write
<1>2. rq[r] \in PlantWork /\ Well(rq[r]) /\ Adds(rq[r]) BY <1>1, PlantRequests DEF Adds
<1>3. PICK c \in Cats : c = rq[r].cat BY <1>1, <1>2 DEF Well
<1>4. PICK p \in Cats \cup {"root"} : p = rq[r].parent BY <1>2 DEF PlantWork
<1>5. rows[c] = "gone" BY <1>2, <1>3 DEF PlantInv, PlantsNew
<1>6. /\ rows' = [rows EXCEPT ![c] = p] /\ Planting!Put(r, Planting!Done(r))
      /\ astray' = IF p \in Planting!Stored \cup {"root"} THEN astray ELSE astray \cup {c}
  BY <1>3, <1>4 DEF Planting!AddWrite, Planting!Root
<1>7. Hangs' BY <1>5, <1>6, HangsAdded
<1>8. rows' \in [Cats -> Cats \cup {"root", "gone"}] /\ astray' \in SUBSET Cats
  BY <1>6 DEF PlantInv, PlantTypes
<1>9. \A d \in Cats : rows[d] = "gone" /\ rows'[d] # "gone" => Puts(rq[r], d)
  BY <1>2, <1>3, <1>6 DEF Puts, PlantInv, PlantTypes
<1>10. PICK q : q = Planting!Done(r) OBVIOUS
<1> QED BY <1>1, <1>6, <1>7, <1>8, <1>9, <1>10, PlantWrites DEF Planting!Put

LEMMA PlantRenameWrite ==
  ASSUME PlantInv, PlantConstants, NEW r \in Trio, Planting!RenameWrite(r)
  PROVE  PlantInv'
<1>1. rq[r].kind = "rename" /\ rq[r].pc = "read" BY DEF Planting!RenameWrite, Planting!Write
<1>2. rq[r] \in PlantWork /\ Well(rq[r]) BY <1>1, PlantRequests
<1>3. PICK c \in Cats : c = rq[r].cat BY <1>1, <1>2 DEF Well
<1>4. PICK p \in Cats \cup {"root"} : p = rq[r].parent BY <1>2 DEF PlantWork
<1>5. /\ rows' = [rows EXCEPT ![c] = p] /\ Planting!Put(r, Planting!Done(r))
      /\ astray' = IF rows[c] = p THEN astray ELSE astray \cup {c}
  BY <1>3, <1>4 DEF Planting!RenameWrite
<1>6. Hangs' BY <1>5, HangsRenamed
<1>7. rows' \in [Cats -> Cats \cup {"root", "gone"}] /\ astray' \in SUBSET Cats
  BY <1>5 DEF PlantInv, PlantTypes
<1>8. \A d \in Cats : rows[d] = "gone" /\ rows'[d] # "gone" => Puts(rq[r], d)
  BY <1>1, <1>3, <1>5 DEF Puts, PlantInv, PlantTypes
<1>9. PICK q : q = Planting!Done(r) OBVIOUS
<1> QED BY <1>1, <1>5, <1>6, <1>7, <1>8, <1>9, PlantWrites DEF Planting!Put

LEMMA PlantDeleteWrite ==
  ASSUME PlantInv, PlantConstants, NEW r \in Trio, Planting!DeleteWrite(r)
  PROVE  PlantInv'
<1>1. rq[r].kind = "delete" /\ rq[r].pc = "read" BY DEF Planting!DeleteWrite, Planting!Write
<1>2. Well(rq[r]) BY <1>1, PlantRequests
<1>3. CASE rq[r].cat \in Planting!Stored
  <2>1. PICK c \in Cats : c = rq[r].cat BY <1>3 DEF Planting!Stored
  <2>2. rq[r].had = {} BY <1>1, <1>2 DEF Well
  <2>3. /\ rows' = [rows EXCEPT ![c] = "gone"] /\ Planting!Put(r, Planting!Done(r))
        /\ astray' = (astray \ {c}) \cup Planting!Children(c)
    BY <1>3, <2>1, <2>2 DEF Planting!DeleteWrite, Planting!Gone
  <2>4. Hangs' BY <2>3, HangsDeleted
  <2>5. rows' \in [Cats -> Cats \cup {"root", "gone"}] /\ astray' \in SUBSET Cats
    BY <2>3 DEF PlantInv, PlantTypes, Planting!Children, Planting!Stored
  <2>6. \A d \in Cats : rows[d] = "gone" /\ rows'[d] # "gone" => Puts(rq[r], d)
    BY <2>3 DEF PlantInv, PlantTypes
  <2>7. PICK q : q = Planting!Done(r) OBVIOUS
  <2> QED BY <1>1, <2>3, <2>4, <2>5, <2>6, <2>7, PlantWrites DEF Planting!Put
<1>4. CASE rq[r].cat \notin Planting!Stored
  BY <1>1, <1>4, PlantRefused DEF Planting!DeleteWrite
<1> QED BY <1>3, <1>4

LEMMA PlantGoWrong ==
  ASSUME PlantInv, NEW r \in Trio, Planting!GoWrong(r)
  PROVE  PlantInv'
<1>1. rq[r].kind # "none"
  BY PlantRequests DEF Planting!GoWrong, Planting!Free, Planting!Nothing, PlantWork
<1> QED BY <1>1, PlantRefused DEF Planting!GoWrong

LEMMA PlantAnswer ==
  ASSUME PlantInv, NEW r \in Trio, Planting!Answer(r)
  PROVE  PlantInv'
<1>1. PICK q : q = Planting!Free OBVIOUS
<1>2. Well(q) /\ ~ Adds(q) /\ \A c : ~ Puts(q, c)
  BY <1>1 DEF Planting!Free, Planting!Nothing, Well, Adds, Puts
<1> QED BY <1>1, <1>2, PlantUnwritten DEF Planting!Answer, Planting!Put, Planting!Unwritten

LEMMA PlantAsk ==
  ASSUME PlantInv, NEW r \in Trio, Planting!Ask(r)
  PROVE  PlantInv'
<1>1. Planting!Unwritten BY DEF Planting!Ask
<1>2. CASE \E t \in Planting!Trees \ {Planting!Empty} : Planting!Put(r, Planting!Sort(t))
  <2>1. PICK t \in Planting!Trees : Planting!Put(r, Planting!Sort(t)) BY <1>2
  <2>2. PICK q : q = Planting!Sort(t) OBVIOUS
  <2>3. q = [kind |-> "sort", pc |-> "sent", cat |-> "none", parent |-> "root", tree |-> t,
             had |-> {}]
    BY <2>2 DEF Planting!Sort, Planting!Request, Planting!Nothing, Planting!Root
  <2>4. q \in PlantWork BY <2>3, PlantMade
  <2>5. Well(q) /\ ~ Adds(q) /\ \A c : ~ Puts(q, c) BY <2>3 DEF Well, Adds, Puts
  <2> QED BY <1>1, <2>1, <2>2, <2>4, <2>5, PlantUnwritten DEF Planting!Put, Planting!Unwritten
<1>3. CASE \E c \in Planting!New, parent \in Cats \cup {Planting!Root} :
             Planting!Put(r, Planting!Add(c, parent))
  <2>1. PICK c \in Planting!New, parent \in Cats \cup {"root"} :
          Planting!Put(r, Planting!Add(c, parent))
    BY <1>3 DEF Planting!Root
  <2>2. PICK q : q = Planting!Add(c, parent) OBVIOUS
  <2>3. q = [kind |-> "add", pc |-> "sent", cat |-> c, parent |-> parent, tree |-> Planting!Empty,
             had |-> {}]
    BY <2>2 DEF Planting!Add, Planting!Request, Planting!Nothing, Planting!Root
  <2>4. c \in Cats /\ rows[c] = "gone" BY DEF Planting!New, Planting!Stored, Planting!Gone
  <2>5. q \in PlantWork
    <3>1. c \in Cats \cup {"none"} BY <2>4
    <3> QED BY <2>3, <3>1, PlantMade, PlantEmpty
  <2>6. \A s \in Trio : ~ Puts(rq[s], c)
    <3> SUFFICES ASSUME NEW s \in Trio, Puts(rq[s], c) PROVE FALSE
      OBVIOUS
    <3>1. s \in Planting!InProgress
      BY DEF Puts, Adds, Planting!InProgress, Planting!Nothing
    <3> QED BY <3>1 DEF Planting!New, Puts
  <2>7. \A s \in Trio \ {r} : Adds(rq[s]) => ~ Puts(q, rq[s].cat)
    BY <2>3, <2>6 DEF Puts, Adds
  <2>8. Well(q) /\ q.cat = c BY <2>3, <2>4 DEF Well
  <2> QED BY <1>1, <2>1, <2>2, <2>4, <2>5, <2>6, <2>7, <2>8, PlantUnwritten
          DEF Planting!Put, Planting!Unwritten
<1>4. CASE \E kind \in {"rename", "delete"}, c \in Cats : Planting!Put(r, Planting!About(kind, c))
  <2>1. PICK kind \in {"rename", "delete"}, c \in Cats :
          Planting!Put(r, Planting!About(kind, c))
    BY <1>4
  <2>2. PICK q : q = Planting!About(kind, c) OBVIOUS
  <2>3. q = [kind |-> kind, pc |-> "sent", cat |-> c, parent |-> "root", tree |-> Planting!Empty,
             had |-> {}]
    BY <2>2 DEF Planting!About, Planting!Request, Planting!Nothing, Planting!Root
  <2>4. q \in PlantWork
    <3>1. c \in Cats \cup {"none"} /\ kind \in {"sort", "add", "rename", "delete"} OBVIOUS
    <3> QED BY <2>3, <3>1, PlantMade, PlantEmpty
  <2>5. Well(q) /\ ~ Adds(q) /\ \A d : ~ Puts(q, d) BY <2>3 DEF Well, Adds, Puts
  <2> QED BY <1>1, <2>1, <2>2, <2>4, <2>5, PlantUnwritten DEF Planting!Put, Planting!Unwritten
<1> QED BY <1>2, <1>3, <1>4 DEF Planting!Ask

LEMMA PlantInit ==
  ASSUME Planting!Init
  PROVE  PlantInv
<1>1. \A r \in Trio : rq[r] = Planting!Free BY DEF Planting!Init
<1>2. PlantTypes BY DEF Planting!Init, Planting!Planted, Planting!Root, Planting!Gone, PlantTypes
<1>3. PlantsWell /\ PlantsNew
  BY <1>1 DEF PlantsWell, PlantsNew, Well, Adds, Planting!Free, Planting!Nothing
<1>4. Hangs
  BY DEF Planting!Init, Planting!Planted, Planting!Reached, Planting!Root, Planting!Gone,
         Planting!Stored, Hangs
<1> QED BY <1>2, <1>3, <1>4 DEF PlantInv

LEMMA PlantNext ==
  ASSUME PlantConstants, PlantInv, [Planting!Next]_(Planting!catVars)
  PROVE  PlantInv'
<1>1. CASE UNCHANGED Planting!catVars
  BY <1>1 DEF Planting!catVars, PlantInv, PlantTypes, PlantsWell, PlantsNew, Hangs, Puts,
              Planting!Upward, Planting!Stored
<1>2. CASE Planting!Next
  <2>1. PICK r \in Trio : Planting!Ask(r) \/ Planting!Handle(r) \/ Planting!Answer(r)
    BY <1>2 DEF Planting!Next
  <2> QED BY <2>1, PlantAsk, PlantAnswer, PlantGoWrong, PlantSortRead, PlantSortWrite,
             PlantAddRead, PlantAddWrite, PlantRenameRead, PlantRenameWrite, PlantDeleteRead,
             PlantDeleteWrite DEF Planting!Handle
<1> QED BY <1>1, <1>2

\* Whatever trees are sent by pages that do not know of each other's changes, no stored category
\* is cut from the root but by a row that was written blindly: CategoriesStay of Catalogue.
THEOREM CategoriesHang == Planting!Spec => []Planting!CategoriesStay
<1>1. Planting!Init => PlantInv BY PlantInit, ConstantsAssumption
<1>2. PlantInv /\ [Planting!Next]_(Planting!catVars) => PlantInv' BY PlantNext, ConstantsAssumption
<1>3. PlantInv => Planting!CategoriesStay BY PlantStays, ConstantsAssumption
<1> QED BY <1>1, <1>2, <1>3, PTL DEF Planting!Spec

\* The same of the behaviours of MCServer.
THEOREM CategoriesKept == Spec => []CategoriesStay
<1> DEFINE I == part = "plant" => PlantInv
<1>1. Init => I BY PlantInit, PartInit, ConstantsAssumption
<1>2. I /\ [Next]_<<part, vars>> => I' BY PlantNext, PartNext, ConstantsAssumption
<1>3. I => CategoriesStay BY PlantStays, ConstantsAssumption DEF CategoriesStay
<1> QED BY <1>1, <1>2, <1>3, PTL DEF Spec

-----------------------------------------------------------------------------
(* Strategies.                                                             *)

MaskSteps   == {"idle", "save", "delete", "flag", "purge", "commit", "online", "end"}
MaskReal    == [content : Contents, at : Nat, stop : BOOLEAN, deleted : BOOLEAN]
MaskVersion == MaskReal \cup {Masking!NoRow}
MaskRequest == [step : MaskSteps, id : Strategies \cup {None}, data : MaskVersion,
            list : [Strategies -> MaskVersion]]

MaskTypes ==
  /\ row \in [Strategies -> MaskVersion]
  /\ latest \in [Strategies -> MaskVersion]
  /\ gateway \in [Strategies -> Contents \cup {None}]
  /\ now \in 0 .. MaxSeconds
  /\ rq \in [Pair -> MaskRequest]
  /\ hazy \in SUBSET Strategies

\* A save has a strategy's next row in hand.
Saving(s, r) == rq[r].step = "save" /\ rq[r].id = s

SavesRows ==
  \A r \in Pair :
    /\ rq[r].step = "save" => rq[r].data \in MaskReal
    /\ rq[r].step \in {"save", "delete", "flag"} => rq[r].id \in Strategies

\* The versions of a strategy that there are: its row, and what was or may be published.
Written(s, v) ==
  v # Masking!NoRow /\ (v = row[s] \/ v = latest[s] \/ \E r \in Pair : v = rq[r].list[s])

Dated(s) ==
  /\ \A v \in MaskVersion : Written(s, v) => <<s, v.at>> \in used
  /\ \A r \in Pair : Saving(s, r) => <<s, rq[r].data.at>> \in used

\* Versions of one second are one version, flagged or not, and none is one that is
\* still to be written.
Alike(v, w) == v.content = w.content /\ v.stop = w.stop

Distinct(s) ==
  \A v, w \in MaskVersion : Written(s, v) /\ Written(s, w) /\ v.at = w.at => Alike(v, w)

Unwritten(s) ==
  \A r \in Pair : Saving(s, r) =>
    /\ \A v \in MaskVersion : Written(s, v) => v.at # rq[r].data.at
    /\ \A q \in Pair \ {r} : Saving(s, q) => rq[q].data.at # rq[r].data.at

\* A publish of s is past its purge.
Publishes(s, r) == rq[r].step \in {"commit", "online", "end"} /\ s \in Masking!Listed(r)

\* The row of a version that was deleted is gone.
Other(s, v) == row[s] = Masking!NoRow \/ row[s].at # v.at

Gone(s) ==
  /\ latest[s].deleted => Other(s, latest[s])
  /\ \A r \in Pair : Publishes(s, r) /\ rq[r].list[s].deleted => Other(s, rq[r].list[s])

\* The gateway is at the latest commit, or at the one that is about to be.
Applies(s, r) == rq[r].step = "end" /\ s \in Masking!Listed(r)

Gate(s) ==
  /\ \A r \in Pair : Applies(s, r) => gateway[s] = Masking!Served(rq[r].list[s])
  /\ (\A r \in Pair : ~ Applies(s, r)) => gateway[s] = Masking!Served(latest[s])

\* A row goes when what is published last, or about to be, is not applied.
Missing(s) ==
  row[s] = Masking!NoRow => \/ Masking!Served(latest[s]) = None
                            \/ \E r \in Pair : Publishes(s, r) /\ rq[r].list[s].deleted

\* A strategy's latest commit is locked by one publish at most.
Locks(s, r) == rq[r].step \in {"online", "end"} /\ s \in Masking!Listed(r)

Exclusive(s) == \A r, q \in Pair : Locks(s, r) /\ Locks(s, q) => r = q

Ages(s)   == Dated(s) /\ (s \notin hazy => Distinct(s) /\ Unwritten(s))
Stands(s) == s \notin hazy => Gone(s) /\ Gate(s) /\ Missing(s)

MaskInv ==
  /\ MaskTypes
  /\ SavesRows
  /\ \A s \in Strategies : Ages(s) /\ Stands(s) /\ Exclusive(s)

-----------------------------------------------------------------------------
LEMMA MaskConstant ==
  ASSUME None \notin Contents
  PROVE  Masking!NoRow \in MaskVersion /\ Masking!Idle \in MaskRequest /\ Masking!Served(Masking!NoRow) = None
         /\ Masking!Idle.step = "idle" /\ Masking!Idle.list = [s \in Strategies |-> Masking!NoRow]
         /\ Masking!NoRow \notin MaskReal /\ ~ Masking!NoRow.deleted
BY DEF Masking!NoRow, MaskVersion, MaskReal, Masking!Idle, MaskRequest, MaskSteps, Masking!Served

LEMMA MaskServed ==
  ASSUME NEW v \in MaskVersion
  PROVE  /\ Masking!Served(v) \in Contents \cup {None}
         /\ v.deleted => Masking!Served(v) = None
BY DEF MaskVersion, MaskReal, Masking!Served, Masking!NoRow

LEMMA MaskInit ==
  ASSUME Masking!Init, None \notin Contents, MaxSeconds \in Nat
  PROVE  MaskInv
<1>1. MaskTypes BY MaskConstant DEF Masking!Init, MaskTypes
<1>2. \A r \in Pair : rq[r] = Masking!Idle BY DEF Masking!Init
<1>3. SavesRows BY <1>2, MaskConstant DEF SavesRows
<1>4. \A s \in Strategies, v \in MaskVersion : ~ Written(s, v)
  BY <1>2, MaskConstant DEF Masking!Init, Written
<1>5. ASSUME NEW s \in Strategies PROVE Ages(s) /\ Stands(s) /\ Exclusive(s)
  <2>1. \A r \in Pair : /\ ~ Saving(s, r) /\ ~ Publishes(s, r)
                        /\ ~ Applies(s, r) /\ ~ Locks(s, r)
    BY <1>2, MaskConstant DEF Saving, Publishes, Applies, Locks
  <2>2. row[s] = Masking!NoRow /\ latest[s] = Masking!NoRow /\ gateway[s] = None
    BY DEF Masking!Init
  <2>3. Gate(s) /\ Missing(s) BY <2>1, <2>2, MaskConstant DEF Gate, Missing
  <2>4. Gone(s) BY <2>1, <2>2 DEF Gone, Other
  <2> QED BY <1>4, <2>1, <2>3, <2>4
           DEF Ages, Stands, Dated, Distinct, Unwritten, Exclusive
<1> QED BY <1>1, <1>3, <1>5 DEF MaskInv

\* A step after which there are the same versions, or fewer, which may be flagged
\* now, or no more.
LEMMA SameAges ==
  ASSUME NEW s \in Strategies, Ages(s), used \subseteq used', hazy \subseteq hazy',
         \A v \in MaskVersion : Written(s, v)' =>
            \E w \in MaskVersion : Written(s, w) /\ w.at = v.at /\ Alike(w, v),
         \A r \in Pair : Saving(s, r)' => Saving(s, r) /\ rq'[r].data = rq[r].data
  PROVE  Ages(s)'
<1>1. Dated(s)' BY DEF Ages, Dated
<1>2. ASSUME s \notin hazy' PROVE Distinct(s)' /\ Unwritten(s)'
  <2>1. Distinct(s) /\ Unwritten(s) BY <1>2 DEF Ages
  <2>2. Distinct(s)' BY <2>1 DEF Distinct, Alike
  <2>3. Unwritten(s)' BY <2>1 DEF Unwritten
  <2> QED BY <2>2, <2>3
<1> QED BY <1>1, <1>2 DEF Ages

\* A step that changes, of what the gateway is to apply, at most the row: to flag or
\* restore it, to take it away when it is not to be applied, or to write a new version.
LEMMA MaskRow ==
  ASSUME NEW s \in Strategies, MaskTypes, None \notin Contents,
         Gone(s), Gate(s), Missing(s),
         latest'[s] = latest[s], gateway'[s] = gateway[s],
         \A r \in Pair :
           /\ Publishes(s, r)' <=> Publishes(s, r)
           /\ Applies(s, r)' <=> Applies(s, r)
           /\ Publishes(s, r) => rq'[r].list[s] = rq[r].list[s],
         \/ row'[s] = row[s]
         \/ row'[s] # Masking!NoRow /\ row[s] # Masking!NoRow /\ row'[s].at = row[s].at
         \/ /\ row'[s] = Masking!NoRow
            /\ \/ Masking!Served(latest[s]) = None
               \/ \E r \in Pair : Publishes(s, r) /\ rq[r].list[s].deleted
         \/ row'[s] # Masking!NoRow /\ \A v \in MaskVersion : Written(s, v) => v.at # row'[s].at
  PROVE  Gone(s)' /\ Gate(s)' /\ Missing(s)'
<1>1. \A v \in MaskVersion : Written(s, v) /\ Other(s, v) => Other(s, v)'
  BY DEF Other
<1>2. latest[s] \in MaskVersion /\ \A r \in Pair : rq[r].list[s] \in MaskVersion
  BY DEF MaskTypes, MaskRequest
<1>3. Gone(s)'
  <2>1. latest[s].deleted => Other(s, latest[s])'
    BY <1>1, <1>2, MaskConstant DEF Gone, Written
  <2>2. ASSUME NEW r \in Pair, Publishes(s, r), rq[r].list[s].deleted
        PROVE  Other(s, rq[r].list[s])'
    <3>1. Other(s, rq[r].list[s]) BY <2>2 DEF Gone
    <3>2. Written(s, rq[r].list[s]) BY <2>2, MaskConstant DEF Written
    <3>3. rq'[r].list[s] = rq[r].list[s] BY <2>2
    <3> QED BY <1>1, <1>2, <3>1, <3>2, <3>3 DEF Other
  <2>3. latest'[s].deleted => Other(s, latest[s])' BY <2>1
  <2>4. \A r \in Pair : Publishes(s, r)' /\ rq'[r].list[s].deleted => Other(s, rq[r].list[s])'
    BY <2>2
  <2> QED BY <2>3, <2>4 DEF Gone, Other
<1>4. Gate(s)'
  <2>1. \A r \in Pair : Applies(s, r) => Publishes(s, r) BY DEF Applies, Publishes
  <2> QED BY <2>1 DEF Gate
<1>5. Missing(s)' BY <1>1 DEF Missing
<1> QED BY <1>3, <1>4, <1>5

LEMMA SameLocks ==
  ASSUME NEW s \in Strategies, Exclusive(s),
         \A r \in Pair : Locks(s, r)' => Locks(s, r)
  PROVE  Exclusive(s)'
BY DEF Exclusive

-----------------------------------------------------------------------------
(* The actions.                                                            *)

\* What no step of a publish does to a strategy it does not deal with.
LEMMA Undealt ==
  ASSUME NEW s \in Strategies, NEW r \in Pair, NEW q \in Pair, q # r,
         rq' = [rq EXCEPT ![r] = rq'[r]], rq \in [Pair -> MaskRequest]
  PROVE  /\ rq'[q] = rq[q]
         /\ Saving(s, q)' <=> Saving(s, q)
         /\ Publishes(s, q)' <=> Publishes(s, q)
         /\ Applies(s, q)' <=> Applies(s, q)
         /\ Locks(s, q)' <=> Locks(s, q)
BY DEF Saving, Publishes, Applies, Locks, Masking!Listed

\* A request begins that does not publish yet.
LEMMA MaskBegin ==
  ASSUME MaskInv, NEW r \in Pair, rq[r] = Masking!Idle, None \notin Contents,
         NEW new \in MaskRequest, rq' = [rq EXCEPT ![r] = new],
         new.step \in {"save", "delete", "flag", "purge"}
  PROVE  /\ rq' \in [Pair -> MaskRequest] /\ rq'[r] = new
         /\ \A s \in Strategies, q \in Pair :
              /\ Publishes(s, q)' <=> Publishes(s, q)
              /\ Applies(s, q)' <=> Applies(s, q)
              /\ Locks(s, q)' <=> Locks(s, q)
              /\ Publishes(s, q) => rq'[q].list[s] = rq[q].list[s]
              /\ q # r => rq'[q] = rq[q] /\ (Saving(s, q)' <=> Saving(s, q))
         /\ \A s \in Strategies : ~ Saving(s, r)
<1>1. rq' \in [Pair -> MaskRequest] /\ rq'[r] = new BY DEF MaskInv, MaskTypes
<1>2. \A s \in Strategies : /\ ~ Publishes(s, r) /\ ~ Applies(s, r) /\ ~ Locks(s, r)
                            /\ ~ Saving(s, r)
                            /\ ~ Publishes(s, r)' /\ ~ Applies(s, r)' /\ ~ Locks(s, r)'
  BY <1>1, MaskConstant DEF Publishes, Applies, Locks, Saving
<1>3. rq' = [rq EXCEPT ![r] = rq'[r]] /\ rq \in [Pair -> MaskRequest]
  BY <1>1 DEF MaskInv, MaskTypes
<1>4. ASSUME NEW s \in Strategies, NEW q \in Pair, q # r
      PROVE  /\ rq'[q] = rq[q]
             /\ Saving(s, q)' <=> Saving(s, q)
             /\ Publishes(s, q)' <=> Publishes(s, q)
             /\ Applies(s, q)' <=> Applies(s, q)
             /\ Locks(s, q)' <=> Locks(s, q)
  BY <1>3, <1>4, Undealt
<1> QED BY <1>1, <1>2, <1>4

\* Nothing happens to the rows, nor to what is written anew.
LEMMA QuietBegin ==
  ASSUME MaskInv, NEW r \in Pair, rq[r] = Masking!Idle, None \notin Contents,
         NEW new \in MaskRequest, rq' = [rq EXCEPT ![r] = new],
         new.step \in {"delete", "flag", "purge"},
         new.step # "purge" => new.id \in Strategies, new.list \in {row, Masking!Idle.list},
         UNCHANGED <<row, latest, gateway, now, used, hazy>>
  PROVE  MaskInv'
<1>1. /\ rq' \in [Pair -> MaskRequest] /\ rq'[r] = new
      /\ \A s \in Strategies, q \in Pair :
           /\ Publishes(s, q)' <=> Publishes(s, q)
           /\ Applies(s, q)' <=> Applies(s, q)
           /\ Locks(s, q)' <=> Locks(s, q)
           /\ Publishes(s, q) => rq'[q].list[s] = rq[q].list[s]
           /\ q # r => rq'[q] = rq[q] /\ (Saving(s, q)' <=> Saving(s, q))
  BY MaskBegin
<1>2. MaskTypes' BY <1>1 DEF MaskInv, MaskTypes
<1>3. SavesRows' BY <1>1 DEF MaskInv, SavesRows, MaskTypes
<1>4. ASSUME NEW s \in Strategies PROVE Ages(s)' /\ Stands(s)' /\ Exclusive(s)'
  <2>1. \A v \in MaskVersion : Written(s, v)' => Written(s, v)
    BY <1>1, MaskConstant DEF Written
  <2>2. ~ Saving(s, r)' BY <1>1 DEF Saving
  <2>3. Ages(s)' BY <1>1, <2>1, <2>2, SameAges DEF MaskInv, Alike
  <2>4. Stands(s)' BY <1>1, MaskRow DEF MaskInv, Stands
  <2>5. Exclusive(s)' BY <1>1, SameLocks DEF MaskInv
  <2> QED BY <2>3, <2>4, <2>5
<1> QED BY <1>2, <1>3, <1>4 DEF MaskInv

LEMMA MaskTick ==
  ASSUME MaskInv, Masking!Tick, None \notin Contents, MaxSeconds \in Nat
  PROVE  MaskInv'
<1>1. now' = now + 1 /\ now < MaxSeconds /\ UNCHANGED <<row, latest, gateway, rq, used, hazy>>
  BY DEF Masking!Tick
<1>2. MaskTypes' BY <1>1 DEF MaskInv, MaskTypes
<1>3. SavesRows' BY <1>1 DEF MaskInv, SavesRows
<1>4. ASSUME NEW s \in Strategies PROVE Ages(s)' /\ Stands(s)' /\ Exclusive(s)'
  <2>1. \A r \in Pair : /\ Saving(s, r)' <=> Saving(s, r)
                        /\ Publishes(s, r)' <=> Publishes(s, r)
                        /\ Applies(s, r)' <=> Applies(s, r)
                        /\ Locks(s, r)' <=> Locks(s, r)
    BY <1>1 DEF Saving, Publishes, Applies, Locks, Masking!Listed
  <2>2. \A v \in MaskVersion : Written(s, v)' <=> Written(s, v) BY <1>1 DEF Written
  <2>3. Ages(s)' BY <1>1, <2>1, <2>2, SameAges DEF MaskInv, Alike
  <2>4. Stands(s)' BY <1>1, <2>1, MaskRow DEF MaskInv, Stands
  <2>5. Exclusive(s)' BY <2>1, SameLocks DEF MaskInv
  <2> QED BY <2>3, <2>4, <2>5
<1> QED BY <1>2, <1>3, <1>4 DEF MaskInv

LEMMA MaskCreate ==
  ASSUME MaskInv, NEW t \in Strategies, NEW c \in Contents, Masking!Create(t, c),
         None \notin Contents, MaxSeconds \in Nat
  PROVE  MaskInv'
<1> DEFINE new == [content |-> c, at |-> now, stop |-> FALSE, deleted |-> FALSE]
<1>1. /\ row[t] = Masking!NoRow /\ \A d \in 0 .. MaxSeconds : <<t, d>> \notin used
      /\ row' = [row EXCEPT ![t] = new] /\ used' = used \cup {<<t, now>>}
      /\ UNCHANGED <<latest, gateway, now, rq, hazy>>
  BY DEF Masking!Create
<1>2. new \in MaskReal /\ now \in 0 .. MaxSeconds BY DEF MaskReal, MaskInv, MaskTypes
<1>3. new.at = now OBVIOUS
<1> HIDE DEF new
<1>4. row' \in [Strategies -> MaskVersion] /\ row'[t] = new
      /\ \A s \in Strategies \ {t} : row'[s] = row[s]
  BY <1>1, <1>2 DEF MaskInv, MaskTypes, MaskVersion
<1>5. MaskTypes' BY <1>1, <1>4 DEF MaskInv, MaskTypes
<1>6. SavesRows' BY <1>1 DEF MaskInv, SavesRows
<1>7. ASSUME NEW s \in Strategies PROVE Ages(s)' /\ Stands(s)' /\ Exclusive(s)'
  <2>1. \A r \in Pair : /\ Saving(s, r)' <=> Saving(s, r)
                        /\ Publishes(s, r)' <=> Publishes(s, r)
                        /\ Applies(s, r)' <=> Applies(s, r)
                        /\ Locks(s, r)' <=> Locks(s, r)
    BY <1>1 DEF Saving, Publishes, Applies, Locks, Masking!Listed
  <2>2. Exclusive(s)' BY <2>1, SameLocks DEF MaskInv
  <2>3. CASE s # t
    <3>1. \A v \in MaskVersion : Written(s, v)' <=> Written(s, v)
      BY <1>1, <1>4, <2>3 DEF Written
    <3>2. Ages(s)' BY <1>1, <2>1, <3>1, SameAges DEF MaskInv, Alike
    <3>3. Stands(s)' BY <1>1, <1>4, <2>1, <2>3, MaskRow DEF MaskInv, Stands
    <3> QED BY <2>2, <3>2, <3>3
  <2>4. CASE s = t
    <3>1. Dated(s) BY DEF MaskInv, Ages
    <3>2. \A v \in MaskVersion : Written(s, v) => v.at # now
      BY <1>1, <1>2, <2>4, <3>1 DEF Dated
    <3>3. \A r \in Pair : Saving(s, r) => rq[r].data.at # now
      BY <1>1, <1>2, <2>4, <3>1 DEF Dated
    <3>4. \A v \in MaskVersion : Written(s, v)' => v = new \/ Written(s, v)
      BY <1>1, <1>4, <2>4 DEF Written
    <3>5. Dated(s)' BY <1>1, <1>3, <2>1, <2>4, <3>1, <3>4 DEF Dated
    <3>6. ASSUME s \notin hazy PROVE Distinct(s)' /\ Unwritten(s)'
      <4>1. Distinct(s) /\ Unwritten(s) BY <3>6 DEF MaskInv, Ages
      <4>2. Distinct(s)' BY <1>3, <3>2, <3>4, <4>1 DEF Distinct, Alike
      <4>3. Unwritten(s)' BY <1>1, <1>3, <2>1, <3>3, <3>4, <4>1 DEF Unwritten
      <4> QED BY <4>2, <4>3
    <3>7. Ages(s)' BY <1>1, <3>5, <3>6 DEF Ages
    <3>8. row'[s] # Masking!NoRow BY <1>2, <1>4, <2>4, MaskConstant
    <3>9. Stands(s)' BY <1>1, <1>3, <1>4, <2>1, <2>4, <3>2, <3>8, MaskRow DEF MaskInv, Stands
    <3> QED BY <2>2, <3>7, <3>9
  <2> QED BY <2>3, <2>4
<1> QED BY <1>5, <1>6, <1>7 DEF MaskInv

LEMMA MaskSaveRead ==
  ASSUME MaskInv, NEW t \in Strategies, Masking!SaveRead(t), None \notin Contents, MaxSeconds \in Nat
  PROVE  MaskInv'
<1>1. PICK c \in Contents \cup {row[t].content}, stop \in BOOLEAN :
        Masking!Begin("save", t, Masking!Changed(row[t], c, stop), Masking!Idle.list)
  <2>1. row[t] \in MaskReal BY DEF Masking!SaveRead, MaskInv, MaskTypes, MaskVersion
  <2> QED BY <2>1 DEF Masking!SaveRead, MaskReal
<1> DEFINE data == Masking!Changed(row[t], c, stop)
           new == [step |-> "save", id |-> t, data |-> data, list |-> Masking!Idle.list]
<1>2. PICK r \in Pair : rq[r] = Masking!Idle /\ rq' = [rq EXCEPT ![r] = new]
  BY <1>1 DEF Masking!Begin
<1>3. /\ used' = used \cup {<<t, now>>}
      /\ hazy' = IF <<t, now>> \in used THEN hazy \cup {t} ELSE hazy
      /\ UNCHANGED <<row, latest, gateway, now>>
  BY DEF Masking!SaveRead
<1>4. data \in MaskReal /\ data.at = now
  <2>1. row[t] \in MaskReal BY DEF Masking!SaveRead, MaskInv, MaskTypes, MaskVersion
  <2>2. c \in Contents BY <2>1 DEF MaskReal
  <2>3. now \in Nat BY DEF MaskInv, MaskTypes
  <2> QED BY <2>1, <2>2, <2>3 DEF Masking!Changed, MaskReal
<1> HIDE DEF data
<1>5. Masking!Idle.list \in [Strategies -> MaskVersion] BY MaskConstant
<1>6. new \in MaskRequest BY <1>4, <1>5 DEF MaskRequest, MaskSteps, MaskVersion
<1>7. new.step = "save" /\ new.id = t /\ new.data = data /\ new.list = Masking!Idle.list OBVIOUS
<1> HIDE DEF new
<1>8. /\ rq' \in [Pair -> MaskRequest] /\ rq'[r] = new
      /\ \A s \in Strategies, q \in Pair :
           /\ Publishes(s, q)' <=> Publishes(s, q)
           /\ Applies(s, q)' <=> Applies(s, q)
           /\ Locks(s, q)' <=> Locks(s, q)
           /\ Publishes(s, q) => rq'[q].list[s] = rq[q].list[s]
           /\ q # r => rq'[q] = rq[q] /\ (Saving(s, q)' <=> Saving(s, q))
      /\ \A s \in Strategies : ~ Saving(s, r)
  BY <1>2, <1>6, <1>7, MaskBegin
<1>9. MaskTypes' BY <1>3, <1>8 DEF MaskInv, MaskTypes
<1>10. SavesRows' BY <1>4, <1>7, <1>8 DEF MaskInv, SavesRows
<1>11. ASSUME NEW s \in Strategies PROVE Ages(s)' /\ Stands(s)' /\ Exclusive(s)'
  <2>1. \A v \in MaskVersion : Written(s, v)' => Written(s, v)
    BY <1>3, <1>7, <1>8, MaskConstant DEF Written
  <2>2. Exclusive(s)' BY <1>8, SameLocks DEF MaskInv
  <2>3. Stands(s)' BY <1>3, <1>8, MaskRow DEF MaskInv, Stands
  <2>4. CASE s # t
    <3>1. ~ Saving(s, r)' BY <1>7, <1>8, <2>4 DEF Saving
    <3>2. Ages(s)' BY <1>3, <1>8, <2>1, <3>1, SameAges DEF MaskInv, Alike
    <3> QED BY <2>2, <2>3, <3>2
  <2>5. CASE s = t
    <3>1. Dated(s) BY DEF MaskInv, Ages
    <3>2. Dated(s)'
      <4>1. \A v \in MaskVersion : Written(s, v)' => <<s, v.at>> \in used'
        BY <1>3, <2>1, <3>1 DEF Dated
      <4>2. ASSUME NEW q \in Pair, Saving(s, q)' PROVE <<s, rq'[q].data.at>> \in used'
        <5>1. CASE q = r BY <1>3, <1>4, <1>7, <1>8, <2>5, <5>1
        <5>2. CASE q # r BY <1>3, <1>8, <3>1, <4>2, <5>2 DEF Dated
        <5> QED BY <5>1, <5>2
      <4> QED BY <4>1, <4>2 DEF Dated
    <3>3. ASSUME s \notin hazy' PROVE Distinct(s)' /\ Unwritten(s)'
      <4>1. <<s, now>> \notin used /\ s \notin hazy BY <1>3, <2>5, <3>3
      <4>2. Distinct(s) /\ Unwritten(s) BY <4>1 DEF MaskInv, Ages
      <4>3. Distinct(s)' BY <2>1, <4>2 DEF Distinct
      <4>4. /\ \A v \in MaskVersion : Written(s, v) => v.at # now
            /\ \A q \in Pair : Saving(s, q) => rq[q].data.at # now
        BY <3>1, <4>1 DEF Dated
      <4>5. ASSUME NEW q \in Pair, Saving(s, q)'
            PROVE  /\ \A v \in MaskVersion : Written(s, v)' => v.at # rq'[q].data.at
                   /\ \A p \in Pair \ {q} : Saving(s, p)' => rq'[p].data.at # rq'[q].data.at
        <5>1. CASE q = r
          <6>1. rq'[q].data.at = now BY <1>4, <1>7, <1>8, <5>1
          <6>2. \A p \in Pair \ {q} : Saving(s, p)' => rq'[p].data.at # now
            BY <1>8, <4>4, <5>1
          <6> QED BY <2>1, <4>4, <6>1, <6>2
        <5>2. CASE q # r
          <6>1. Saving(s, q) /\ rq'[q] = rq[q] BY <1>8, <4>5, <5>2
          <6>2. ASSUME NEW p \in Pair \ {q}, Saving(s, p)'
                PROVE  rq'[p].data.at # rq'[q].data.at
            <7>1. CASE p = r BY <1>4, <1>7, <1>8, <4>4, <6>1, <7>1
            <7>2. CASE p # r BY <1>8, <4>2, <6>1, <6>2, <7>2 DEF Unwritten
            <7> QED BY <7>1, <7>2
          <6> QED BY <2>1, <4>2, <6>1, <6>2 DEF Unwritten
        <5> QED BY <5>1, <5>2
      <4> QED BY <4>3, <4>5 DEF Unwritten
    <3>4. Ages(s)' BY <3>2, <3>3 DEF Ages
    <3> QED BY <2>2, <2>3, <3>4
  <2> QED BY <2>4, <2>5
<1> QED BY <1>9, <1>10, <1>11 DEF MaskInv

\* A request is forgotten, at any step of a publish.
LEMMA Forgotten ==
  ASSUME MaskInv, NEW r \in Pair, None \notin Contents, Masking!Done(r)
  PROVE  /\ rq' \in [Pair -> MaskRequest] /\ SavesRows'
         /\ \A s \in Strategies, q \in Pair :
              /\ Saving(s, q)' => q # r /\ Saving(s, q) /\ rq'[q].data = rq[q].data
              /\ q # r => /\ rq'[q] = rq[q]
                          /\ Publishes(s, q)' <=> Publishes(s, q)
                          /\ Applies(s, q)' <=> Applies(s, q)
                          /\ Locks(s, q)' <=> Locks(s, q)
         /\ \A s \in Strategies : ~ Publishes(s, r)' /\ ~ Applies(s, r)' /\ ~ Locks(s, r)'
         /\ \A s \in Strategies, q \in Pair, v \in MaskVersion :
              v # Masking!NoRow /\ v = rq'[q].list[s] => v = rq[q].list[s]
         /\ \A s \in Strategies : Exclusive(s)'
<1>1. /\ rq' = [rq EXCEPT ![r] = Masking!Idle] /\ rq' \in [Pair -> MaskRequest] /\ rq'[r] = Masking!Idle
      /\ \A q \in Pair \ {r} : rq'[q] = rq[q]
  BY MaskConstant DEF Masking!Done, MaskInv, MaskTypes
<1>2. \A s \in Strategies : /\ ~ Saving(s, r)'
                            /\ ~ Publishes(s, r)' /\ ~ Applies(s, r)' /\ ~ Locks(s, r)'
  BY <1>1, MaskConstant DEF Publishes, Applies, Locks, Saving
<1>3. rq' = [rq EXCEPT ![r] = rq'[r]] /\ rq \in [Pair -> MaskRequest]
  BY <1>1 DEF MaskInv, MaskTypes
<1>4. ASSUME NEW s \in Strategies, NEW q \in Pair, q # r
      PROVE  /\ rq'[q] = rq[q]
             /\ Saving(s, q)' <=> Saving(s, q)
             /\ Publishes(s, q)' <=> Publishes(s, q)
             /\ Applies(s, q)' <=> Applies(s, q)
             /\ Locks(s, q)' <=> Locks(s, q)
  BY <1>3, <1>4, Undealt
<1>5. SavesRows' BY <1>1, MaskConstant DEF MaskInv, SavesRows
<1>6. \A s \in Strategies : Exclusive(s)' BY <1>2, <1>4, SameLocks DEF MaskInv
<1>7. \A s \in Strategies, q \in Pair, v \in MaskVersion :
        v # Masking!NoRow /\ v = rq'[q].list[s] => v = rq[q].list[s]
  BY <1>1, MaskConstant
<1> QED BY <1>1, <1>2, <1>4, <1>5, <1>6, <1>7

\* A request that does not publish ends.
LEMMA EndsQuietly ==
  ASSUME MaskInv, NEW r \in Pair, None \notin Contents, Masking!Done(r),
         rq[r].step \in {"save", "delete", "flag", "purge"}
  PROVE  /\ rq' \in [Pair -> MaskRequest] /\ SavesRows'
         /\ \A s \in Strategies, q \in Pair :
              /\ Publishes(s, q)' <=> Publishes(s, q)
              /\ Applies(s, q)' <=> Applies(s, q)
              /\ Locks(s, q)' <=> Locks(s, q)
              /\ Publishes(s, q) => rq'[q].list[s] = rq[q].list[s]
              /\ Saving(s, q)' => q # r /\ Saving(s, q) /\ rq'[q].data = rq[q].data
         /\ \A s \in Strategies, q \in Pair, v \in MaskVersion :
              v # Masking!NoRow /\ v = rq'[q].list[s] => v = rq[q].list[s]
         /\ \A s \in Strategies : Exclusive(s)'
<1>1. \A s \in Strategies : ~ Publishes(s, r) /\ ~ Applies(s, r) /\ ~ Locks(s, r)
  BY DEF Publishes, Applies, Locks
<1> QED BY <1>1, Forgotten

LEMMA MaskSaveWrite ==
  ASSUME MaskInv, NEW r \in Pair, Masking!SaveWrite(r), None \notin Contents
  PROVE  MaskInv'
<1> DEFINE t == rq[r].id
           data == rq[r].data
<1>1. /\ rq[r].step = "save" /\ row' = [row EXCEPT ![t] = data] /\ Masking!Done(r)
      /\ UNCHANGED <<latest, gateway, now, used, hazy>>
  BY DEF Masking!SaveWrite
<1>2. t \in Strategies /\ data \in MaskReal BY <1>1 DEF MaskInv, SavesRows
<1>3. Saving(t, r) BY <1>1 DEF Saving
<1> HIDE DEF t
<1>4. /\ row' \in [Strategies -> MaskVersion] /\ row'[t] = data
      /\ \A s \in Strategies \ {t} : row'[s] = row[s]
  BY <1>1, <1>2 DEF MaskInv, MaskTypes, MaskVersion
<1> HIDE DEF data
<1>5. /\ rq' \in [Pair -> MaskRequest] /\ SavesRows'
      /\ \A s \in Strategies, q \in Pair :
           /\ Publishes(s, q)' <=> Publishes(s, q)
           /\ Applies(s, q)' <=> Applies(s, q)
           /\ Publishes(s, q) => rq'[q].list[s] = rq[q].list[s]
           /\ Saving(s, q)' => q # r /\ Saving(s, q) /\ rq'[q].data = rq[q].data
      /\ \A s \in Strategies, q \in Pair, v \in MaskVersion :
           v # Masking!NoRow /\ v = rq'[q].list[s] => v = rq[q].list[s]
      /\ \A s \in Strategies : Exclusive(s)'
  BY <1>1, EndsQuietly
<1>6. MaskTypes' BY <1>1, <1>4, <1>5 DEF MaskInv, MaskTypes
<1>7. ASSUME NEW s \in Strategies PROVE Ages(s)' /\ Stands(s)'
  <2>1. CASE s # t
    <3>1. \A v \in MaskVersion : Written(s, v)' => Written(s, v)
      BY <1>1, <1>4, <1>5, <2>1 DEF Written
    <3>2. Ages(s)' BY <1>1, <1>5, <3>1, SameAges DEF MaskInv, Alike
    <3>3. Stands(s)' BY <1>1, <1>4, <1>5, <2>1, MaskRow DEF MaskInv, Stands
    <3> QED BY <3>2, <3>3
  <2>2. CASE s = t
    <3>1. \A v \in MaskVersion : Written(s, v)' => v = data \/ Written(s, v)
      BY <1>1, <1>4, <1>5, <2>2 DEF Written
    <3>2. Dated(s)' BY <1>1, <1>3, <1>5, <2>2, <3>1 DEF MaskInv, Ages, Dated, data
    <3>3. ASSUME s \notin hazy
          PROVE  Distinct(s) /\ Unwritten(s) /\ \A v \in MaskVersion : Written(s, v) => v.at # data.at
      BY <1>3, <2>2, <3>3 DEF MaskInv, Ages, Unwritten, data
    <3>4. ASSUME s \notin hazy PROVE Distinct(s)' /\ Unwritten(s)'
      <4>1. Distinct(s)' BY <3>1, <3>3, <3>4 DEF Distinct, Alike
      <4>2. Unwritten(s)' BY <1>3, <1>5, <2>2, <3>1, <3>3, <3>4 DEF Unwritten, data
      <4> QED BY <4>1, <4>2
    <3>5. Ages(s)' BY <1>1, <3>2, <3>4 DEF Ages
    <3>6. row'[s] # Masking!NoRow BY <1>2, <1>4, <2>2, MaskConstant
    <3>7. Stands(s)' BY <1>1, <1>4, <1>5, <2>2, <3>3, <3>6, MaskRow DEF MaskInv, Stands
    <3> QED BY <3>5, <3>7
  <2> QED BY <2>1, <2>2
<1> QED BY <1>5, <1>6, <1>7 DEF MaskInv

LEMMA MaskDeleteWrite ==
  ASSUME MaskInv, NEW r \in Pair, Masking!DeleteWrite(r), None \notin Contents
  PROVE  MaskInv'
<1> DEFINE t == rq[r].id
           flagged == [row[t] EXCEPT !.deleted = TRUE]
<1>1. /\ rq[r].step \in {"delete", "flag"} /\ Masking!Done(r)
      /\ UNCHANGED <<latest, gateway, now, used>>
      /\ \/ /\ row' = [row EXCEPT ![t] = Masking!NoRow]
            /\ hazy' = IF latest[t] = Masking!NoRow THEN hazy ELSE hazy \cup {t}
         \/ /\ row' = IF row[t] = Masking!NoRow THEN row ELSE [row EXCEPT ![t] = flagged]
            /\ hazy' = hazy
  BY DEF Masking!DeleteWrite
<1>2. t \in Strategies BY <1>1 DEF MaskInv, SavesRows
<1> HIDE DEF t
<1>3. row[t] # Masking!NoRow => flagged \in MaskReal /\ flagged.at = row[t].at /\ Alike(row[t], flagged)
  BY <1>2 DEF MaskInv, MaskTypes, MaskVersion, MaskReal, Alike
<1> HIDE DEF flagged
<1>4. row' \in [Strategies -> MaskVersion] /\ hazy \subseteq hazy' /\ hazy' \in SUBSET Strategies
  BY <1>1, <1>3, <1>2, MaskConstant DEF MaskInv, MaskTypes, MaskVersion
<1>5. /\ rq' \in [Pair -> MaskRequest] /\ SavesRows'
      /\ \A s \in Strategies, q \in Pair :
           /\ Publishes(s, q)' <=> Publishes(s, q)
           /\ Applies(s, q)' <=> Applies(s, q)
           /\ Publishes(s, q) => rq'[q].list[s] = rq[q].list[s]
           /\ Saving(s, q)' => q # r /\ Saving(s, q) /\ rq'[q].data = rq[q].data
      /\ \A s \in Strategies, q \in Pair, v \in MaskVersion :
           v # Masking!NoRow /\ v = rq'[q].list[s] => v = rq[q].list[s]
      /\ \A s \in Strategies : Exclusive(s)'
  BY <1>1, EndsQuietly
<1>6. MaskTypes' BY <1>1, <1>4, <1>5 DEF MaskInv, MaskTypes
<1>7. ASSUME NEW s \in Strategies PROVE Ages(s)' /\ Stands(s)'
  <2>1. \/ row'[s] = row[s]
        \/ s = t /\ row[s] # Masking!NoRow /\ row'[s] = flagged
        \/ s = t /\ row'[s] = Masking!NoRow /\ (s \notin hazy' => latest[s] = Masking!NoRow)
    BY <1>1, <1>2 DEF MaskInv, MaskTypes
  <2>2. \A v \in MaskVersion : Written(s, v)' =>
          \E w \in MaskVersion : Written(s, w) /\ w.at = v.at /\ Alike(w, v)
    <3> TAKE v \in MaskVersion
    <3> HAVE Written(s, v)'
    <3>1. CASE Written(s, v) BY <3>1 DEF Alike
    <3>2. CASE ~ Written(s, v)
      <4>1. v = row'[s] /\ v # Masking!NoRow BY <1>1, <1>5, <3>2 DEF Written
      <4>2. s = t /\ row[s] # Masking!NoRow /\ v = flagged BY <2>1, <3>2, <4>1 DEF Written
      <4>3. row[s] \in MaskVersion /\ Written(s, row[s]) BY <4>2 DEF MaskInv, MaskTypes, Written
      <4> QED BY <1>3, <4>2, <4>3
    <3> QED BY <3>1, <3>2
  <2>3. Ages(s)' BY <1>1, <1>4, <1>5, <2>2, SameAges DEF MaskInv
  <2>4. ASSUME s \notin hazy' PROVE Gone(s)' /\ Gate(s)' /\ Missing(s)'
    <3>1. Gone(s) /\ Gate(s) /\ Missing(s) BY <1>4, <2>4 DEF MaskInv, Stands
    <3>2. \/ row'[s] = row[s]
          \/ row'[s] # Masking!NoRow /\ row[s] # Masking!NoRow /\ row'[s].at = row[s].at
          \/ row'[s] = Masking!NoRow /\ Masking!Served(latest[s]) = None
      BY <1>3, <2>1, <2>4, MaskConstant
    <3> QED BY <1>1, <1>5, <3>1, <3>2, MaskRow DEF MaskInv
  <2> QED BY <2>3, <2>4 DEF Stands
<1> QED BY <1>5, <1>6, <1>7 DEF MaskInv

LEMMA MaskRestore ==
  ASSUME MaskInv, NEW t \in Strategies, Masking!Restore(t), None \notin Contents
  PROVE  MaskInv'
<1> DEFINE restored == [row[t] EXCEPT !.deleted = FALSE]
<1>1. /\ row[t].deleted /\ row' = [row EXCEPT ![t] = restored]
      /\ UNCHANGED <<latest, gateway, now, rq, used, hazy>>
  BY DEF Masking!Restore
<1>2. row[t] \in MaskReal BY <1>1, MaskConstant DEF MaskInv, MaskTypes, MaskVersion
<1>3. restored \in MaskReal /\ restored.at = row[t].at /\ Alike(row[t], restored)
  BY <1>2 DEF MaskReal, Alike
<1> HIDE DEF restored
<1>4. /\ row' \in [Strategies -> MaskVersion] /\ row'[t] = restored
      /\ \A s \in Strategies \ {t} : row'[s] = row[s]
  BY <1>1, <1>3 DEF MaskInv, MaskTypes, MaskVersion
<1>5. MaskTypes' BY <1>1, <1>4 DEF MaskInv, MaskTypes
<1>6. SavesRows' BY <1>1 DEF MaskInv, SavesRows
<1>7. ASSUME NEW s \in Strategies PROVE Ages(s)' /\ Stands(s)' /\ Exclusive(s)'
  <2>1. \A r \in Pair : /\ Saving(s, r)' <=> Saving(s, r)
                        /\ Publishes(s, r)' <=> Publishes(s, r)
                        /\ Applies(s, r)' <=> Applies(s, r)
                        /\ Locks(s, r)' <=> Locks(s, r)
    BY <1>1 DEF Saving, Publishes, Applies, Locks, Masking!Listed
  <2>2. \A v \in MaskVersion : Written(s, v)' =>
          \E w \in MaskVersion : Written(s, w) /\ w.at = v.at /\ Alike(w, v)
    <3> TAKE v \in MaskVersion
    <3> HAVE Written(s, v)'
    <3>1. CASE Written(s, v) BY <3>1 DEF Alike
    <3>2. CASE ~ Written(s, v)
      <4>1. v = row'[s] /\ v # Masking!NoRow BY <1>1, <3>2 DEF Written
      <4>2. s = t /\ v = restored BY <1>4, <3>2, <4>1 DEF Written
      <4>3. row[s] \in MaskVersion /\ Written(s, row[s])
        BY <1>2, <4>2, MaskConstant DEF MaskInv, MaskTypes, Written
      <4> QED BY <1>3, <4>2, <4>3
    <3> QED BY <3>1, <3>2
  <2>3. Ages(s)' BY <1>1, <2>1, <2>2, SameAges DEF MaskInv
  <2>4. \/ row'[s] = row[s]
        \/ row'[s] # Masking!NoRow /\ row[s] # Masking!NoRow /\ row'[s].at = row[s].at
    BY <1>2, <1>3, <1>4, MaskConstant
  <2>5. Stands(s)' BY <1>1, <2>1, <2>4, MaskRow DEF MaskInv, Stands
  <2>6. Exclusive(s)' BY <2>1, SameLocks DEF MaskInv
  <2> QED BY <2>3, <2>5, <2>6
<1> QED BY <1>5, <1>6, <1>7 DEF MaskInv

LEMMA MaskDeleteRead ==
  ASSUME MaskInv, NEW t \in Strategies, Masking!DeleteRead(t), None \notin Contents
  PROVE  MaskInv'
<1> DEFINE new == [step |-> IF latest[t] = Masking!NoRow THEN "delete" ELSE "flag", id |-> t,
                   data |-> Masking!NoRow, list |-> Masking!Idle.list]
<1>1. PICK r \in Pair : rq[r] = Masking!Idle /\ rq' = [rq EXCEPT ![r] = new]
  BY DEF Masking!DeleteRead, Masking!Begin
<1>2. UNCHANGED <<row, latest, gateway, now, used, hazy>> BY DEF Masking!DeleteRead
<1>3. Masking!Idle.list \in [Strategies -> MaskVersion] /\ Masking!NoRow \in MaskVersion
  BY MaskConstant
<1>4. new \in MaskRequest /\ new.step \in {"delete", "flag"} /\ new.id \in Strategies
      /\ new.list = Masking!Idle.list
  BY <1>3 DEF MaskRequest, MaskSteps
<1> HIDE DEF new
<1> QED BY <1>1, <1>2, <1>4, QuietBegin

LEMMA MaskPublishRead ==
  ASSUME MaskInv, Masking!PublishRead, None \notin Contents
  PROVE  MaskInv'
<1> DEFINE new == [step |-> "purge", id |-> None, data |-> Masking!NoRow, list |-> row]
<1>1. PICK r \in Pair : rq[r] = Masking!Idle /\ rq' = [rq EXCEPT ![r] = new]
  BY DEF Masking!PublishRead, Masking!Begin
<1>2. UNCHANGED <<row, latest, gateway, now, used, hazy>> BY DEF Masking!PublishRead
<1>3. row \in [Strategies -> MaskVersion] /\ Masking!NoRow \in MaskVersion
  BY MaskConstant DEF MaskInv, MaskTypes
<1>4. new \in MaskRequest /\ new.step = "purge" /\ new.list = row
  BY <1>3 DEF MaskRequest, MaskSteps
<1> HIDE DEF new
<1> QED BY <1>1, <1>2, <1>4, QuietBegin

\* What there is of request r after a step of its publish.
LEMMA MaskPublish ==
  ASSUME MaskInv, NEW r \in Pair, NEW to \in MaskSteps \ {"save", "delete", "flag"},
         rq[r].step # "save",
         rq' = [rq EXCEPT ![r].step = to]
  PROVE  /\ rq' \in [Pair -> MaskRequest] /\ SavesRows'
         /\ rq'[r].step = to /\ \A q \in Pair : rq'[q].list = rq[q].list
         /\ Masking!Listed(r)' = Masking!Listed(r)
         /\ \A s \in Strategies, q \in Pair :
              /\ Saving(s, q)' => Saving(s, q) /\ rq'[q].data = rq[q].data
              /\ q # r => /\ Publishes(s, q)' <=> Publishes(s, q)
                          /\ Applies(s, q)' <=> Applies(s, q)
                          /\ Locks(s, q)' <=> Locks(s, q)
<1>1. /\ rq' \in [Pair -> MaskRequest] /\ rq'[r] = [rq[r] EXCEPT !.step = to]
      /\ \A q \in Pair \ {r} : rq'[q] = rq[q]
  BY DEF MaskInv, MaskTypes, MaskRequest
<1>2. rq'[r].step = to /\ rq'[r].list = rq[r].list /\ rq'[r].data = rq[r].data
      /\ rq'[r].id = rq[r].id
  BY <1>1 DEF MaskInv, MaskTypes, MaskRequest
<1>3. rq' = [rq EXCEPT ![r] = rq'[r]] /\ rq \in [Pair -> MaskRequest]
  BY <1>1 DEF MaskInv, MaskTypes
<1>4. ASSUME NEW s \in Strategies, NEW q \in Pair, q # r
      PROVE  /\ rq'[q] = rq[q]
             /\ Saving(s, q)' <=> Saving(s, q)
             /\ Publishes(s, q)' <=> Publishes(s, q)
             /\ Applies(s, q)' <=> Applies(s, q)
             /\ Locks(s, q)' <=> Locks(s, q)
  BY <1>3, <1>4, Undealt
<1>5. \A s \in Strategies : ~ Saving(s, r)' BY <1>2 DEF Saving
<1>6. SavesRows' BY <1>1, <1>2 DEF MaskInv, SavesRows
<1>7. Masking!Listed(r)' = Masking!Listed(r) BY <1>2 DEF Masking!Listed
<1> QED BY <1>1, <1>2, <1>4, <1>5, <1>6, <1>7

LEMMA MaskPurge ==
  ASSUME MaskInv, NEW r \in Pair, Masking!PublishPurge(r), None \notin Contents
  PROVE  MaskInv'
<1>1. /\ rq[r].step = "purge" /\ row' = Masking!Without(Masking!Flagged(r))
      /\ rq' = [rq EXCEPT ![r].step = "commit"]
      /\ UNCHANGED <<latest, gateway, now, used, hazy>>
  BY DEF Masking!PublishPurge
<1>2. /\ rq' \in [Pair -> MaskRequest] /\ SavesRows'
      /\ rq'[r].step = "commit" /\ \A q \in Pair : rq'[q].list = rq[q].list
      /\ Masking!Listed(r)' = Masking!Listed(r)
      /\ \A s \in Strategies, q \in Pair :
           /\ Saving(s, q)' => Saving(s, q) /\ rq'[q].data = rq[q].data
           /\ q # r => /\ Publishes(s, q)' <=> Publishes(s, q)
                       /\ Applies(s, q)' <=> Applies(s, q)
                       /\ Locks(s, q)' <=> Locks(s, q)
  BY <1>1, MaskPublish DEF MaskSteps
<1>3. row' \in [Strategies -> MaskVersion] BY <1>1, MaskConstant DEF Masking!Without, MaskInv,
    MaskTypes
<1>4. MaskTypes' BY <1>1, <1>2, <1>3 DEF MaskInv, MaskTypes
<1>5. ASSUME NEW s \in Strategies PROVE Ages(s)' /\ Stands(s)' /\ Exclusive(s)'
  <2>1. \/ row'[s] = row[s] /\ s \notin Masking!Flagged(r)
        \/ row'[s] = Masking!NoRow /\ s \in Masking!Flagged(r)
    BY <1>1 DEF Masking!Without
  <2>2. \A v \in MaskVersion : Written(s, v)' => Written(s, v)
    BY <1>1, <1>2, <2>1 DEF Written
  <2>3. Ages(s)' BY <1>1, <1>2, <2>2, SameAges DEF MaskInv, Alike
  <2>4. /\ ~ Publishes(s, r) /\ ~ Applies(s, r) /\ ~ Applies(s, r)'
        /\ ~ Locks(s, r) /\ ~ Locks(s, r)'
        /\ Publishes(s, r)' <=> s \in Masking!Listed(r)
    BY <1>1, <1>2 DEF Publishes, Applies, Locks
  <2>5. Exclusive(s)' BY <1>2, <2>4, SameLocks DEF MaskInv
  <2>6. ASSUME s \notin hazy PROVE Gone(s)' /\ Gate(s)' /\ Missing(s)'
    <3>1. Gone(s) /\ Gate(s) /\ Missing(s) BY <2>6 DEF MaskInv, Stands
    <3>2. \A v \in MaskVersion : Other(s, v) => Other(s, v)' BY <2>1 DEF Other
    <3>3. latest[s] \in MaskVersion /\ \A q \in Pair : rq[q].list[s] \in MaskVersion
      BY DEF MaskInv, MaskTypes, MaskRequest
    <3>4. Gone(s)'
      <4>1. latest'[s].deleted => row'[s] = Masking!NoRow \/ row'[s].at # latest'[s].at
        BY <1>1, <2>1, <3>1 DEF Gone, Other
      <4>2. ASSUME NEW q \in Pair, Publishes(s, q)', rq'[q].list[s].deleted
            PROVE  row'[s] = Masking!NoRow \/ row'[s].at # rq'[q].list[s].at
        <5>1. CASE q # r BY <1>2, <2>1, <3>1, <4>2, <5>1 DEF Gone, Other
        <5>2. CASE q = r
          <6>1. s \in Masking!Flagged(r) BY <1>2, <2>4, <4>2, <5>2 DEF Masking!Flagged
          <6> QED BY <2>1, <6>1
        <5> QED BY <5>1, <5>2
      <4> QED BY <4>1, <4>2 DEF Gone, Other
    <3>5. Gate(s)' BY <1>1, <1>2, <2>4, <3>1 DEF Gate
    <3>6. Missing(s)'
      <4>1. CASE s \in Masking!Flagged(r)
        <5>1. Publishes(s, r)' /\ rq'[r].list[s].deleted
          BY <1>2, <2>4, <4>1 DEF Masking!Flagged
        <5> QED BY <5>1 DEF Missing
      <4>2. CASE s \notin Masking!Flagged(r)
        <5>1. row'[s] = row[s] BY <2>1, <4>2
        <5>2. \A q \in Pair : Publishes(s, q) => Publishes(s, q)' BY <1>2, <2>4
        <5> QED BY <1>1, <1>2, <3>1, <5>1, <5>2 DEF Missing
      <4> QED BY <4>1, <4>2
    <3> QED BY <3>4, <3>5, <3>6
  <2>7. Stands(s)' BY <1>1, <2>6 DEF Stands
  <2> QED BY <2>3, <2>5, <2>7
<1> QED BY <1>2, <1>4, <1>5 DEF MaskInv

LEMMA MaskCommits ==
  ASSUME MaskInv, NEW r \in Pair, Masking!PublishCommits(r), None \notin Contents
  PROVE  MaskInv'
<1>1. /\ rq[r].step = "commit" /\ Masking!Listed(r) \cap Masking!Locked = {}
      /\ rq' = [rq EXCEPT ![r].step = "online"]
      /\ UNCHANGED <<row, latest, gateway, now, used, hazy>>
  BY DEF Masking!PublishCommits
<1>2. /\ rq' \in [Pair -> MaskRequest] /\ SavesRows'
      /\ rq'[r].step = "online" /\ \A q \in Pair : rq'[q].list = rq[q].list
      /\ Masking!Listed(r)' = Masking!Listed(r)
      /\ \A s \in Strategies, q \in Pair :
           /\ Saving(s, q)' => Saving(s, q) /\ rq'[q].data = rq[q].data
           /\ q # r => /\ Publishes(s, q)' <=> Publishes(s, q)
                       /\ Applies(s, q)' <=> Applies(s, q)
                       /\ Locks(s, q)' <=> Locks(s, q)
  BY <1>1, MaskPublish DEF MaskSteps
<1>3. MaskTypes' BY <1>1, <1>2 DEF MaskInv, MaskTypes
<1>4. ASSUME NEW s \in Strategies PROVE Ages(s)' /\ Stands(s)' /\ Exclusive(s)'
  <2>1. \A v \in MaskVersion : Written(s, v)' => Written(s, v) BY <1>1, <1>2 DEF Written
  <2>2. Ages(s)' BY <1>1, <1>2, <2>1, SameAges DEF MaskInv, Alike
  <2>3. /\ Publishes(s, r)' <=> Publishes(s, r)
        /\ ~ Applies(s, r) /\ ~ Applies(s, r)'
        /\ Locks(s, r)' => s \in Masking!Listed(r)
    BY <1>1, <1>2 DEF Publishes, Applies, Locks
  <2>4. Stands(s)' BY <1>1, <1>2, <2>3, MaskRow DEF MaskInv, Stands
  <2>5. ASSUME NEW q \in Pair, s \in Masking!Listed(r) PROVE ~ Locks(s, q)
    BY <1>1, <2>5 DEF Locks, Masking!Locked
  <2>6. Exclusive(s)' BY <1>2, <2>3, <2>5 DEF MaskInv, Exclusive
  <2> QED BY <2>2, <2>4, <2>6
<1> QED BY <1>2, <1>3, <1>4 DEF MaskInv

LEMMA MaskOnline ==
  ASSUME MaskInv, NEW r \in Pair, Masking!PublishOnline(r), None \notin Contents
  PROVE  MaskInv'
<1>1. /\ rq[r].step = "online" /\ gateway' = Masking!Applied(r)
      /\ rq' = [rq EXCEPT ![r].step = "end"]
      /\ UNCHANGED <<row, latest, now, used, hazy>>
  BY DEF Masking!PublishOnline
<1>2. /\ rq' \in [Pair -> MaskRequest] /\ SavesRows'
      /\ rq'[r].step = "end" /\ \A q \in Pair : rq'[q].list = rq[q].list
      /\ Masking!Listed(r)' = Masking!Listed(r)
      /\ \A s \in Strategies, q \in Pair :
           /\ Saving(s, q)' => Saving(s, q) /\ rq'[q].data = rq[q].data
           /\ q # r => /\ Publishes(s, q)' <=> Publishes(s, q)
                       /\ Applies(s, q)' <=> Applies(s, q)
                       /\ Locks(s, q)' <=> Locks(s, q)
  BY <1>1, MaskPublish DEF MaskSteps
<1>3. \A s \in Strategies : rq[r].list[s] \in MaskVersion BY DEF MaskInv, MaskTypes, MaskRequest
<1>4. gateway' \in [Strategies -> Contents \cup {None}]
  BY <1>1, <1>3, MaskServed DEF Masking!Applied, MaskInv, MaskTypes
<1>5. MaskTypes' BY <1>1, <1>2, <1>4 DEF MaskInv, MaskTypes
<1>6. ASSUME NEW s \in Strategies PROVE Ages(s)' /\ Stands(s)' /\ Exclusive(s)'
  <2>1. \A v \in MaskVersion : Written(s, v)' => Written(s, v) BY <1>1, <1>2 DEF Written
  <2>2. Ages(s)' BY <1>1, <1>2, <2>1, SameAges DEF MaskInv, Alike
  <2>3. /\ Publishes(s, r)' <=> Publishes(s, r)
        /\ Locks(s, r)' <=> Locks(s, r)
        /\ ~ Applies(s, r)
        /\ Applies(s, r)' <=> s \in Masking!Listed(r)
        /\ s \in Masking!Listed(r) => Locks(s, r)
    BY <1>1, <1>2 DEF Publishes, Applies, Locks
  <2>4. Exclusive(s)' BY <1>2, <2>3, SameLocks DEF MaskInv
  <2>5. CASE s \notin Masking!Listed(r)
    <3>1. gateway'[s] = gateway[s] BY <1>1, <2>5 DEF Masking!Applied
    <3>2. ~ Applies(s, r)' BY <2>3, <2>5
    <3>3. Stands(s)' BY <1>1, <1>2, <2>3, <3>1, <3>2, MaskRow DEF MaskInv, Stands
    <3> QED BY <2>2, <2>4, <3>3
  <2>6. CASE s \in Masking!Listed(r)
    <3>1. gateway'[s] = Masking!Served(rq[r].list[s]) BY <1>1, <2>6 DEF Masking!Applied
    <3>2. \A q \in Pair : Applies(s, q)' => q = r
      <4> SUFFICES ASSUME NEW q \in Pair, Applies(s, q)', q # r PROVE FALSE OBVIOUS
      <4>1. Locks(s, q) BY <1>2 DEF Applies, Locks
      <4> QED BY <2>3, <2>6, <4>1 DEF MaskInv, Exclusive
    <3>3. Gate(s)' BY <1>2, <2>3, <2>6, <3>1, <3>2 DEF Gate
    <3>4. \A q \in Pair : Publishes(s, q)' <=> Publishes(s, q) BY <1>2, <2>3
    <3>5. s \notin hazy => Gone(s)' /\ Missing(s)'
      BY <1>1, <1>2, <3>4 DEF MaskInv, Stands, Gone, Missing, Other
    <3> QED BY <1>1, <2>2, <2>4, <3>3, <3>5 DEF Stands
  <2> QED BY <2>5, <2>6
<1> QED BY <1>2, <1>5, <1>6 DEF MaskInv

LEMMA MaskEnd ==
  ASSUME MaskInv, NEW r \in Pair, Masking!PublishEnd(r), None \notin Contents
  PROVE  MaskInv'
<1>1. /\ rq[r].step = "end" /\ Masking!Done(r) /\ UNCHANGED <<row, gateway, now, used>>
      /\ latest' = [s \in Strategies |-> IF s \in Masking!Listed(r) THEN rq[r].list[s] ELSE latest[s]]
      /\ hazy' = hazy \cup {s \in Masking!Listed(r) \ Masking!Flagged(r) : row[s] = Masking!NoRow}
  BY DEF Masking!PublishEnd
<1>2. /\ rq' \in [Pair -> MaskRequest] /\ SavesRows'
      /\ \A s \in Strategies, q \in Pair :
           /\ Saving(s, q)' => q # r /\ Saving(s, q) /\ rq'[q].data = rq[q].data
           /\ q # r => /\ rq'[q] = rq[q]
                       /\ Publishes(s, q)' <=> Publishes(s, q)
                       /\ Applies(s, q)' <=> Applies(s, q)
      /\ \A s \in Strategies : ~ Publishes(s, r)' /\ ~ Applies(s, r)'
      /\ \A s \in Strategies, q \in Pair, v \in MaskVersion :
           v # Masking!NoRow /\ v = rq'[q].list[s] => v = rq[q].list[s]
      /\ \A s \in Strategies : Exclusive(s)'
  BY <1>1, Forgotten
<1>3. \A s \in Strategies : rq[r].list[s] \in MaskVersion /\ latest[s] \in MaskVersion
  BY DEF MaskInv, MaskTypes, MaskRequest
<1>4. latest' \in [Strategies -> MaskVersion] /\ hazy' \in SUBSET Strategies
  BY <1>1, <1>3 DEF MaskInv, MaskTypes, Masking!Listed
<1>5. MaskTypes' BY <1>1, <1>2, <1>4 DEF MaskInv, MaskTypes
<1>6. ASSUME NEW s \in Strategies PROVE Ages(s)' /\ Stands(s)'
  <2>1. \A v \in MaskVersion : Written(s, v)' => Written(s, v)
    BY <1>1, <1>2 DEF Written
  <2>2. Ages(s)' BY <1>1, <1>2, <2>1, SameAges DEF MaskInv, Alike
  <2>3. CASE s \notin Masking!Listed(r)
    <3>1. latest'[s] = latest[s] BY <1>1, <2>3
    <3>2. ~ Publishes(s, r) /\ ~ Applies(s, r) BY <2>3 DEF Publishes, Applies
    <3>3. ASSUME s \notin hazy' PROVE Gone(s)' /\ Gate(s)' /\ Missing(s)'
      <4>1. Gone(s) /\ Gate(s) /\ Missing(s) BY <1>1, <3>3 DEF MaskInv, Stands
      <4> QED BY <1>1, <1>2, <3>1, <3>2, <4>1, MaskRow DEF MaskInv
    <3> QED BY <2>2, <3>3 DEF Stands
  <2>4. CASE s \in Masking!Listed(r)
    <3>1. latest'[s] = rq[r].list[s] BY <1>1, <2>4
    <3>2. Publishes(s, r) /\ Applies(s, r) /\ Locks(s, r)
      BY <1>1, <2>4 DEF Publishes, Applies, Locks
    <3>3. ASSUME s \notin hazy' PROVE Gone(s)' /\ Gate(s)' /\ Missing(s)'
      <4>1. Gone(s) /\ Gate(s) /\ Missing(s) BY <1>1, <3>3 DEF MaskInv, Stands
      <4>2. Gone(s)'
        <5>1. latest'[s].deleted => row'[s] = Masking!NoRow \/ row'[s].at # latest'[s].at
          BY <1>1, <3>1, <3>2, <4>1 DEF Gone, Other
        <5>2. ASSUME NEW q \in Pair, Publishes(s, q)', rq'[q].list[s].deleted
              PROVE  row'[s] = Masking!NoRow \/ row'[s].at # rq'[q].list[s].at
          BY <1>1, <1>2, <4>1, <5>2 DEF Gone, Other
        <5> QED BY <5>1, <5>2 DEF Gone, Other
      <4>3. Gate(s)'
        <5>1. gateway'[s] = Masking!Served(latest'[s]) BY <1>1, <3>1, <3>2, <4>1 DEF Gate
        <5>2. \A q \in Pair : ~ Applies(s, q)'
          <6> SUFFICES ASSUME NEW q \in Pair, Applies(s, q)' PROVE FALSE OBVIOUS
          <6>1. q # r /\ Applies(s, q) BY <1>2
          <6>2. Locks(s, q) BY <6>1 DEF Applies, Locks
          <6> QED BY <3>2, <6>1, <6>2 DEF MaskInv, Exclusive
        <5> QED BY <5>1, <5>2 DEF Gate
      <4>4. Missing(s)'
        <5>1. row[s] = Masking!NoRow => s \in Masking!Flagged(r) BY <1>1, <2>4, <3>3
        <5>2. row[s] = Masking!NoRow => Masking!Served(latest'[s]) = None
          BY <1>3, <3>1, <5>1, MaskServed DEF Masking!Flagged
        <5> QED BY <1>1, <5>2 DEF Missing
      <4> QED BY <4>2, <4>3, <4>4
    <3> QED BY <2>2, <3>3 DEF Stands
  <2> QED BY <2>3, <2>4
<1> QED BY <1>2, <1>5, <1>6 DEF MaskInv

LEMMA MaskGoWrong ==
  ASSUME MaskInv, NEW r \in Pair, Masking!GoWrong(r), None \notin Contents
  PROVE  MaskInv'
<1>1. Masking!Done(r) /\ UNCHANGED <<latest, gateway, now, used>> BY DEF Masking!GoWrong
<1>2. /\ rq' \in [Pair -> MaskRequest] /\ SavesRows'
      /\ \A s \in Strategies, q \in Pair :
           /\ Saving(s, q)' => q # r /\ Saving(s, q) /\ rq'[q].data = rq[q].data
           /\ q # r => /\ rq'[q] = rq[q]
                       /\ Publishes(s, q)' <=> Publishes(s, q)
                       /\ Applies(s, q)' <=> Applies(s, q)
      /\ \A s \in Strategies : ~ Publishes(s, r)' /\ ~ Applies(s, r)'
      /\ \A s \in Strategies, q \in Pair, v \in MaskVersion :
           v # Masking!NoRow /\ v = rq'[q].list[s] => v = rq[q].list[s]
      /\ \A s \in Strategies : Exclusive(s)'
  BY <1>1, Forgotten
<1>3. /\ hazy \subseteq hazy' /\ hazy' \in SUBSET Strategies
      /\ row' \in [Strategies -> MaskVersion]
      /\ \A s \in Strategies :
           /\ row'[s] \in {row[s], Masking!NoRow}
           /\ s \notin hazy' => /\ row'[s] = row[s] /\ ~ Applies(s, r)
                                /\ ~ (Publishes(s, r) /\ rq[r].list[s].deleted)
  <2>1. Masking!Listed(r) \subseteq Strategies /\ Masking!Flagged(r) \subseteq Strategies
    BY DEF Masking!Listed, Masking!Flagged
  <2>2. row \in [Strategies -> MaskVersion] /\ hazy \subseteq Strategies BY DEF MaskInv, MaskTypes
  <2>3. CASE rq[r].step \in {"save", "delete", "flag"} /\ UNCHANGED <<row, hazy>>
    BY <2>2, <2>3 DEF Applies, Publishes
  <2>4. CASE /\ rq[r].step = "purge"
             /\ \E gone \in SUBSET Masking!Flagged(r) : row' = Masking!Without(gone) /\ hazy' = hazy \cup gone
    BY <2>1, <2>2, <2>4, MaskConstant DEF Applies, Publishes, Masking!Without
  <2>5. CASE /\ rq[r].step \in {"commit", "online"}
             /\ hazy' = hazy \cup Masking!Flagged(r) /\ UNCHANGED row
    BY <2>1, <2>2, <2>5 DEF Applies, Publishes, Masking!Flagged
  <2>6. CASE /\ rq[r].step = "end"
             /\ hazy' = hazy \cup Masking!Listed(r) /\ UNCHANGED row
    BY <2>1, <2>2, <2>6 DEF Applies, Publishes
  <2> QED BY <2>3, <2>4, <2>5, <2>6 DEF Masking!GoWrong
<1>4. MaskTypes' BY <1>1, <1>2, <1>3 DEF MaskInv, MaskTypes
<1>5. ASSUME NEW s \in Strategies PROVE Ages(s)' /\ Stands(s)'
  <2>1. \A v \in MaskVersion : Written(s, v)' => Written(s, v)
    BY <1>1, <1>2, <1>3 DEF Written
  <2>2. Ages(s)' BY <1>1, <1>2, <1>3, <2>1, SameAges DEF MaskInv, Alike
  <2>3. ASSUME s \notin hazy' PROVE Gone(s)' /\ Gate(s)' /\ Missing(s)'
    <3>1. Gone(s) /\ Gate(s) /\ Missing(s) BY <1>3, <2>3 DEF MaskInv, Stands
    <3>2. row'[s] = row[s] /\ ~ Applies(s, r) /\ ~ (Publishes(s, r) /\ rq[r].list[s].deleted)
      BY <1>3, <2>3
    <3>3. Gone(s)' BY <1>1, <1>2, <3>1, <3>2 DEF Gone, Other
    <3>4. Gate(s)' BY <1>1, <1>2, <3>1, <3>2 DEF Gate
    <3>5. Missing(s)' BY <1>1, <1>2, <3>1, <3>2 DEF Missing
    <3> QED BY <3>3, <3>4, <3>5
  <2> QED BY <2>2, <2>3 DEF Stands
<1> QED BY <1>2, <1>4, <1>5 DEF MaskInv

LEMMA MaskResetGateway ==
  ASSUME MaskInv, NEW kept \in BOOLEAN, Masking!ResetGateway(kept), None \notin Contents
  PROVE  MaskInv'
<1> DEFINE before == IF kept THEN gateway ELSE [s \in Strategies |-> None]
           taken == [s \in Strategies |-> IF latest[s] = Masking!NoRow THEN before[s] ELSE Masking!Served(latest[s])]
<1>1. /\ UNCHANGED <<latest, now, rq, used>>
      /\ \/ /\ gateway' = taken
            /\ row' = Masking!Without({s \in Strategies : latest[s].deleted})
            /\ hazy' = hazy \cup Masking!Locked
         \/ gateway' = before /\ row' = row /\ hazy' = Strategies
  BY DEF Masking!ResetGateway
<1>2. before \in [Strategies -> Contents \cup {None}] BY DEF MaskInv, MaskTypes
<1>3. \A s \in Strategies : latest[s] \in MaskVersion BY DEF MaskInv, MaskTypes
<1>4. taken \in [Strategies -> Contents \cup {None}] BY <1>2, <1>3, MaskServed
<1>5. gateway' \in [Strategies -> Contents \cup {None}] BY <1>1, <1>2, <1>4
<1>6. /\ row' \in [Strategies -> MaskVersion] /\ hazy \subseteq hazy' /\ hazy' \in SUBSET Strategies
      /\ \A s \in Strategies : \/ row'[s] = row[s]
                               \/ row'[s] = Masking!NoRow /\ latest[s].deleted
  BY <1>1, MaskConstant DEF Masking!Without, MaskInv, MaskTypes, Masking!Locked, Masking!Listed
<1>7. MaskTypes' BY <1>1, <1>5, <1>6 DEF MaskInv, MaskTypes
<1>8. SavesRows' BY <1>1 DEF MaskInv, SavesRows
<1>9. ASSUME NEW s \in Strategies PROVE Ages(s)' /\ Stands(s)' /\ Exclusive(s)'
  <2>1. \A r \in Pair : /\ Saving(s, r)' <=> Saving(s, r)
                        /\ Publishes(s, r)' <=> Publishes(s, r)
                        /\ Applies(s, r)' <=> Applies(s, r)
                        /\ Locks(s, r)' <=> Locks(s, r)
    BY <1>1 DEF Saving, Publishes, Applies, Locks, Masking!Listed
  <2>2. \A v \in MaskVersion : Written(s, v)' => Written(s, v)
    BY <1>1, <1>6 DEF Written
  <2>3. Ages(s)' BY <1>1, <1>6, <2>1, <2>2, SameAges DEF MaskInv, Alike
  <2>4. Exclusive(s)' BY <2>1, SameLocks DEF MaskInv
  <2>5. ASSUME s \notin hazy' PROVE Gone(s)' /\ Gate(s)' /\ Missing(s)'
    <3>1. Gone(s) /\ Gate(s) /\ Missing(s) BY <1>6, <2>5 DEF MaskInv, Stands
    <3>2. gateway' = taken /\ s \notin Masking!Locked BY <1>1, <2>5
    <3>3. \A r \in Pair : ~ Applies(s, r) BY <3>2 DEF Applies, Masking!Locked
    <3>4. gateway[s] = Masking!Served(latest[s]) BY <3>1, <3>3 DEF Gate
    <3>5. gateway'[s] = IF latest[s] = Masking!NoRow THEN before[s] ELSE Masking!Served(latest[s])
      BY <3>2
    <3>6. gateway'[s] = gateway[s]
      <4>1. CASE latest[s] # Masking!NoRow BY <3>4, <3>5, <4>1
      <4>2. CASE latest[s] = Masking!NoRow BY <3>4, <3>5, <4>2, MaskConstant
      <4> QED BY <4>1, <4>2
    <3>7. row'[s] = row[s] \/ (row'[s] = Masking!NoRow /\ Masking!Served(latest[s]) = None)
      BY <1>3, <1>6, MaskServed
    <3> HIDE DEF taken, before
    <3> QED BY <1>1, <2>1, <3>1, <3>6, <3>7, MaskRow DEF MaskInv
  <2> QED BY <2>3, <2>4, <2>5 DEF Stands
<1> QED BY <1>7, <1>8, <1>9 DEF MaskInv

-----------------------------------------------------------------------------
LEMMA MaskNext ==
  ASSUME MaskInv, None \notin Contents, MaxSeconds \in Nat, [Masking!Next]_(Masking!vars)
  PROVE  MaskInv'
<1>1. CASE Masking!Tick BY <1>1, MaskTick
<1>2. CASE \E s \in Strategies, c \in Contents : Masking!Create(s, c) BY <1>2, MaskCreate
<1>3. CASE \E s \in Strategies : Masking!SaveRead(s) BY <1>3, MaskSaveRead
<1>4. CASE \E s \in Strategies : Masking!DeleteRead(s) BY <1>4, MaskDeleteRead
<1>5. CASE \E s \in Strategies : Masking!Restore(s) BY <1>5, MaskRestore
<1>6. CASE Masking!PublishRead BY <1>6, MaskPublishRead
<1>7. CASE \E r \in Pair : Masking!SaveWrite(r) BY <1>7, MaskSaveWrite
<1>8. CASE \E r \in Pair : Masking!DeleteWrite(r) BY <1>8, MaskDeleteWrite
<1>9. CASE \E r \in Pair : Masking!PublishPurge(r) BY <1>9, MaskPurge
<1>10. CASE \E r \in Pair : Masking!PublishCommits(r) BY <1>10, MaskCommits
<1>11. CASE \E r \in Pair : Masking!PublishOnline(r) BY <1>11, MaskOnline
<1>12. CASE \E r \in Pair : Masking!PublishEnd(r) BY <1>12, MaskEnd
<1>13. CASE \E r \in Pair : Masking!GoWrong(r) BY <1>13, MaskGoWrong
<1>14. CASE \E kept \in BOOLEAN : Masking!ResetGateway(kept) BY <1>14, MaskResetGateway
<1>15. CASE UNCHANGED Masking!vars
  BY <1>15 DEF Masking!vars, MaskInv, MaskTypes, SavesRows, Ages, Stands, Exclusive, Dated,
     Distinct, Unwritten,
               Gone, Gate, Missing, Written, Saving, Publishes, Applies, Locks, Masking!Listed,
               Other
<1> QED BY <1>1, <1>2, <1>3, <1>4, <1>5, <1>6, <1>7, <1>8, <1>9, <1>10, <1>11, <1>12,
           <1>13, <1>14, <1>15 DEF Masking!Next

LEMMA MaskHolds ==
  ASSUME MaskInv, None \notin Contents
  PROVE  Masking!StatusHonest
<1> SUFFICES ASSUME NEW s \in Strategies \ (hazy \cup Masking!Publishing)
             PROVE  /\ gateway[s] = Masking!Served(latest[s])
                    /\ row[s] = Masking!NoRow => gateway[s] = None
                    /\ row[s] # Masking!NoRow /\ Masking!Status(s) = "offline" => gateway[s] = None
                    /\ row[s] # Masking!NoRow /\ Masking!Status(s) = "online" => gateway[s] = Masking!Served(row[s])
  BY DEF Masking!StatusHonest
<1>1. Gone(s) /\ Gate(s) /\ Missing(s) /\ Distinct(s) BY DEF MaskInv, Ages, Stands
<1>2. \A r \in Pair : ~ Publishes(s, r) BY DEF Masking!Publishing, Publishes
<1>3. \A r \in Pair : ~ Applies(s, r) BY <1>2 DEF Publishes, Applies
<1>4. gateway[s] = Masking!Served(latest[s]) BY <1>1, <1>3 DEF Gate
<1>5. row[s] = Masking!NoRow => gateway[s] = None BY <1>1, <1>2, <1>4 DEF Missing
<1>6. row[s] \in MaskVersion /\ latest[s] \in MaskVersion BY DEF MaskInv, MaskTypes
<1>7. Masking!Status(s) = "offline" => gateway[s] = None BY <1>4, MaskConstant DEF Masking!Status
<1>8. ASSUME row[s] # Masking!NoRow, Masking!Status(s) = "online" PROVE gateway[s] = Masking!Served(row[s])
  <2>1. latest[s] # Masking!NoRow /\ ~ row[s].deleted /\ row[s].at = latest[s].at
    BY <1>8 DEF Masking!Status
  <2>2. Alike(row[s], latest[s]) BY <1>1, <1>6, <1>8, <2>1 DEF Distinct, Written
  <2>3. ~ latest[s].deleted BY <1>1, <1>8, <2>1 DEF Gone, Other
  <2> QED BY <1>4, <2>1, <2>2, <2>3 DEF Alike, Masking!Served
<1> QED BY <1>4, <1>5, <1>7, <1>8

\* The list says of a strategy what the gateway does with it, however saves,
\* deletions, restorations and publishes overlap.
THEOREM StrategiesHonest == Masking!Spec => []Masking!StatusHonest
<1>1. Masking!Init => MaskInv BY MaskInit, ConstantsAssumption DEF MaskConstants
<1>2. MaskInv /\ [Masking!Next]_(Masking!vars) => MaskInv' BY MaskNext, ConstantsAssumption
    DEF MaskConstants
<1>3. MaskInv => Masking!StatusHonest BY MaskHolds, ConstantsAssumption DEF MaskConstants
<1> QED BY <1>1, <1>2, <1>3, PTL DEF Masking!Spec

\* The same of the behaviours of MCServer.
THEOREM StatusKept == Spec => []StatusHonest
<1> DEFINE I == part = "mask" => MaskInv
<1>1. Init => I BY MaskInit, PartInit, ConstantsAssumption DEF MaskConstants
<1>2. I /\ [Next]_<<part, vars>> => I' BY MaskNext, PartNext, ConstantsAssumption DEF MaskConstants
<1>3. I => StatusHonest BY MaskHolds, ConstantsAssumption DEF StatusHonest, MaskConstants
<1> QED BY <1>1, <1>2, <1>3, PTL DEF Spec

-----------------------------------------------------------------------------
(* The models the gateway falls back to.                                   *)

\* A set of numbers has a least one, and a set with 0 and with what follows each of its
\* numbers has all of them.
LEMMA LeastOf ==
  ASSUME NEW S \in SUBSET Nat, S # {}
  PROVE  \E n \in S : \A m \in S : n <= m
<1> DEFINE R == {p \in Nat \X Nat : p[1] < p[2]}
<1>1. IsWellFoundedOn(R, Nat) BY NatLessThanWellFounded, Zenon DEF OpToRel
<1> HIDE DEF R
<1>2. PICK n \in S : \A m \in S : ~ (<<m, n>> \in R) BY <1>1, WFMin
<1>3. \A m \in S : ~ (m < n) BY <1>2 DEF R
<1> QED BY <1>3

LEMMA UpTo ==
  ASSUME NEW k \in Nat, NEW S, 0 \in S, \A n \in 0 .. k - 1 : n \in S => n + 1 \in S
  PROVE  0 .. k \subseteq S
<1> DEFINE Bad == (0 .. k) \ S
<1>1. SUFFICES ASSUME Bad # {} PROVE FALSE OBVIOUS
<1>2. Bad \subseteq Nat OBVIOUS
<1> HIDE DEF Bad
<1>3. PICK n \in Bad : \A m \in Bad : n <= m BY <1>1, <1>2, LeastOf
<1>4. n # 0 /\ n - 1 \in 0 .. k - 1 /\ (n - 1) + 1 = n /\ n - 1 \in Nat /\ ~ (n <= n - 1) BY DEF Bad
<1>5. n - 1 \in S BY <1>3, <1>4 DEF Bad
<1> QED BY <1>4, <1>5 DEF Bad

\* A list of S, each element once, by what f says of them.
Sorted(list, f, S, n) ==
  /\ list \in [1 .. n -> S]
  /\ \A x \in S : \E i \in 1 .. n : list[i] = x
  /\ \A i, j \in 1 .. n : list[i] = list[j] => i = j
  /\ \A i, j \in 1 .. n : i < j => f[list[i]] <= f[list[j]]

LEMMA LastOne ==
  ASSUME NEW T, T # {}, NEW f, NEW N \in Nat, \A x \in T : f[x] \in 0 .. N
  PROVE  \E m \in T : \A x \in T : f[x] <= f[m]
<1> DEFINE D == {N - f[x] : x \in T}
<1>1. D \in SUBSET Nat /\ D # {}
  <2>1. \A x \in T : N - f[x] \in Nat OBVIOUS
  <2>2. PICK x \in T : TRUE OBVIOUS
  <2>3. N - f[x] \in D OBVIOUS
  <2> QED BY <2>1, <2>3
<1> HIDE DEF D
<1>2. PICK d \in D : \A c \in D : d <= c BY <1>1, LeastOf
<1>3. PICK m \in T : d = N - f[m] BY <1>2 DEF D
<1>4. \A x \in T : f[x] <= f[m]
  <2> TAKE x \in T
  <2>1. N - f[x] \in D BY DEF D
  <2>2. N - f[m] <= N - f[x] BY <1>2, <1>3, <2>1
  <2>3. f[x] \in 0 .. N /\ f[m] \in 0 .. N OBVIOUS
  <2> QED BY <2>2, <2>3
<1> QED BY <1>4

LEMMA SortedMore ==
  ASSUME NEW T, NEW f, \A x \in T : f[x] \in Nat, NEW n \in Nat, NEW m \in T,
         \A x \in T : f[x] <= f[m], NEW list, Sorted(list, f, T \ {m}, n)
  PROVE  Sorted([i \in 1 .. n + 1 |-> IF i = n + 1 THEN m ELSE list[i]], f, T, n + 1)
<1> DEFINE l == [i \in 1 .. n + 1 |-> IF i = n + 1 THEN m ELSE list[i]]
<1>1. \A i \in 1 .. n : list[i] \in T /\ list[i] # m BY DEF Sorted
<1>2. \A i \in 1 .. n + 1 : i = n + 1 \/ i \in 1 .. n OBVIOUS
<1>3. \A i \in 1 .. n : i # n + 1 /\ i \in 1 .. n + 1 OBVIOUS
<1>4. l \in [1 .. n + 1 -> T] BY <1>1, <1>2
<1>5. \A x \in T : \E i \in 1 .. n + 1 : l[i] = x
  <2> TAKE x \in T
  <2>1. CASE x = m BY <2>1
  <2>2. CASE x # m
    <3>1. PICK i \in 1 .. n : list[i] = x BY <2>2 DEF Sorted
    <3>2. l[i] = x BY <1>3, <3>1
    <3> QED BY <1>3, <3>2
  <2> QED BY <2>1, <2>2
<1>6. \A i, j \in 1 .. n + 1 : l[i] = l[j] => i = j BY <1>1, <1>2 DEF Sorted
<1>7. \A i, j \in 1 .. n + 1 : i < j => f[l[i]] <= f[l[j]]
  <2> SUFFICES ASSUME NEW i \in 1 .. n + 1, NEW j \in 1 .. n + 1, i < j PROVE f[l[i]] <= f[l[j]]
    OBVIOUS
  <2>1. i \in 1 .. n /\ l[i] = list[i] BY <1>2
  <2>2. CASE j = n + 1 BY <1>1, <2>1, <2>2
  <2>3. CASE j # n + 1
    <3>1. j \in 1 .. n /\ l[j] = list[j] BY <1>2, <2>3
    <3> QED BY <2>1, <3>1 DEF Sorted
  <2> QED BY <2>2, <2>3
<1> HIDE DEF l
<1>8. Sorted(l, f, T, n + 1) BY <1>4, <1>5, <1>6, <1>7 DEF Sorted
<1> QED BY <1>8 DEF l

\* Every finite set can be listed like that.
LEMMA SortedExists ==
  ASSUME NEW S, IsFiniteSet(S), NEW f, NEW N \in Nat, \A x \in S : f[x] \in 0 .. N
  PROVE  Cardinality(S) \in Nat /\ \E list : Sorted(list, f, S, Cardinality(S))
<1> DEFINE G == {n \in Nat : \A T \in SUBSET S :
                   Cardinality(T) = n => \E list : Sorted(list, f, T, n)}
           k == Cardinality(S)
<1>1. k \in Nat BY FS_CardinalityType
<1>2. \A T \in SUBSET S : IsFiniteSet(T) BY FS_Subset
<1>3. 0 \in G
  <2> SUFFICES ASSUME NEW T \in SUBSET S, Cardinality(T) = 0 PROVE \E list : Sorted(list, f, T, 0)
    OBVIOUS
  <2>1. T = {} BY <1>2, FS_EmptySet
  <2>2. Sorted(<<>>, f, {}, 0) BY DEF Sorted
  <2> QED BY <2>1, <2>2
<1>4. \A n \in 0 .. k - 1 : n \in G => n + 1 \in G
  <2> SUFFICES ASSUME NEW n \in Nat, n \in G, NEW T \in SUBSET S, Cardinality(T) = n + 1
      PROVE \E list : Sorted(list, f, T, n + 1)
    OBVIOUS
  <2>1. T # {} BY FS_EmptySet
  <2>2. PICK m \in T : \A x \in T : f[x] <= f[m]
    <3>1. \A x \in T : f[x] \in 0 .. N OBVIOUS
    <3> QED BY <2>1, <3>1, LastOne
  <2>3. Cardinality(T \ {m}) = n
    <3>1. Cardinality(T \ {m}) = Cardinality(T) - 1 BY <1>2, FS_RemoveElement
    <3> QED BY <3>1
  <2>4. PICK list : Sorted(list, f, T \ {m}, n)
    <3>1. T \ {m} \in SUBSET S OBVIOUS
    <3> QED BY <2>3, <3>1
  <2>5. \A x \in T : f[x] \in Nat OBVIOUS
  <2>6. Sorted([i \in 1 .. n + 1 |-> IF i = n + 1 THEN m ELSE list[i]], f, T, n + 1)
    BY <2>2, <2>4, <2>5, SortedMore
  <2> QED BY <2>6
<1>5. k \in G
  <2> HIDE DEF G, k
  <2>1. 0 .. k \subseteq G BY <1>1, <1>3, <1>4, UpTo
  <2> QED BY <1>1, <2>1
<1> QED BY <1>1, <1>5

\* There is one such list if no two elements are equal.
LEMMA SortedOnce ==
  ASSUME NEW S, NEW f, \A x \in S : f[x] \in Nat, \A x, y \in S : f[x] = f[y] => x = y,
         NEW n \in Nat, NEW m \in Nat, NEW a, NEW b, Sorted(a, f, S, n), Sorted(b, f, S, m)
  PROVE  a = b
<1>1. \A i, j \in 1 .. n : i < j => f[a[i]] < f[a[j]]
  <2> SUFFICES ASSUME NEW i \in 1 .. n, NEW j \in 1 .. n, i < j PROVE f[a[i]] < f[a[j]] OBVIOUS
  <2>1. a[i] \in S /\ a[j] \in S /\ a[i] # a[j] /\ f[a[i]] <= f[a[j]] BY DEF Sorted
  <2>2. f[a[i]] # f[a[j]] /\ f[a[i]] \in Nat /\ f[a[j]] \in Nat BY <2>1
  <2> QED BY <2>1, <2>2
<1>2. \A i, j \in 1 .. m : i < j => f[b[i]] < f[b[j]]
  <2> SUFFICES ASSUME NEW i \in 1 .. m, NEW j \in 1 .. m, i < j PROVE f[b[i]] < f[b[j]] OBVIOUS
  <2>1. b[i] \in S /\ b[j] \in S /\ b[i] # b[j] /\ f[b[i]] <= f[b[j]] BY DEF Sorted
  <2>2. f[b[i]] # f[b[j]] /\ f[b[i]] \in Nat /\ f[b[j]] \in Nat BY <2>1
  <2> QED BY <2>1, <2>2
<1>3. \A i \in 1 .. n : i \in 1 .. m /\ a[i] = b[i]
  <2> DEFINE Bad == {i \in 1 .. n : ~ (i \in 1 .. m /\ a[i] = b[i])}
  <2> SUFFICES ASSUME Bad # {} PROVE FALSE OBVIOUS
  <2>1. Bad \in SUBSET Nat OBVIOUS
  <2> HIDE DEF Bad
  <2>2. PICK i \in Bad : \A j \in Bad : i <= j BY <2>1, LeastOf
  <2>3. i \in 1 .. n /\ ~ (i \in 1 .. m /\ a[i] = b[i]) BY <2>2 DEF Bad
  <2>4. \A j \in 1 .. n : j < i => j \in 1 .. m /\ a[j] = b[j]
    <3> SUFFICES ASSUME NEW j \in 1 .. n, j < i PROVE j \notin Bad BY DEF Bad
    <3> QED BY <2>2, <2>3
  <2>5. a[i] \in S BY <2>3 DEF Sorted
  <2>6. PICK j \in 1 .. m : b[j] = a[i] BY <2>5 DEF Sorted
  <2>7. ~ (j < i)
    <3> SUFFICES ASSUME j < i PROVE FALSE OBVIOUS
    <3>1. j \in 1 .. n BY <2>3
    <3>2. a[j] = a[i] BY <2>4, <2>6, <3>1
    <3> QED BY <2>3, <3>1, <3>2 DEF Sorted
  <2>8. i \in 1 .. m /\ i < j BY <2>3, <2>6, <2>7
  <2>9. b[i] \in S /\ f[b[i]] < f[a[i]] BY <1>2, <2>6, <2>8 DEF Sorted
  <2>10. PICK k \in 1 .. n : a[k] = b[i] BY <2>9 DEF Sorted
  <2>11. ~ (k < i)
    <3> SUFFICES ASSUME k < i PROVE FALSE OBVIOUS
    <3>1. k \in 1 .. m /\ b[k] = b[i] BY <2>4, <2>10
    <3> QED BY <2>8, <3>1 DEF Sorted
  <2>12. k # i BY <2>3, <2>8, <2>10
  <2>13. f[a[i]] < f[a[k]] BY <1>1, <2>3, <2>11, <2>12
  <2>14. f[a[i]] \in Nat /\ f[b[i]] \in Nat BY <2>5, <2>9
  <2> QED BY <2>9, <2>10, <2>13, <2>14
<1>4. n = m
  <2>1. n <= m
    <3>1. CASE n = 0 BY <3>1
    <3>2. CASE n # 0 BY <1>3, <3>2
    <3> QED BY <3>1, <3>2
  <2>2. ~ (n < m)
    <3> SUFFICES ASSUME n < m PROVE FALSE OBVIOUS
    <3>1. n + 1 \in 1 .. m OBVIOUS
    <3>2. b[n + 1] \in S BY <3>1 DEF Sorted
    <3>3. PICK i \in 1 .. n : a[i] = b[n + 1] BY <3>2 DEF Sorted
    <3>4. i \in 1 .. m /\ b[i] = b[n + 1] /\ i # n + 1 BY <1>3, <3>3
    <3> QED BY <3>1, <3>4 DEF Sorted
  <2> QED BY <2>1, <2>2
<1> QED BY <1>3, <1>4 DEF Sorted

\* What a sequence is without its i-th element, and with one put in.
LEMMA WithoutOne ==
  ASSUME NEW S, NEW s \in Seq(S), NEW i \in 1 .. Len(s)
  PROVE  /\ Balancing!Wanted!RemoveAt(s, i) \in Seq(S) /\ Len(Balancing!Wanted!RemoveAt(s, i)) = Len(s) - 1
         /\ \A j \in 1 .. Len(s) - 1 : Balancing!Wanted!RemoveAt(s, i)[j] = IF j < i THEN s[j] ELSE s[j + 1]
<1> DEFINE a == SubSeq(s, 1, i - 1)
           b == SubSeq(s, i + 1, Len(s))
           n == Len(s)
<1>1. n \in Nat /\ i \in 1 .. n /\ \A j \in 1 .. n : s[j] \in S BY LenProperties, ElementOfSeq
<1>2. /\ a \in Seq(S) /\ Len(a) = i - 1
      /\ \A j \in 1 .. i - 1 : a[j] = s[j]
  <2>1. \A j \in 1 .. i - 1 : s[j] \in S BY <1>1
  <2>2. i - 1 \in Int /\ i - 1 \in Nat BY <1>1
  <2>3. /\ a \in Seq(S) /\ Len(a) = IF 1 <= i - 1 THEN (i - 1) - 1 + 1 ELSE 0
        /\ \A j \in 1 .. (i - 1) - 1 + 1 : a[j] = s[1 + j - 1]
    BY <2>1, <2>2, SubSeqProperties
  <2> HIDE DEF a
  <2>4. (i - 1) - 1 + 1 = i - 1 /\ (~ (1 <= i - 1) => i - 1 = 0) BY <2>2
  <2>5. \A j \in 1 .. i - 1 : 1 + j - 1 = j OBVIOUS
  <2> QED BY <2>3, <2>4, <2>5
<1>3. /\ b \in Seq(S) /\ Len(b) = n - i
      /\ \A j \in 1 .. n - i : b[j] = s[i + j]
  <2>1. \A j \in i + 1 .. n : s[j] \in S BY <1>1
  <2>2. i + 1 \in Int /\ n \in Int BY <1>1
  <2>3. /\ b \in Seq(S) /\ Len(b) = IF i + 1 <= n THEN n - (i + 1) + 1 ELSE 0
        /\ \A j \in 1 .. n - (i + 1) + 1 : b[j] = s[(i + 1) + j - 1]
    BY <2>1, <2>2, SubSeqProperties
  <2> HIDE DEF b, n
  <2>4. n - (i + 1) + 1 = n - i /\ (~ (i + 1 <= n) => n - i = 0) BY <1>1
  <2>5. \A j \in 1 .. n - i : (i + 1) + j - 1 = i + j BY <1>1
  <2> QED BY <2>3, <2>4, <2>5
<1>4. Balancing!Wanted!RemoveAt(s, i) = a \o b BY DEF Balancing!Wanted!RemoveAt
<1> HIDE DEF a, b, n
<1>5. /\ a \o b \in Seq(S) /\ Len(a \o b) = Len(a) + Len(b)
      /\ \A j \in 1 .. Len(a) + Len(b) : (a \o b)[j] = IF j <= Len(a) THEN a[j] ELSE b[j - Len(a)]
  BY <1>2, <1>3, ConcatProperties
<1>6. Len(a) + Len(b) = n - 1 BY <1>1, <1>2, <1>3
<1>7. \A j \in 1 .. n - 1 : (a \o b)[j] = IF j < i THEN s[j] ELSE s[j + 1]
  <2> TAKE j \in 1 .. n - 1
  <2>1. (a \o b)[j] = IF j <= i - 1 THEN a[j] ELSE b[j - (i - 1)] BY <1>2, <1>5, <1>6
  <2>2. CASE j < i
    <3>1. j <= i - 1 /\ j \in 1 .. i - 1 BY <1>1, <2>2
    <3> QED BY <1>2, <2>1, <2>2, <3>1
  <2>3. CASE ~ (j < i)
    <3>1. ~ (j <= i - 1) /\ j - (i - 1) \in 1 .. n - i /\ i + (j - (i - 1)) = j + 1 BY <1>1, <2>3
    <3> QED BY <1>3, <2>1, <2>3, <3>1
  <2> QED BY <2>2, <2>3
<1> QED BY <1>4, <1>5, <1>6, <1>7 DEF n

LEMMA WithOneMore ==
  ASSUME NEW S, NEW s \in Seq(S), NEW i \in 1 .. Len(s) + 1, NEW e \in S
  PROVE  /\ Balancing!Wanted!InsertAt(s, i, e) \in Seq(S)
         /\ Len(Balancing!Wanted!InsertAt(s, i, e)) = Len(s) + 1
         /\ \A j \in 1 .. Len(s) + 1 :
              Balancing!Wanted!InsertAt(s, i, e)[j] = IF j < i THEN s[j] ELSE IF j = i THEN e ELSE s[j - 1]
<1> DEFINE a == SubSeq(s, 1, i - 1)
           b == SubSeq(s, i, Len(s))
           c == a \o <<e>>
           n == Len(s)
<1>1. n \in Nat /\ i \in 1 .. n + 1 /\ \A j \in 1 .. n : s[j] \in S BY LenProperties, ElementOfSeq
<1>2. /\ a \in Seq(S) /\ Len(a) = i - 1
      /\ \A j \in 1 .. i - 1 : a[j] = s[j]
  <2>1. \A j \in 1 .. i - 1 : s[j] \in S BY <1>1
  <2>2. i - 1 \in Int /\ i - 1 \in Nat BY <1>1
  <2>3. /\ a \in Seq(S) /\ Len(a) = IF 1 <= i - 1 THEN (i - 1) - 1 + 1 ELSE 0
        /\ \A j \in 1 .. (i - 1) - 1 + 1 : a[j] = s[1 + j - 1]
    BY <2>1, <2>2, SubSeqProperties
  <2> HIDE DEF a
  <2>4. (i - 1) - 1 + 1 = i - 1 /\ (~ (1 <= i - 1) => i - 1 = 0) BY <2>2
  <2>5. \A j \in 1 .. i - 1 : 1 + j - 1 = j OBVIOUS
  <2> QED BY <2>3, <2>4, <2>5
<1>3. /\ b \in Seq(S) /\ Len(b) = n - i + 1
      /\ \A j \in 1 .. n - i + 1 : b[j] = s[i + j - 1]
  <2>1. \A j \in i .. n : s[j] \in S BY <1>1
  <2>2. i \in Int /\ n \in Int BY <1>1
  <2>3. /\ b \in Seq(S) /\ Len(b) = IF i <= n THEN n - i + 1 ELSE 0
        /\ \A j \in 1 .. n - i + 1 : b[j] = s[i + j - 1]
    BY <2>1, <2>2, SubSeqProperties
  <2> HIDE DEF b, n
  <2>4. ~ (i <= n) => n - i + 1 = 0 BY <1>1
  <2> QED BY <2>3, <2>4
<1>4. Balancing!Wanted!InsertAt(s, i, e) = c \o b BY DEF Balancing!Wanted!InsertAt
<1>5. /\ c \in Seq(S) /\ Len(c) = i
      /\ \A j \in 1 .. i : c[j] = IF j < i THEN s[j] ELSE e
  <2> HIDE DEF a
  <2>0. <<e>> \in Seq(S) /\ Len(<<e>>) = 1 /\ <<e>>[1] = e OBVIOUS
  <2>1. /\ c \in Seq(S) /\ Len(c) = (i - 1) + 1
        /\ \A j \in 1 .. (i - 1) + 1 : c[j] = IF j <= i - 1 THEN a[j] ELSE <<e>>[j - (i - 1)]
    BY <1>2, <2>0, ConcatProperties
  <2> HIDE DEF c
  <2>2. (i - 1) + 1 = i BY <1>1
  <2>3. \A j \in 1 .. i : c[j] = IF j < i THEN s[j] ELSE e
    <3> TAKE j \in 1 .. i
    <3>1. CASE j < i
      <4>1. j <= i - 1 /\ j \in 1 .. i - 1 BY <1>1, <3>1
      <4> QED BY <1>2, <2>1, <2>2, <3>1, <4>1
    <3>2. CASE ~ (j < i)
      <4>1. ~ (j <= i - 1) /\ j - (i - 1) = 1 BY <1>1, <3>2
      <4> QED BY <2>0, <2>1, <2>2, <3>2, <4>1
    <3> QED BY <3>1, <3>2
  <2> QED BY <2>1, <2>2, <2>3
<1> HIDE DEF a, b, c, n
<1>6. /\ c \o b \in Seq(S) /\ Len(c \o b) = Len(c) + Len(b)
      /\ \A j \in 1 .. Len(c) + Len(b) : (c \o b)[j] = IF j <= Len(c) THEN c[j] ELSE b[j - Len(c)]
  BY <1>3, <1>5, ConcatProperties
<1>7. Len(c) + Len(b) = n + 1 BY <1>1, <1>3, <1>5
<1>8. \A j \in 1 .. n + 1 : (c \o b)[j] = IF j < i THEN s[j] ELSE IF j = i THEN e ELSE s[j - 1]
  <2> TAKE j \in 1 .. n + 1
  <2>1. (c \o b)[j] = IF j <= i THEN c[j] ELSE b[j - i] BY <1>5, <1>6, <1>7
  <2>2. CASE j <= i
    <3>1. j \in 1 .. i /\ (~ (j < i) => j = i) BY <1>1, <2>2
    <3> QED BY <1>5, <2>1, <2>2, <3>1
  <2>3. CASE ~ (j <= i)
    <3>1. ~ (j < i) /\ j # i /\ j - i \in 1 .. n - i + 1 /\ i + (j - i) - 1 = j - 1 BY <1>1, <2>3
    <3> QED BY <1>3, <2>1, <2>3, <3>1
  <2> QED BY <2>2, <2>3
<1> QED BY <1>4, <1>6, <1>7, <1>8 DEF n

\* Where an element of a list without ties is.
LEMMA Found ==
  ASSUME NEW S, NEW s \in Seq(S), NEW i \in 1 .. Len(s),
         \A j \in 1 .. Len(s) : s[j] = s[i] => j = i
  PROVE  Balancing!Wanted!At(s, s[i]) = i
<1>1. DOMAIN s = 1 .. Len(s) BY LenProperties
<1> QED BY <1>1 DEF Balancing!Wanted!At

\* What moving an element next to another one does to a list without ties.
LEMMA MovedForm ==
  ASSUME NEW S, NEW s \in Seq(S), NEW a \in 1 .. Len(s), NEW b \in 1 .. Len(s), a # b,
         NEW before \in BOOLEAN, \A i, j \in 1 .. Len(s) : s[i] = s[j] => i = j
  PROVE  LET p   == IF a < b THEN IF before THEN b - 1 ELSE b ELSE IF before THEN b ELSE b + 1
             new == Balancing!Wanted!Moved(s, s[a], s[b], before)
         IN /\ new \in Seq(S) /\ Len(new) = Len(s)
            /\ \A j \in 1 .. Len(s) :
                 new[j] = s[IF j = p THEN a ELSE IF a <= j /\ j < p THEN j + 1
                            ELSE IF p < j /\ j <= a THEN j - 1 ELSE j]
<1> DEFINE n == Len(s)
           p == IF a < b THEN IF before THEN b - 1 ELSE b ELSE IF before THEN b ELSE b + 1
           rest == Balancing!Wanted!RemoveAt(s, a)
           c == IF b < a THEN b ELSE b - 1
           new == Balancing!Wanted!InsertAt(rest, p, s[a])
<1>1. n \in Nat /\ a \in 1 .. n /\ b \in 1 .. n /\ s[a] \in S BY LenProperties, ElementOfSeq
<1>2. /\ rest \in Seq(S) /\ Len(rest) = n - 1
      /\ \A j \in 1 .. n - 1 : rest[j] = IF j < a THEN s[j] ELSE s[j + 1]
  BY WithoutOne
<1>3. Balancing!Wanted!At(s, s[a]) = a BY Found
<1> HIDE DEF n, rest, p
<1>4. c \in 1 .. n - 1 /\ rest[c] = s[b]
  <2>1. CASE b < a BY <1>1, <1>2, <2>1
  <2>2. CASE ~ (b < a)
    <3>1. c = b - 1 /\ c \in 1 .. n - 1 /\ ~ (c < a) /\ c + 1 = b BY <1>1, <2>2
    <3> HIDE DEF c
    <3> QED BY <1>2, <3>1
  <2> QED BY <2>1, <2>2
<1>5. \A i, j \in 1 .. n - 1 : rest[i] = rest[j] => i = j
  <2> SUFFICES ASSUME NEW i \in 1 .. n - 1, NEW j \in 1 .. n - 1, rest[i] = rest[j] PROVE i = j OBVIOUS
  <2> DEFINE x == IF i < a THEN i ELSE i + 1
             y == IF j < a THEN j ELSE j + 1
  <2>1. x \in 1 .. n /\ y \in 1 .. n BY <1>1
  <2>2. s[x] = s[y] BY <1>2
  <2>3. x = y
    <3> HIDE DEF x, y
    <3> QED BY <2>1, <2>2 DEF n
  <2> QED BY <1>1, <2>3
<1>6. Balancing!Wanted!At(rest, s[b]) = c
  <2>1. \A j \in 1 .. Len(rest) : rest[j] = rest[c] => j = c BY <1>2, <1>4, <1>5
  <2> HIDE DEF c
  <2> QED BY <1>2, <1>4, <2>1, Found
<1>7. p = (IF before THEN c ELSE c + 1) BY <1>1 DEF p
<1>8. Balancing!Wanted!Moved(s, s[a], s[b], before) = new
  <2> HIDE DEF c
  <2> QED BY <1>3, <1>6, <1>7 DEF Balancing!Wanted!Moved, rest
<1>9. p \in 1 .. (n - 1) + 1 BY <1>1, <1>4, <1>7
<1> HIDE DEF c
<1>10. /\ new \in Seq(S) /\ Len(new) = (n - 1) + 1
       /\ \A j \in 1 .. (n - 1) + 1 :
            new[j] = IF j < p THEN rest[j] ELSE IF j = p THEN s[a] ELSE rest[j - 1]
  <2>1. p \in 1 .. Len(rest) + 1 BY <1>2, <1>9
  <2>2. /\ new \in Seq(S) /\ Len(new) = Len(rest) + 1
        /\ \A j \in 1 .. Len(rest) + 1 :
             new[j] = IF j < p THEN rest[j] ELSE IF j = p THEN s[a] ELSE rest[j - 1]
    <3> HIDE DEF new
    <3>1. PICK q \in 1 .. Len(rest) + 1 : q = p BY <2>1
    <3>2. PICK e \in S : e = s[a] BY <1>1
    <3>3. new = Balancing!Wanted!InsertAt(rest, q, e) BY <3>1, <3>2 DEF new
    <3>4. rest \in Seq(S) BY <1>2
    <3>5. /\ Balancing!Wanted!InsertAt(rest, q, e) \in Seq(S)
          /\ Len(Balancing!Wanted!InsertAt(rest, q, e)) = Len(rest) + 1
          /\ \A j \in 1 .. Len(rest) + 1 :
               Balancing!Wanted!InsertAt(rest, q, e)[j] = IF j < q THEN rest[j] ELSE IF j = q THEN e ELSE rest[j - 1]
      BY <3>4, WithOneMore
    <3> QED BY <3>1, <3>2, <3>3, <3>5
  <2> HIDE DEF new
  <2> QED BY <1>2, <2>2
<1> HIDE DEF new
<1>11. (n - 1) + 1 = n BY <1>1
<1>12. \A j \in 1 .. n :
         new[j] = s[IF j = p THEN a ELSE IF a <= j /\ j < p THEN j + 1
                    ELSE IF p < j /\ j <= a THEN j - 1 ELSE j]
  <2> TAKE j \in 1 .. n
  <2>1. CASE j = p BY <1>1, <1>9, <1>10, <1>11, <2>1
  <2>2. CASE j < p
    <3>1. j \in 1 .. n - 1 /\ j # p /\ ~ (p < j) BY <1>1, <1>9, <1>11, <2>2
    <3>2. new[j] = rest[j] BY <1>10, <1>11, <2>2
    <3> QED BY <1>1, <1>2, <2>2, <3>1, <3>2
  <2>3. CASE p < j
    <3>1. j - 1 \in 1 .. n - 1 /\ j # p /\ ~ (j < p) /\ (j - 1) + 1 = j BY <1>1, <1>9, <1>11, <2>3
    <3>2. new[j] = rest[j - 1] BY <1>10, <1>11, <3>1
    <3>3. j <= a <=> j - 1 < a BY <1>1
    <3> QED BY <1>1, <1>2, <2>3, <3>1, <3>2, <3>3
  <2> QED BY <1>1, <1>9, <2>1, <2>2, <2>3
<1> QED BY <1>8, <1>10, <1>11, <1>12 DEF n, p

\* Entries with numbers.
Pairs == Entries \X (1 .. MaxNumber)

CreateWork == [kind : {"create"}, at : {"write"}, entry : Entries, number : 1 .. MaxNumber]
ListWork   == [kind : {"sort"}, at : {"list"}, origin : Entries, target : Entries,
               before : BOOLEAN, from : 1 .. MaxNumber, to : 1 .. MaxNumber]
UpdateWork == [kind : {"sort"}, at : {"update", "push"}, origin : Entries, target : Entries,
               before : BOOLEAN, sent : Seq(Pairs), todo : Seq(Pairs)]
SyncWork   == [kind : {"sync"}, at : {"push"}, sent : Seq(Pairs)]

FallWork == {Balancing!Free} \cup CreateWork \cup ListWork \cup UpdateWork \cup SyncWork

FallTypes ==
  /\ rows \in [Entries -> 0 .. MaxNumber]
  /\ gateway \in [Entries -> 0 .. MaxNumber]
  /\ rq \in [Pair -> FallWork]
  /\ wanted \in Seq(Entries)

UnderWay == {rq[r] : r \in Pair}

\* What may be in progress at once.
Apart(p, q) ==
  /\ p.kind = "create" => q.kind # "create"
  /\ p.kind = "sort" => q.kind \notin {"sort", "sync"}

FallApart == \A r, s \in Pair : r # s => Apart(rq[r], rq[s])

\* The entry that is added has no row yet, and is to have the largest number.
AddsLast(q) == rows[q.entry] = 0 /\ \A e \in Entries : rows[e] < q.number

FallAdds == \A q \in UnderWay : q.kind = "create" => AddsLast(q)

\* The list its users want has the stored entries, each once.
FallListed ==
  /\ \A e \in Entries : rows[e] # 0 <=> \E i \in 1 .. Len(wanted) : wanted[i] = e
  /\ \A i, j \in 1 .. Len(wanted) : wanted[i] = wanted[j] => i = j

\* Numbers that rise along the list.
Rising(f, list) == \A i, j \in 1 .. Len(list) : i < j => f[list[i]] < f[list[j]]

\* A sort that has changed some rows and not all.
HalfWay(q) == q.kind = "sort" /\ q.at = "update" /\ q.sent # <<>>

FallRising == (\A q \in UnderWay : ~ HalfWay(q)) => Rising(rows, wanted)

\* Numbers that rise along the list once o has been moved next to t.
RisesMoved(f, list, o, t, before) ==
  \A i, j \in 1 .. Len(list) : list[i] # o =>
    /\ i < j /\ list[j] # o => f[list[i]] < f[list[j]]
    /\ list[j] = t /\ (i < j \/ (i = j /\ ~ before)) => f[list[i]] < f[o]
    /\ list[j] = t /\ (j < i \/ (i = j /\ before)) => f[o] < f[list[i]]

\* The numbers f are those that a sort leaves when it is done.
Leaves(q, f) ==
  /\ \A i \in 1 .. Len(q.todo) : f[q.todo[i][1]] = q.todo[i][2]
  /\ \A i \in 1 .. Len(q.sent) : f[q.sent[i][1]] = q.sent[i][2]
  /\ \A e \in Entries : f[e] = rows[e] \/ \E i \in 1 .. Len(q.todo) : q.todo[i][1] = e
  /\ \A e \in Entries : f[e] = 0 <=> rows[e] = 0
  /\ \A p \in UnderWay : p.kind = "create" => \A e \in Entries : f[e] < p.number
  /\ RisesMoved(f, wanted, q.origin, q.target, q.before)

\* What is sent to the gateway is what the rows have.
Right(list) == \A i \in 1 .. Len(list) : rows[list[i][1]] = list[i][2]

\* No entry has the number, or is about to.
Vacant(n) ==
  /\ \A e \in Entries : rows[e] # n
  /\ \A c \in UnderWay : c.kind = "create" => c.number # n

\* The number that a sort is to give an entry when it puts it behind itself can be had.
FindsRoom(q) ==
  q.at = "list" /\ Balancing!Climbs(q.origin, q.target, q.before)
    => q.from < MaxNumber /\ Vacant(q.from + 1)

Sorts(q) ==
  /\ rows[q.origin] # 0 /\ rows[q.target] # 0 /\ FindsRoom(q)
  /\ q.at = "list" => q.from = rows[q.origin] /\ q.to = rows[q.target]
  /\ q.at = "update" => q.todo # <<>> /\ \E f \in [Entries -> 0 .. MaxNumber] : Leaves(q, f)
  /\ q.at \in {"update", "push"} => Right(q.sent)

FallSorts == \A q \in UnderWay : q.kind = "sort" => Sorts(q)

FallSyncs == \A q \in UnderWay : q.kind = "sync" => Right(q.sent)

\* The entries whose numbers a sort has yet to send.
ToSend(q) == IF q.kind = "sort" /\ q.at \in {"update", "push"} THEN Balancing!Named(q.sent) ELSE {}

FallSent ==
  \A e \in Entries : gateway[e] = rows[e] \/ e \in missed \/ \E q \in UnderWay : e \in ToSend(q)

\* All but what the gateway has.
FallRows ==
  /\ FallTypes /\ FallApart /\ FallAdds /\ FallListed /\ FallRising /\ FallSorts /\ FallSyncs

FallInv == skewed \/ (FallRows /\ FallSent)

\* What the list of some entries by their numbers is.
LEMMA ByNumberForm ==
  ASSUME IsFiniteSet(Entries), MaxNumber \in Nat, FallTypes, NEW S \in SUBSET Entries
  PROVE  \E n \in Nat : Sorted(Balancing!ByNumber(S), rows, S, n)
<1> DEFINE n == Cardinality(S)
           L == Balancing!Bijection(1 .. n, S)
<1>1. n \in Nat /\ \E list : Sorted(list, rows, S, n)
  <2>1. IsFiniteSet(S) BY FS_Subset
  <2>2. \A x \in S : rows[x] \in 0 .. MaxNumber BY DEF FallTypes
  <2> QED BY <2>1, <2>2, SortedExists
<1>2. Balancing!Cardinality(S) = n BY DEF Balancing!Cardinality, Cardinality
<1> HIDE DEF n
<1>3. \A list : Sorted(list, rows, S, n) =>
        list \in L /\ \A i, j \in DOMAIN list : i < j => rows[list[i]] <= rows[list[j]]
  BY DEF Sorted, Balancing!Bijection, Balancing!Injection, Balancing!Surjection,
     Balancing!IsInjective
<1>4. \A list \in L : (\A i, j \in DOMAIN list : i < j => rows[list[i]] <= rows[list[j]])
                        => Sorted(list, rows, S, n)
  BY DEF Sorted, Balancing!Bijection, Balancing!Injection, Balancing!Surjection,
     Balancing!IsInjective
<1>5. Balancing!ByNumber(S) =
        CHOOSE list \in L : \A i, j \in DOMAIN list : i < j => rows[list[i]] <= rows[list[j]]
  BY <1>2 DEF Balancing!ByNumber
<1> HIDE DEF L
<1>6. \E list \in L : \A i, j \in DOMAIN list : i < j => rows[list[i]] <= rows[list[j]]
  BY <1>1, <1>3
<1>7. Sorted(Balancing!ByNumber(S), rows, S, n) BY <1>4, <1>5, <1>6
<1> QED BY <1>1, <1>7

\* The largest number.
LEMMA LargestForm ==
  ASSUME MaxNumber \in Nat, FallTypes
  PROVE  /\ Balancing!Largest \in 0 .. MaxNumber
         /\ \A e \in Entries : rows[e] <= Balancing!Largest
<1> DEFINE P(n) == /\ \A e \in Balancing!Stored : rows[e] <= n
                   /\ n # 0 => \E e \in Balancing!Stored : rows[e] = n
           S == {n \in 0 .. MaxNumber : \A e \in Balancing!Stored : rows[e] <= n}
<1>1. \A e \in Entries : rows[e] \in 0 .. MaxNumber BY DEF FallTypes
<1>2. MaxNumber \in S /\ S \in SUBSET Nat BY <1>1 DEF Balancing!Stored
<1> HIDE DEF S
<1>3. PICK n \in S : \A m \in S : n <= m BY <1>2, LeastOf
<1>4. n \in 0 .. MaxNumber /\ \A e \in Balancing!Stored : rows[e] <= n BY <1>3 DEF S
<1>5. n # 0 => \E e \in Balancing!Stored : rows[e] = n
  <2> SUFFICES ASSUME n # 0, \A e \in Balancing!Stored : rows[e] # n PROVE FALSE OBVIOUS
  <2>1. n - 1 \in 0 .. MaxNumber /\ ~ (n <= n - 1) BY <1>4
  <2>2. \A e \in Balancing!Stored : rows[e] <= n - 1
    <3> TAKE e \in Balancing!Stored
    <3>1. rows[e] \in Nat BY <1>1 DEF Balancing!Stored
    <3> QED BY <1>4, <3>1
  <2>3. n - 1 \in S BY <2>1, <2>2 DEF S
  <2> QED BY <1>3, <2>1, <2>3
<1>6. P(n) BY <1>4, <1>5
<1>7. Balancing!Largest = CHOOSE m \in 0 .. MaxNumber : P(m) BY DEF Balancing!Largest
<1> HIDE DEF P
<1>8. Balancing!Largest \in 0 .. MaxNumber /\ P(Balancing!Largest) BY <1>4, <1>6, <1>7
<1>9. \A e \in Balancing!Stored : rows[e] <= Balancing!Largest BY <1>8 DEF P
<1>10. \A e \in Entries : e \in Balancing!Stored \/ rows[e] = 0 BY DEF Balancing!Stored
<1> QED BY <1>8, <1>9, <1>10

\* The number that an entry with number x has after a sort, when the moved one has a and
\* goes to b's place.
NumberAfter(x, a, b, before) ==
  IF IF a < b THEN a < x /\ (x < b \/ (~ before /\ x = b)) ELSE x < a /\ (x > b \/ (before /\ x = b))
    THEN IF a < b THEN x - 1 ELSE x + 1
    ELSE x

LEMMA AfterRises ==
  ASSUME NEW a \in Nat, NEW b \in Nat, a # 0, b # 0, a # b, NEW before \in BOOLEAN
  PROVE  /\ \A x \in Nat : x # 0 /\ x # a =>
              /\ NumberAfter(x, a, b, before) \in Nat /\ NumberAfter(x, a, b, before) # 0
              /\ NumberAfter(x, a, b, before) <= x \/ NumberAfter(x, a, b, before) <= a
              /\ x < b \/ (x = b /\ ~ before) =>
                   NumberAfter(x, a, b, before) < Balancing!Place(a, b, before)
              /\ b < x \/ (x = b /\ before) =>
                   Balancing!Place(a, b, before) < NumberAfter(x, a, b, before)
              /\ \A y \in Nat : y # 0 /\ y # a /\ x < y =>
                   NumberAfter(x, a, b, before) < NumberAfter(y, a, b, before)
         /\ Balancing!Place(a, b, before) \in Nat /\ Balancing!Place(a, b, before) # 0
         /\ Balancing!Place(a, b, before) <= a \/ Balancing!Place(a, b, before) <= b
<1>1. CASE a < b
  <2>1. CASE before BY <1>1, <2>1 DEF NumberAfter, Balancing!Place
  <2>2. CASE ~ before BY <1>1, <2>2 DEF NumberAfter, Balancing!Place
  <2> QED BY <2>1, <2>2
<1>2. CASE b < a
  <2>1. CASE before BY <1>2, <2>1 DEF NumberAfter, Balancing!Place
  <2>2. CASE ~ before BY <1>2, <2>2 DEF NumberAfter, Balancing!Place
  <2> QED BY <2>1, <2>2
<1> QED BY <1>1, <1>2

\* The numbers that a sort leaves.
Planned(o, t, before) ==
  [e \in Entries |-> IF e = o THEN Balancing!Place(rows[o], rows[t], before)
                     ELSE IF rows[e] = 0 THEN 0
                     ELSE NumberAfter(rows[e], rows[o], rows[t], before)]

LEMMA PlanForm ==
  ASSUME MaxNumber \in Nat, FallTypes, FallListed, Rising(rows, wanted), NEW o \in Entries,
         NEW t \in Entries, o # t, rows[o] # 0, rows[t] # 0, NEW before \in BOOLEAN
  PROVE  /\ Planned(o, t, before) \in [Entries -> 0 .. MaxNumber]
         /\ \A e \in Entries : Planned(o, t, before)[e] = 0 <=> rows[e] = 0
         /\ \A n \in Nat : (\A e \in Entries : rows[e] < n) =>
              \A e \in Entries : Planned(o, t, before)[e] < n
         /\ RisesMoved(Planned(o, t, before), wanted, o, t, before)
<1> DEFINE f == Planned(o, t, before)
           a == rows[o]
           b == rows[t]
<1>1. \A e \in Entries : rows[e] \in 0 .. MaxNumber BY DEF FallTypes
<1>2. wanted \in Seq(Entries) /\ \A i \in 1 .. Len(wanted) : wanted[i] \in Entries
  BY ElementOfSeq DEF FallTypes
<1>3. \A i \in 1 .. Len(wanted) : rows[wanted[i]] # 0 BY <1>2 DEF FallListed
<1>4. \A i, j \in 1 .. Len(wanted) : i < j => rows[wanted[i]] < rows[wanted[j]] BY DEF Rising
<1>5. Len(wanted) \in Nat BY <1>2, LenProperties
<1>6. \A d, e \in Entries : rows[d] # 0 /\ rows[e] # 0 /\ d # e => rows[d] # rows[e]
  <2> SUFFICES ASSUME NEW d \in Entries, NEW e \in Entries, rows[d] # 0, rows[e] # 0, d # e
      PROVE rows[d] # rows[e]
    OBVIOUS
  <2>1. PICK i \in 1 .. Len(wanted) : wanted[i] = d BY DEF FallListed
  <2>2. PICK j \in 1 .. Len(wanted) : wanted[j] = e BY DEF FallListed
  <2>3. i < j \/ j < i BY <1>5, <2>1, <2>2
  <2>4. rows[d] < rows[e] \/ rows[e] < rows[d] BY <1>4, <2>1, <2>2, <2>3
  <2> QED BY <1>1, <2>4
<1>7. a \in Nat /\ b \in Nat /\ a # 0 /\ b # 0 /\ a # b BY <1>1, <1>6
<1>8. a <= MaxNumber /\ b <= MaxNumber BY <1>1
<1>9. f[o] = Balancing!Place(a, b, before) BY DEF Planned
<1>10. \A e \in Entries : e # o =>
         f[e] = IF rows[e] = 0 THEN 0 ELSE NumberAfter(rows[e], a, b, before)
  BY DEF Planned
<1>11. \A e \in Entries : e # o /\ rows[e] # 0 => rows[e] \in Nat /\ rows[e] # a BY <1>1, <1>6
<1>12. DOMAIN f = Entries /\ f = [e \in Entries |-> f[e]] BY DEF Planned
<1> HIDE DEF f, a, b
<1>13. /\ \A x \in Nat : x # 0 /\ x # a =>
            /\ NumberAfter(x, a, b, before) \in Nat /\ NumberAfter(x, a, b, before) # 0
            /\ NumberAfter(x, a, b, before) <= x \/ NumberAfter(x, a, b, before) <= a
            /\ x < b \/ (x = b /\ ~ before) =>
                 NumberAfter(x, a, b, before) < Balancing!Place(a, b, before)
            /\ b < x \/ (x = b /\ before) =>
                 Balancing!Place(a, b, before) < NumberAfter(x, a, b, before)
            /\ \A y \in Nat : y # 0 /\ y # a /\ x < y =>
                 NumberAfter(x, a, b, before) < NumberAfter(y, a, b, before)
       /\ Balancing!Place(a, b, before) \in Nat /\ Balancing!Place(a, b, before) # 0
       /\ Balancing!Place(a, b, before) <= a \/ Balancing!Place(a, b, before) <= b
  BY <1>7, AfterRises
<1>14. \A e \in Entries : /\ f[e] \in Nat
                          /\ f[e] = 0 <=> rows[e] = 0
                          /\ f[e] <= rows[e] \/ f[e] <= a \/ f[e] <= b
  <2> TAKE e \in Entries
  <2>1. CASE e = o BY <1>7, <1>9, <1>13, <2>1 DEF a
  <2>2. CASE e # o /\ rows[e] = 0 BY <1>10, <2>2
  <2>3. CASE e # o /\ rows[e] # 0
    <3>1. f[e] = NumberAfter(rows[e], a, b, before) BY <1>10, <2>3
    <3> QED BY <1>11, <1>13, <2>3, <3>1
  <2> QED BY <2>1, <2>2, <2>3
<1>15. \A e \in Entries : f[e] \in 0 .. MaxNumber
  <2> TAKE e \in Entries
  <2>1. f[e] \in Nat /\ (f[e] <= rows[e] \/ f[e] <= a \/ f[e] <= b) BY <1>14
  <2>2. rows[e] \in Nat /\ rows[e] <= MaxNumber BY <1>1
  <2> QED BY <1>7, <1>8, <2>1, <2>2
<1>16. f \in [Entries -> 0 .. MaxNumber] BY <1>12, <1>15
<1>17. \A n \in Nat : (\A e \in Entries : rows[e] < n) => \A e \in Entries : f[e] < n
  <2> SUFFICES ASSUME NEW n \in Nat, \A e \in Entries : rows[e] < n, NEW e \in Entries
      PROVE f[e] < n
    OBVIOUS
  <2>1. f[e] \in Nat /\ (f[e] <= rows[e] \/ f[e] <= a \/ f[e] <= b) BY <1>14
  <2>2. a < n /\ b < n /\ rows[e] < n BY DEF a, b
  <2>3. rows[e] \in Nat BY <1>1
  <2> QED BY <1>7, <2>1, <2>2, <2>3
<1>18. RisesMoved(f, wanted, o, t, before)
  <2> SUFFICES ASSUME NEW i \in 1 .. Len(wanted), NEW j \in 1 .. Len(wanted), wanted[i] # o
      PROVE /\ i < j /\ wanted[j] # o => f[wanted[i]] < f[wanted[j]]
            /\ wanted[j] = t /\ (i < j \/ (i = j /\ ~ before)) => f[wanted[i]] < f[o]
            /\ wanted[j] = t /\ (j < i \/ (i = j /\ before)) => f[o] < f[wanted[i]]
    BY DEF RisesMoved
  <2> DEFINE x == rows[wanted[i]]
             y == rows[wanted[j]]
  <2>1. wanted[i] \in Entries /\ wanted[j] \in Entries /\ x # 0 /\ y # 0 BY <1>2, <1>3
  <2>2. x \in Nat /\ x # a /\ f[wanted[i]] = NumberAfter(x, a, b, before) BY <1>10, <1>11, <2>1
  <2>3. (i < j => x < y) /\ (j < i => y < x) /\ (i = j => x = y) BY <1>4
  <2>4. wanted[j] = t => y = b BY DEF b
  <2>5. wanted[j] # o => y \in Nat /\ y # a /\ f[wanted[j]] = NumberAfter(y, a, b, before)
    BY <1>10, <1>11, <2>1
  <2> HIDE DEF x, y
  <2>6. ASSUME i < j, wanted[j] # o PROVE f[wanted[i]] < f[wanted[j]]
    BY <1>13, <2>1, <2>2, <2>3, <2>5, <2>6
  <2>7. ASSUME wanted[j] = t, i < j \/ (i = j /\ ~ before) PROVE f[wanted[i]] < f[o]
    BY <1>9, <1>13, <2>1, <2>2, <2>3, <2>4, <2>7
  <2>8. ASSUME wanted[j] = t, j < i \/ (i = j /\ before) PROVE f[o] < f[wanted[i]]
    BY <1>9, <1>13, <2>1, <2>2, <2>3, <2>4, <2>8
  <2> QED BY <2>6, <2>7, <2>8
<1> QED BY <1>14, <1>16, <1>17, <1>18 DEF f

\* Likewise when it is put next to itself, where the number after its own can be had.
LEMMA PlanSelf ==
  ASSUME MaxNumber \in Nat, FallTypes, Rising(rows, wanted), NEW o \in Entries, rows[o] # 0,
         NEW before \in BOOLEAN,
         ~ before => rows[o] < MaxNumber /\ \A e \in Entries : rows[e] # rows[o] + 1
  PROVE  /\ Planned(o, o, before) \in [Entries -> 0 .. MaxNumber]
         /\ \A e \in Entries : Planned(o, o, before)[e] = 0 <=> rows[e] = 0
         /\ \A n \in Nat : (\A e \in Entries : rows[e] < n) /\ (~ before => n # rows[o] + 1) =>
              \A e \in Entries : Planned(o, o, before)[e] < n
         /\ RisesMoved(Planned(o, o, before), wanted, o, o, before)
<1> DEFINE f == Planned(o, o, before)
           a == rows[o]
           m == IF before THEN a ELSE a + 1
<1>1. \A e \in Entries : rows[e] \in 0 .. MaxNumber BY DEF FallTypes
<1>2. wanted \in Seq(Entries) /\ \A i \in 1 .. Len(wanted) : wanted[i] \in Entries
  BY ElementOfSeq DEF FallTypes
<1>3. a \in 1 .. MaxNumber BY <1>1
<1>4. f[o] = m BY <1>3 DEF Planned, Balancing!Place
<1>5. \A e \in Entries : e # o => f[e] = rows[e]
  <2> TAKE e \in Entries
  <2> HAVE e # o
  <2>1. NumberAfter(rows[e], a, a, before) = rows[e] BY <1>1, <1>3 DEF NumberAfter
  <2> QED BY <2>1 DEF Planned
<1>6. DOMAIN f = Entries /\ f = [e \in Entries |-> f[e]] BY DEF Planned
<1>7. m \in 1 .. MaxNumber /\ (m = a \/ (m = a + 1 /\ ~ before)) BY <1>3
<1>8. \A e \in Entries : rows[e] < a => rows[e] < m BY <1>1, <1>3, <1>7
<1>9. \A e \in Entries : a < rows[e] => m < rows[e] BY <1>1, <1>3, <1>7
<1> HIDE DEF f, m
<1>10. \A e \in Entries : f[e] \in 0 .. MaxNumber /\ (f[e] = 0 <=> rows[e] = 0)
  BY <1>1, <1>3, <1>4, <1>5, <1>7
<1>11. f \in [Entries -> 0 .. MaxNumber] BY <1>6, <1>10
<1>12. \A n \in Nat : (\A e \in Entries : rows[e] < n) /\ (~ before => n # a + 1) =>
         \A e \in Entries : f[e] < n
  <2> SUFFICES ASSUME NEW n \in Nat, \A e \in Entries : rows[e] < n, ~ before => n # a + 1,
                      NEW e \in Entries
      PROVE f[e] < n
    OBVIOUS
  <2>1. a < n OBVIOUS
  <2>2. m < n BY <1>3, <1>7, <2>1
  <2> QED BY <1>4, <1>5, <2>2
<1>13. RisesMoved(f, wanted, o, o, before)
  <2> SUFFICES ASSUME NEW i \in 1 .. Len(wanted), NEW j \in 1 .. Len(wanted), wanted[i] # o
      PROVE /\ i < j /\ wanted[j] # o => f[wanted[i]] < f[wanted[j]]
            /\ wanted[j] = o /\ (i < j \/ (i = j /\ ~ before)) => f[wanted[i]] < f[o]
            /\ wanted[j] = o /\ (j < i \/ (i = j /\ before)) => f[o] < f[wanted[i]]
    BY DEF RisesMoved
  <2>1. wanted[i] \in Entries /\ wanted[j] \in Entries BY <1>2
  <2>2. (i < j => rows[wanted[i]] < rows[wanted[j]]) /\ (j < i => rows[wanted[j]] < rows[wanted[i]])
    BY DEF Rising
  <2>3. f[wanted[i]] = rows[wanted[i]] BY <1>5, <2>1
  <2>4. wanted[j] # o => f[wanted[j]] = rows[wanted[j]] BY <1>5, <2>1
  <2>5. wanted[j] = o => i # j OBVIOUS
  <2>6. wanted[j] = o /\ i < j => f[wanted[i]] < f[o] BY <1>4, <1>8, <2>1, <2>2, <2>3
  <2>7. wanted[j] = o /\ j < i => f[o] < f[wanted[i]] BY <1>4, <1>9, <2>1, <2>2, <2>3
  <2> QED BY <2>2, <2>3, <2>4, <2>5, <2>6, <2>7
<1> QED BY <1>10, <1>11, <1>12, <1>13 DEF f

\* That a list has an entry, and each of its entries once.
IsIn(e, list)  == \E i \in 1 .. Len(list) : list[i] = e
EachOnce(list) == \A i, j \in 1 .. Len(list) : list[i] = list[j] => i = j

\* That one list is another one in a different order.
Rearranged(new, list) ==
  /\ new \in Seq(Entries) /\ EachOnce(new)
  /\ \A e \in Entries : IsIn(e, new) <=> IsIn(e, list)

\* A list with such numbers, once the entry has been moved.
LEMMA MovedRises ==
  ASSUME NEW s \in Seq(Entries), EachOnce(s), NEW f \in [Entries -> Nat], NEW o, NEW t, o # t,
         NEW before \in BOOLEAN, IsIn(o, s), IsIn(t, s), RisesMoved(f, s, o, t, before)
  PROVE  /\ Rearranged(Balancing!Wanted!Moved(s, o, t, before), s)
         /\ Rising(f, Balancing!Wanted!Moved(s, o, t, before))
<1>0. \A i, j \in 1 .. Len(s) : s[i] = s[j] => i = j BY DEF EachOnce
<1>1. PICK a \in 1 .. Len(s) : s[a] = o BY DEF IsIn
<1>2. PICK b \in 1 .. Len(s) : s[b] = t BY DEF IsIn
<1> DEFINE p == IF a < b THEN IF before THEN b - 1 ELSE b ELSE IF before THEN b ELSE b + 1
           new == Balancing!Wanted!Moved(s, s[a], s[b], before)
           g(j) == IF j = p THEN a ELSE IF a <= j /\ j < p THEN j + 1
                   ELSE IF p < j /\ j <= a THEN j - 1 ELSE j
           n == Len(s)
<1>3. a # b BY <1>1, <1>2
<1>4. /\ new \in Seq(Entries) /\ Len(new) = n
      /\ \A j \in 1 .. n : new[j] = s[g(j)]
  <2>1. PICK z \in BOOLEAN : z = before OBVIOUS
  <2>2. LET q   == IF a < b THEN IF z THEN b - 1 ELSE b ELSE IF z THEN b ELSE b + 1
            l   == Balancing!Wanted!Moved(s, s[a], s[b], z)
        IN /\ l \in Seq(Entries) /\ Len(l) = Len(s)
           /\ \A j \in 1 .. Len(s) :
                l[j] = s[IF j = q THEN a ELSE IF a <= j /\ j < q THEN j + 1
                         ELSE IF q < j /\ j <= a THEN j - 1 ELSE j]
    BY <1>0, <1>3, MovedForm
  <2> QED BY <2>1, <2>2
<1>5. n \in Nat /\ a \in 1 .. n /\ b \in 1 .. n BY LenProperties
<1>6. \A j \in 1 .. n : s[j] \in Entries BY ElementOfSeq
<1>7. p \in 1 .. n BY <1>3, <1>5
<1>8. \A j \in 1 .. n : g(j) \in 1 .. n /\ (g(j) = a <=> j = p)
  <2> HIDE DEF p, n
  <2> TAKE j \in 1 .. n
  <2>1. CASE j = p BY <1>5, <2>1
  <2>2. CASE j # p /\ a <= j /\ j < p
    <3>1. g(j) = j + 1 BY <2>2
    <3> HIDE DEF g
    <3> QED BY <1>5, <1>7, <2>2, <3>1
  <2>3. CASE j # p /\ p < j /\ j <= a
    <3>1. g(j) = j - 1 BY <1>5, <1>7, <2>3
    <3> HIDE DEF g
    <3> QED BY <1>5, <1>7, <2>3, <3>1
  <2>4. CASE j # p /\ ~ (a <= j /\ j < p) /\ ~ (p < j /\ j <= a)
    <3>1. g(j) = j /\ j # a BY <1>5, <1>7, <2>4
    <3> HIDE DEF g
    <3> QED BY <1>5, <1>7, <2>4, <3>1
  <2> QED BY <2>1, <2>2, <2>3, <2>4
<1>9. \A i, j \in 1 .. n : i < j /\ i # p /\ j # p => g(i) < g(j)
  <2> HIDE DEF p, n
  <2>1. \A k \in 1 .. n : k # p => \/ g(k) = k + 1 /\ a <= k /\ k < p
                                   \/ g(k) = k - 1 /\ p < k /\ k <= a
                                   \/ g(k) = k /\ ~ (a <= k /\ k < p) /\ ~ (p < k /\ k <= a)
    OBVIOUS
  <2> HIDE DEF g
  <2> SUFFICES ASSUME NEW i \in 1 .. n, NEW j \in 1 .. n, i < j, i # p, j # p PROVE g(i) < g(j)
    OBVIOUS
  <2>2. i \in Int /\ j \in Int /\ p \in Int /\ a \in Int BY <1>5, <1>7
  <2>3. CASE g(i) = i + 1 /\ a <= i /\ i < p
    <3>1. i + 1 < j \/ (i + 1 = j /\ j < p) BY <2>2, <2>3
    <3>2. ~ (p < j /\ j <= a) BY <2>2, <2>3
    <3>3. (g(j) = j + 1 /\ j < p) \/ g(j) = j BY <2>1, <3>2
    <3>4. g(j) = j => ~ (a <= j /\ j < p) BY <2>1, <2>2
    <3> QED BY <2>2, <2>3, <3>1, <3>3, <3>4
  <2>4. CASE g(i) = i - 1 /\ p < i /\ i <= a
    <3>1. ~ (a <= j /\ j < p) BY <2>2, <2>4
    <3>2. g(j) = j - 1 \/ g(j) = j BY <2>1, <3>1
    <3> QED BY <2>2, <2>4, <3>2
  <2>5. CASE g(i) = i /\ ~ (a <= i /\ i < p) /\ ~ (p < i /\ i <= a)
    <3>1. CASE g(j) = j - 1 /\ p < j /\ j <= a BY <2>2, <2>5, <3>1
    <3>2. CASE g(j) # j - 1
      <4>1. g(j) = j + 1 \/ g(j) = j BY <2>1, <3>2
      <4> QED BY <2>2, <2>5, <4>1
    <3>3. g(j) = j - 1 => p < j /\ j <= a BY <2>1, <2>2
    <3> QED BY <3>1, <3>2, <3>3
  <2> QED BY <2>1, <2>3, <2>4, <2>5
<1>10. \A j \in 1 .. n : \E i \in 1 .. n : g(i) = j
  <2> HIDE DEF p, n
  <2> TAKE j \in 1 .. n
  <2>1. CASE j = a BY <1>7, <2>1
  <2>2. CASE j # a /\ a < j /\ j <= p
    <3>1. j - 1 \in 1 .. n /\ g(j - 1) = j BY <1>5, <1>7, <2>2
    <3> QED BY <3>1
  <2>3. CASE j # a /\ p <= j /\ j < a
    <3>1. j + 1 \in 1 .. n /\ g(j + 1) = j BY <1>5, <1>7, <2>3
    <3> QED BY <3>1
  <2>4. CASE j # a /\ ~ (a < j /\ j <= p) /\ ~ (p <= j /\ j < a)
    <3>1. g(j) = j BY <1>5, <1>7, <2>4
    <3> QED BY <3>1
  <2> QED BY <2>1, <2>2, <2>3, <2>4
<1>11. \A j \in 1 .. n : (j < p => g(j) < b \/ (g(j) = b /\ ~ before))
                      /\ (p < j => b < g(j) \/ (g(j) = b /\ before))
  <2>1. CASE a < b /\ before BY <1>5, <2>1
  <2>2. CASE a < b /\ ~ before BY <1>5, <2>2
  <2>3. CASE ~ (a < b) /\ before BY <1>3, <1>5, <2>3
  <2>4. CASE ~ (a < b) /\ ~ before BY <1>3, <1>5, <2>4
  <2> QED BY <2>1, <2>2, <2>3, <2>4
<1> HIDE DEF p, g, new, n
<1>12. \A e \in Entries : (\E i \in 1 .. n : new[i] = e) <=> \E i \in 1 .. n : s[i] = e
  <2> TAKE e \in Entries
  <2>1. ASSUME NEW i \in 1 .. n, new[i] = e PROVE \E j \in 1 .. n : s[j] = e
    BY <1>4, <1>8, <2>1
  <2>2. ASSUME NEW j \in 1 .. n, s[j] = e PROVE \E i \in 1 .. n : new[i] = e
    <3>1. PICK i \in 1 .. n : g(i) = j BY <1>10
    <3>2. new[i] = e BY <1>4, <2>2, <3>1
    <3> QED BY <3>2
  <2> QED BY <2>1, <2>2
<1>13. \A i, j \in 1 .. n : g(i) = g(j) => i = j
  <2> SUFFICES ASSUME NEW i \in 1 .. n, NEW j \in 1 .. n, g(i) = g(j), i # j PROVE FALSE OBVIOUS
  <2>1. i # p /\ j # p BY <1>8
  <2>2. i < j \/ j < i BY <1>5
  <2>3. g(i) < g(j) \/ g(j) < g(i) BY <1>9, <2>1, <2>2
  <2>4. g(i) \in Nat /\ g(j) \in Nat BY <1>8
  <2> QED BY <2>3, <2>4
<1>14. \A i, j \in 1 .. n : new[i] = new[j] => i = j
  <2> SUFFICES ASSUME NEW i \in 1 .. n, NEW j \in 1 .. n, new[i] = new[j] PROVE g(i) = g(j)
    BY <1>13
  <2>1. s[g(i)] = s[g(j)] BY <1>4
  <2>2. g(i) \in 1 .. n /\ g(j) \in 1 .. n BY <1>8
  <2> QED BY <1>0, <2>1, <2>2 DEF n
<1>15. \A i, j \in 1 .. n : i < j => f[new[i]] < f[new[j]]
  <2> SUFFICES ASSUME NEW i \in 1 .. n, NEW j \in 1 .. n, i < j PROVE f[new[i]] < f[new[j]]
    OBVIOUS
  <2>1. g(i) \in 1 .. n /\ g(j) \in 1 .. n /\ new[i] = s[g(i)] /\ new[j] = s[g(j)] BY <1>4, <1>8
  <2>2. CASE i # p /\ j # p
    <3>1. g(i) < g(j) BY <1>9, <2>2
    <3>2. s[g(i)] # o /\ s[g(j)] # o BY <1>0, <1>1, <1>8, <2>1, <2>2 DEF n
    <3> QED BY <2>1, <3>1, <3>2 DEF RisesMoved, n
  <2>3. CASE j = p
    <3>1. new[j] = o BY <1>1, <1>8, <2>1, <2>3
    <3>2. i # p /\ i < p BY <1>5, <1>7, <2>3
    <3>3. s[g(i)] # o BY <1>0, <1>1, <1>8, <2>1, <3>2 DEF n
    <3>4. g(i) < b \/ (g(i) = b /\ ~ before) BY <1>11, <3>2
    <3>5. f[s[g(i)]] < f[o] BY <1>2, <2>1, <3>3, <3>4 DEF RisesMoved, n
    <3> QED BY <2>1, <3>1, <3>5
  <2>4. CASE i = p
    <3>1. new[i] = o BY <1>1, <1>8, <2>1, <2>4
    <3>2. j # p /\ p < j BY <1>5, <1>7, <2>4
    <3>3. s[g(j)] # o BY <1>0, <1>1, <1>8, <2>1, <3>2 DEF n
    <3>4. b < g(j) \/ (g(j) = b /\ before) BY <1>11, <3>2
    <3>5. f[o] < f[s[g(j)]] BY <1>2, <2>1, <3>3, <3>4 DEF RisesMoved, n
    <3> QED BY <2>1, <3>1, <3>5
  <2> QED BY <2>2, <2>3, <2>4
<1>16. Balancing!Wanted!Moved(s, o, t, before) = new BY <1>1, <1>2 DEF new
<1>17. Len(new) = n /\ Rising(f, new) BY <1>4, <1>15 DEF Rising
<1>18. EachOnce(new) BY <1>14, <1>17 DEF EachOnce
<1>19. \A e \in Entries : IsIn(e, new) <=> IsIn(e, s) BY <1>12, <1>17 DEF IsIn, n
<1> QED BY <1>4, <1>16, <1>17, <1>18, <1>19 DEF Rearranged

LEMMA WorkForm ==
  ASSUME NEW q \in FallWork
  PROVE  /\ q.kind = "none" <=> q = Balancing!Free
         /\ q.kind = "create" => q \in CreateWork
         /\ q.at = "write" => q \in CreateWork
         /\ q.at = "list" => q \in ListWork
         /\ q.at = "update" => q \in UpdateWork
         /\ q.kind = "sort" => q \in ListWork \cup UpdateWork
         /\ q.kind = "sort" /\ q.at = "push" => q \in UpdateWork
         /\ q.kind = "sync" => q \in SyncWork
         /\ q.kind \in {"none", "create", "sort", "sync"}
         /\ q.at \in {"none", "write", "list", "update", "push"}
         /\ q.at = "push" => q.kind \in {"sort", "sync"}
<1>1. Balancing!Free.kind = "none" /\ Balancing!Free.at = "none" BY DEF Balancing!Free
<1>2. \A p \in CreateWork : p.kind = "create" /\ p.at = "write" BY DEF CreateWork
<1>3. \A p \in ListWork : p.kind = "sort" /\ p.at = "list" BY DEF ListWork
<1>4. \A p \in UpdateWork : p.kind = "sort" /\ p.at \in {"update", "push"} BY DEF UpdateWork
<1>5. \A p \in SyncWork : p.kind = "sync" /\ p.at = "push" BY DEF SyncWork
<1>6. \/ q = Balancing!Free \/ q \in CreateWork \/ q \in ListWork \/ q \in UpdateWork
      \/ q \in SyncWork
  BY DEF FallWork
<1> QED BY <1>1, <1>2, <1>3, <1>4, <1>5, <1>6

LEMMA PutWork ==
  ASSUME FallTypes, NEW r \in Pair, NEW q \in FallWork, Balancing!Put(r, q)
  PROVE  /\ rq' \in [Pair -> FallWork]
         /\ rq'[r] = q /\ \A s \in Pair \ {r} : rq'[s] = rq[s]
         /\ UnderWay' \subseteq UnderWay \cup {q} /\ q \in UnderWay'
         /\ UnderWay \subseteq UnderWay' \cup {rq[r]}
         /\ \A p \in UnderWay' : p = q \/ \E s \in Pair \ {r} : p = rq[s]
<1>1. rq \in [Pair -> FallWork] /\ rq' = [rq EXCEPT ![r] = q] BY DEF FallTypes, Balancing!Put
<1>2. rq' \in [Pair -> FallWork] /\ rq'[r] = q /\ \A s \in Pair \ {r} : rq'[s] = rq[s] BY <1>1
<1> QED BY <1>2 DEF UnderWay

\* A request that goes on, or ends, and does not write.
LEMMA FallPut ==
  ASSUME FallRows, NEW r \in Pair, NEW q \in FallWork, Balancing!Put(r, q),
         rows' = rows, wanted' = wanted, gateway' \in [Entries -> 0 .. MaxNumber],
         \A s \in Pair \ {r} : Apart(q, rq[s]) /\ Apart(rq[s], q),
         q.kind = "create" => AddsLast(q) /\ \A p \in UnderWay : p.kind # "sort",
         q.kind = "sort" => Sorts(q)',
         q.kind = "sync" => Right(q.sent),
         HalfWay(rq[r]) => HalfWay(q)
  PROVE  FallRows'
<1>1. /\ rq' \in [Pair -> FallWork]
      /\ rq'[r] = q /\ \A s \in Pair \ {r} : rq'[s] = rq[s]
      /\ UnderWay' \subseteq UnderWay \cup {q} /\ q \in UnderWay'
      /\ UnderWay \subseteq UnderWay' \cup {rq[r]}
      /\ \A p \in UnderWay' : p = q \/ \E s \in Pair \ {r} : p = rq[s]
  BY PutWork DEF FallRows
<1>2. FallTypes' BY <1>1 DEF FallRows, FallTypes
<1>3. FallApart' BY <1>1 DEF FallRows, FallApart
<1>4. FallAdds' BY <1>1 DEF FallRows, FallAdds, AddsLast
<1>5. FallListed' BY DEF FallRows, FallListed
<1>6. FallRising' BY <1>1 DEF FallRows, FallRising, Rising
<1>7. FallSorts'
  <2> SUFFICES ASSUME NEW p \in UnderWay', p.kind = "sort" PROVE Sorts(p)' BY DEF FallSorts
  <2>1. CASE p = q BY <2>1
  <2>2. CASE p # q
    <3>1. p \in UnderWay /\ Sorts(p) BY <1>1, <2>2 DEF FallRows, FallSorts
    <3>2. \A w \in UnderWay' : w.kind = "create" => w \in UnderWay BY <1>1, <3>1
    <3>3. \A f \in [Entries -> 0 .. MaxNumber] : Leaves(p, f) => Leaves(p, f)'
      BY <3>2 DEF Leaves, RisesMoved
    <3>4. \A list : Right(list) => Right(list)' BY DEF Right
    <3>5. FindsRoom(p) => FindsRoom(p)' BY <3>2 DEF FindsRoom, Vacant
    <3> QED BY <3>1, <3>3, <3>4, <3>5 DEF Sorts
  <2> QED BY <2>1, <2>2
<1>8. FallSyncs' BY <1>1 DEF FallRows, FallSyncs, Right
<1> QED BY <1>2, <1>3, <1>4, <1>5, <1>6, <1>7, <1>8 DEF FallRows

\* What the invariant says of the rows stays as it is when they and the requests do.
LEMMA RowsStay ==
  ASSUME FallRows, UNCHANGED <<rows, rq, wanted>>, gateway' \in [Entries -> 0 .. MaxNumber]
  PROVE  FallRows'
<1>1. UnderWay' = UnderWay BY DEF UnderWay
<1>2. FallTypes' BY DEF FallRows, FallTypes
<1>3. FallApart' BY DEF FallRows, FallApart
<1>4. FallAdds' BY <1>1 DEF FallRows, FallAdds, AddsLast
<1>5. FallListed' BY DEF FallRows, FallListed
<1>6. FallRising' BY <1>1 DEF FallRows, FallRising, Rising
<1>7. \A list : Right(list) => Right(list)' BY DEF Right
<1>8. \A q : \A f \in [Entries -> 0 .. MaxNumber] : Leaves(q, f) => Leaves(q, f)'
  BY <1>1 DEF Leaves, RisesMoved
<1>9. \A q : FindsRoom(q) => FindsRoom(q)' BY <1>1 DEF FindsRoom, Vacant
<1>10. \A q : Sorts(q) => Sorts(q)' BY <1>7, <1>8, <1>9 DEF Sorts
<1>11. FallSorts' BY <1>1, <1>10 DEF FallRows, FallSorts
<1>12. FallSyncs' BY <1>1, <1>7 DEF FallRows, FallSyncs
<1> QED BY <1>2, <1>3, <1>4, <1>5, <1>6, <1>11, <1>12 DEF FallRows

\* What a request that is not the first of its kind may find.
LEMMA FallStarts ==
  ASSUME NEW kind, Balancing!Starts(kind), ~ skewed'
  PROVE  \A q \in UnderWay : q.kind \notin Balancing!Disturbs[kind]
BY DEF Balancing!Starts, Balancing!Overlaps, Balancing!InProgress, UnderWay

LEMMA FreeApart ==
  \A q : Apart(Balancing!Free, q) /\ Apart(q, Balancing!Free)
BY DEF Apart, Balancing!Free

LEMMA FallEnds ==
  ASSUME FallRows, NEW r \in Pair, Balancing!Done(r), rows' = rows, wanted' = wanted,
         gateway' \in [Entries -> 0 .. MaxNumber], ~ HalfWay(rq[r])
  PROVE  FallRows'
<1> DEFINE q == Balancing!Free
<1>1. q \in FallWork /\ q.kind = "none" BY DEF Balancing!Free, FallWork
<1>2. Balancing!Put(r, q) BY DEF Balancing!Done
<1>3. \A s \in Pair \ {r} : Apart(q, rq[s]) /\ Apart(rq[s], q) BY FreeApart
<1> HIDE DEF q
<1> QED BY <1>1, <1>2, <1>3, FallPut

\* The gateway is told of some numbers.
LEMMA ToldForm ==
  ASSUME MaxNumber \in Nat, FallTypes, NEW list \in Seq(Pairs), Balancing!Online(list)
  PROVE  /\ gateway' \in [Entries -> 0 .. MaxNumber]
         /\ \A e \in Entries, n \in 0 .. MaxNumber :
              /\ \A i \in 1 .. Len(list) : list[i][1] = e => list[i][2] = n
              /\ gateway[e] = n \/ e \in missed \/ \E i \in 1 .. Len(list) : list[i][1] = e
              => gateway'[e] = n \/ e \in missed'
<1>1. \A i \in 1 .. Len(list) : list[i] \in Pairs BY ElementOfSeq
<1>2. Len(list) \in Nat /\ DOMAIN list = 1 .. Len(list) BY LenProperties
<1>3. PICK k \in 0 .. Len(list) :
        LET sent == {list[i] : i \in 1 .. k} IN
        /\ gateway' = [e \in Entries |-> IF \E u \in sent : u[1] = e
                                          THEN (CHOOSE u \in sent : u[1] = e)[2] ELSE gateway[e]]
        /\ missed' = (missed \cup Balancing!Named(list)) \ {u[1] : u \in sent}
  BY DEF Balancing!Online
<1> DEFINE sent == {list[i] : i \in 1 .. k}
           v(e) == CHOOSE u \in sent : u[1] = e
<1>4. \A u \in sent : u \in Pairs /\ \E i \in 1 .. Len(list) : u = list[i] BY <1>1, <1>2
<1>5. /\ gateway' = [e \in Entries |-> IF \E u \in sent : u[1] = e THEN v(e)[2] ELSE gateway[e]]
      /\ missed' = (missed \cup Balancing!Named(list)) \ {u[1] : u \in sent}
  BY <1>3
<1>6. \A e : (\E u \in sent : u[1] = e) => v(e) \in sent /\ v(e)[1] = e OBVIOUS
<1>7. \A i \in 1 .. Len(list) : list[i][1] \in Balancing!Named(list)
  BY <1>2 DEF Balancing!Named, Balancing!Range
<1> HIDE DEF sent, v
<1>8. gateway \in [Entries -> 0 .. MaxNumber] BY DEF FallTypes
<1>9. \A e \in Entries : gateway'[e] \in 0 .. MaxNumber
  <2> TAKE e \in Entries
  <2>1. CASE \E u \in sent : u[1] = e
    <3>1. v(e) \in Pairs /\ gateway'[e] = v(e)[2] BY <1>4, <1>5, <1>6, <2>1
    <3> QED BY <3>1 DEF Pairs
  <2>2. CASE ~ \E u \in sent : u[1] = e BY <1>5, <1>8, <2>2
  <2> QED BY <2>1, <2>2
<1>10. gateway' \in [Entries -> 0 .. MaxNumber] BY <1>5, <1>9
<1>11. ASSUME NEW e \in Entries, NEW n \in 0 .. MaxNumber,
              \A i \in 1 .. Len(list) : list[i][1] = e => list[i][2] = n,
              gateway[e] = n \/ e \in missed \/ \E i \in 1 .. Len(list) : list[i][1] = e
       PROVE  gateway'[e] = n \/ e \in missed'
  <2>1. CASE \E u \in sent : u[1] = e
    <3>1. v(e) \in sent /\ v(e)[1] = e /\ gateway'[e] = v(e)[2] BY <1>5, <1>6, <2>1
    <3> QED BY <1>4, <1>11, <3>1
  <2>2. CASE ~ \E u \in sent : u[1] = e BY <1>5, <1>7, <1>11, <2>2
  <2> QED BY <2>1, <2>2
<1> QED BY <1>10, <1>11

LEMMA FallInit ==
  ASSUME MaxNumber \in Nat, Balancing!Init
  PROVE  FallInv
<1>1. rows = [e \in Entries |-> 0] /\ gateway = [e \in Entries |-> 0] /\ wanted = <<>>
  BY DEF Balancing!Init
<1>2. rq = [r \in Pair |-> Balancing!Free] BY DEF Balancing!Init
<1>3. \A q \in UnderWay : q = Balancing!Free BY <1>2 DEF UnderWay
<1>4. Balancing!Free.kind = "none" BY DEF Balancing!Free
<1>5. FallTypes
  <2>1. Balancing!Free \in FallWork BY DEF FallWork
  <2> QED BY <1>1, <1>2, <2>1 DEF FallTypes
<1>6. FallApart BY <1>2, FreeApart DEF FallApart
<1>7. FallAdds /\ FallSorts /\ FallSyncs BY <1>3, <1>4 DEF FallAdds, FallSorts, FallSyncs
<1>8. FallListed /\ FallRising BY <1>1 DEF FallListed, FallRising, Rising
<1>9. FallSent BY <1>1 DEF FallSent
<1> QED BY <1>5, <1>6, <1>7, <1>8, <1>9 DEF FallInv, FallRows

LEMMA SentStays ==
  ASSUME FallTypes, FallSent, NEW r \in Pair, NEW q \in FallWork, Balancing!Put(r, q),
         rows' = rows, gateway' = gateway, missed' = missed, ToSend(rq[r]) \subseteq ToSend(q)
  PROVE  FallSent'
<1>1. UnderWay \subseteq UnderWay' \cup {rq[r]} /\ q \in UnderWay' BY PutWork
<1>2. \A e \in Entries : (\E p \in UnderWay : e \in ToSend(p)) => \E p \in UnderWay' : e \in ToSend(p)
  BY <1>1
<1> QED BY <1>2 DEF FallSent

LEMMA NamedForm ==
  ASSUME NEW list \in Seq(Pairs)
  PROVE  \A e : e \in Balancing!Named(list) <=> \E i \in 1 .. Len(list) : list[i][1] = e
<1>1. DOMAIN list = 1 .. Len(list) BY LenProperties
<1> QED BY <1>1 DEF Balancing!Named, Balancing!Range

LEMMA SentEnds ==
  ASSUME MaxNumber \in Nat, FallTypes, FallSent, NEW r \in Pair, Balancing!Done(r),
         rows' = rows, NEW list \in Seq(Pairs), Right(list), Balancing!Online(list),
         ToSend(rq[r]) \subseteq Balancing!Named(list)
  PROVE  FallSent' /\ gateway' \in [Entries -> 0 .. MaxNumber]
<1> DEFINE q == Balancing!Free
<1>1. q \in FallWork /\ Balancing!Put(r, q) BY DEF FallWork, Balancing!Done
<1> HIDE DEF q
<1>2. UnderWay \subseteq UnderWay' \cup {rq[r]} BY <1>1, PutWork
<1>3. /\ gateway' \in [Entries -> 0 .. MaxNumber]
      /\ \A e \in Entries, n \in 0 .. MaxNumber :
           /\ \A i \in 1 .. Len(list) : list[i][1] = e => list[i][2] = n
           /\ gateway[e] = n \/ e \in missed \/ \E i \in 1 .. Len(list) : list[i][1] = e
           => gateway'[e] = n \/ e \in missed'
  BY ToldForm
<1>4. ASSUME NEW e \in Entries
      PROVE  gateway'[e] = rows'[e] \/ e \in missed' \/ \E p \in UnderWay' : e \in ToSend(p)
  <2> SUFFICES ASSUME ~ \E p \in UnderWay' : e \in ToSend(p)
      PROVE gateway'[e] = rows'[e] \/ e \in missed'
    OBVIOUS
  <2>1. (\E p \in UnderWay : e \in ToSend(p)) => e \in Balancing!Named(list) BY <1>2
  <2>2. gateway[e] = rows[e] \/ e \in missed \/ e \in Balancing!Named(list) BY <2>1 DEF FallSent
  <2>3. rows[e] \in 0 .. MaxNumber BY DEF FallTypes
  <2>4. \A i \in 1 .. Len(list) : list[i][1] = e => list[i][2] = rows[e] BY DEF Right
  <2>5. gateway'[e] = rows[e] \/ e \in missed' BY <1>3, <2>2, <2>3, <2>4, NamedForm
  <2> QED BY <2>5
<1> QED BY <1>3, <1>4 DEF FallSent

LEMMA FallCreateRead ==
  ASSUME MaxNumber \in Nat, FallRows, FallSent, NEW r \in Pair, NEW e \in Entries,
         Balancing!CreateRead(r, e), ~ skewed'
  PROVE  FallRows' /\ FallSent'
<1> DEFINE q == [kind |-> "create", at |-> "write", entry |-> e, number |-> Balancing!Largest + 1]
<1>0. FallTypes BY DEF FallRows
<1>1. /\ Balancing!Put(r, q) /\ rows' = rows /\ wanted' = wanted /\ gateway' = gateway
      /\ missed' = missed /\ Balancing!Starts("create") /\ rq[r] = Balancing!Free
      /\ rows[e] = 0 /\ Balancing!Largest < MaxNumber
  BY DEF Balancing!CreateRead, Balancing!New, Balancing!Stored
<1>2. Balancing!Disturbs["create"] = {"create", "sort"} BY DEF Balancing!Disturbs
<1>3. \A p \in UnderWay : p.kind \notin {"create", "sort"}
  BY <1>1, <1>2, FallStarts
<1>4. Balancing!Largest \in 0 .. MaxNumber /\ \A d \in Entries : rows[d] <= Balancing!Largest
  BY <1>0, LargestForm
<1>5. \A d \in Entries : rows[d] \in Nat BY <1>0 DEF FallTypes
<1>6. q.number \in 1 .. MaxNumber /\ \A d \in Entries : rows[d] < q.number BY <1>1, <1>4, <1>5
<1>7. q.kind = "create" /\ q.entry = e OBVIOUS
<1>8. q \in FallWork BY <1>6 DEF FallWork, CreateWork
<1> HIDE DEF q
<1>9. \A s \in Pair : rq[s].kind \notin {"create", "sort"} BY <1>3 DEF UnderWay
<1>10. \A s \in Pair \ {r} : Apart(q, rq[s]) /\ Apart(rq[s], q) BY <1>7, <1>9 DEF Apart
<1>11. ~ HalfWay(rq[r]) /\ ToSend(rq[r]) = {} BY <1>1 DEF HalfWay, ToSend, Balancing!Free
<1>12. AddsLast(q) BY <1>1, <1>6, <1>7 DEF AddsLast
<1>13. gateway' \in [Entries -> 0 .. MaxNumber] BY <1>0, <1>1 DEF FallTypes
<1>14. FallRows' BY <1>1, <1>3, <1>7, <1>8, <1>10, <1>11, <1>12, <1>13, FallPut
<1>15. FallSent' BY <1>0, <1>1, <1>8, <1>11, SentStays
<1> QED BY <1>14, <1>15

LEMMA FallSortRead ==
  ASSUME MaxNumber \in Nat, FallRows, FallSent, NEW r \in Pair, NEW o \in Entries,
         NEW t \in Entries, NEW before \in BOOLEAN, Balancing!SortRead(r, o, t, before), ~ skewed'
  PROVE  FallRows' /\ FallSent'
<1> DEFINE w == [kind |-> "sort", at |-> "list", origin |-> o, target |-> t, before |-> before,
                 from |-> rows[o], to |-> rows[t]]
<1>0. FallTypes BY DEF FallRows
<1>1. /\ Balancing!Put(r, w) /\ rows' = rows /\ wanted' = wanted /\ gateway' = gateway
      /\ missed' = missed /\ ~ Balancing!Overlaps("sort") /\ rq[r] = Balancing!Free
      /\ rows[o] # 0 /\ rows[t] # 0
      /\ Balancing!Climbs(o, t, before) => rows[o] < MaxNumber
      /\ ~ Balancing!Ties(o, t, before)
  BY DEF Balancing!SortRead, Balancing!Stored
<1>2. Balancing!Disturbs["sort"] = {"sort", "sync"} BY DEF Balancing!Disturbs
<1>3. \A p \in UnderWay : p.kind \notin {"sort", "sync"}
  BY <1>1, <1>2 DEF Balancing!Overlaps, Balancing!InProgress, UnderWay
<1>4. \A d \in Entries : rows[d] \in 0 .. MaxNumber BY <1>0 DEF FallTypes
<1>5. rows[o] \in 1 .. MaxNumber /\ rows[t] \in 1 .. MaxNumber BY <1>1, <1>4
<1>6. w \in FallWork BY <1>5 DEF FallWork, ListWork
<1>7. PICK q \in FallWork : q = w BY <1>6
<1>8. /\ q.kind = "sort" /\ q.at = "list" /\ q.origin = o /\ q.target = t
      /\ q.before = before /\ q.from = rows[o] /\ q.to = rows[t]
  BY <1>7
<1> HIDE DEF w
<1>9. \A s \in Pair : rq[s].kind \notin {"sort", "sync"} BY <1>3 DEF UnderWay
<1>10. \A s \in Pair \ {r} : Apart(q, rq[s]) /\ Apart(rq[s], q) BY <1>8, <1>9 DEF Apart
<1>11. ~ HalfWay(rq[r]) /\ ToSend(rq[r]) = {} BY <1>1 DEF HalfWay, ToSend, Balancing!Free
<1>12. Sorts(q)'
  <2>1. UnderWay' \subseteq UnderWay \cup {q} BY <1>0, <1>1, <1>7, PutWork
  <2>2. ASSUME Balancing!Climbs(o, t, before) PROVE Vacant(rows[o] + 1)
    <3>1. \A e \in Entries : rows[e] # 0 => rows[e] # rows[o] + 1
      BY <1>1, <2>2 DEF Balancing!Ties, Balancing!Stored
    <3>2. rows[o] + 1 # 0 BY <1>5
    <3>3. \A c \in UnderWay : c.kind = "create" => c.number # rows[o] + 1
      BY <1>1, <2>2 DEF Balancing!Ties, Balancing!InProgress, UnderWay
    <3> QED BY <3>1, <3>2, <3>3 DEF Vacant
  <2>3. \A n : Vacant(n) => Vacant(n)' BY <1>1, <1>8, <2>1 DEF Vacant
  <2>4. FindsRoom(q)' BY <1>1, <1>8, <2>2, <2>3 DEF FindsRoom
  <2> QED BY <1>1, <1>8, <2>4 DEF Sorts
<1>13. gateway' \in [Entries -> 0 .. MaxNumber] BY <1>0, <1>1 DEF FallTypes
<1>14. FallRows' BY <1>1, <1>7, <1>8, <1>10, <1>11, <1>12, <1>13, FallPut
<1>15. FallSent' BY <1>0, <1>1, <1>7, <1>11, SentStays
<1> QED BY <1>14, <1>15

LEMMA FallSyncRead ==
  ASSUME IsFiniteSet(Entries), MaxNumber \in Nat, FallRows, FallSent, NEW r \in Pair,
         NEW all \in BOOLEAN, Balancing!SyncRead(r, all), ~ skewed'
  PROVE  FallRows' /\ FallSent'
<1> DEFINE S == {e \in Balancing!Stored : all \/ e \in Local}
           list == Balancing!ByNumber(S)
           sent == Balancing!Numbered(list)
           q == [kind |-> "sync", at |-> "push", sent |-> sent]
<1>0. FallTypes BY DEF FallRows
<1>1. /\ Balancing!Put(r, q) /\ rows' = rows /\ wanted' = wanted /\ gateway' = gateway
      /\ missed' = missed /\ Balancing!Starts("sync") /\ rq[r] = Balancing!Free
  BY DEF Balancing!SyncRead
<1>2. Balancing!Disturbs["sync"] = {"sort"} BY DEF Balancing!Disturbs
<1>3. \A p \in UnderWay : p.kind # "sort" BY <1>1, <1>2, FallStarts
<1>4. \A d \in Entries : rows[d] \in 0 .. MaxNumber BY <1>0 DEF FallTypes
<1>5. \A e \in S : e \in Entries /\ rows[e] \in 1 .. MaxNumber BY <1>4 DEF Balancing!Stored
<1>6. S \in SUBSET Entries BY <1>5
<1>7. q.kind = "sync" /\ q.at = "push" /\ q.sent = sent OBVIOUS
<1> HIDE DEF S
<1>8. PICK n \in Nat : Sorted(list, rows, S, n) BY <1>0, <1>6, ByNumberForm
<1>9. DOMAIN list = 1 .. n /\ \A i \in 1 .. n : list[i] \in S BY <1>8 DEF Sorted
<1> HIDE DEF list
<1>10. sent = [i \in 1 .. n |-> <<list[i], rows[list[i]]>>] BY <1>9 DEF Balancing!Numbered
<1>11. \A i \in 1 .. n : <<list[i], rows[list[i]]>> \in Pairs BY <1>5, <1>9 DEF Pairs
<1> HIDE DEF sent
<1>12. sent \in [1 .. n -> Pairs] BY <1>10, <1>11
<1>13. sent \in Seq(Pairs) /\ Len(sent) = n BY <1>12, IsASeq, LenProperties
<1>14. Right(sent) BY <1>10, <1>13 DEF Right
<1>15. q \in FallWork BY <1>13 DEF FallWork, SyncWork
<1> HIDE DEF q
<1>16. \A s \in Pair : rq[s].kind # "sort" BY <1>3 DEF UnderWay
<1>17. \A s \in Pair \ {r} : Apart(q, rq[s]) /\ Apart(rq[s], q) BY <1>7, <1>16 DEF Apart
<1>18. ~ HalfWay(rq[r]) /\ ToSend(rq[r]) = {} BY <1>1 DEF HalfWay, ToSend, Balancing!Free
<1>19. gateway' \in [Entries -> 0 .. MaxNumber] BY <1>0, <1>1 DEF FallTypes
<1>20. FallRows' BY <1>1, <1>7, <1>14, <1>15, <1>17, <1>18, <1>19, FallPut
<1>21. FallSent' BY <1>0, <1>1, <1>15, <1>18, SentStays
<1> QED BY <1>20, <1>21

\* What is sent to the gateway when a sort or a synchronisation ends.
LEMMA FallPush ==
  ASSUME MaxNumber \in Nat, FallRows, FallSent, NEW r \in Pair,
         Balancing!SortPush(r) \/ Balancing!SyncPush(r)
  PROVE  FallRows' /\ FallSent'
<1> DEFINE list == rq[r].sent
<1>0. FallTypes /\ rq[r] \in FallWork /\ rq[r] \in UnderWay
  BY DEF FallRows, FallTypes, UnderWay
<1>1. /\ rq[r].at = "push" /\ rq[r].kind \in {"sort", "sync"} /\ Balancing!Online(list)
      /\ Balancing!Done(r) /\ rows' = rows /\ wanted' = wanted
  BY DEF Balancing!SortPush, Balancing!SyncPush, Balancing!Unwritten
<1>2. rq[r] \in UpdateWork \/ rq[r] \in SyncWork BY <1>0, <1>1, WorkForm
<1>3. list \in Seq(Pairs) BY <1>2 DEF UpdateWork, SyncWork
<1>4. Right(list)
  <2>1. CASE rq[r].kind = "sort" BY <1>0, <1>1, <2>1 DEF FallRows, FallSorts, Sorts
  <2>2. CASE rq[r].kind = "sync" BY <1>0, <1>1, <2>2 DEF FallRows, FallSyncs
  <2> QED BY <1>1, <2>1, <2>2
<1>5. ToSend(rq[r]) \subseteq Balancing!Named(list) BY DEF ToSend
<1>6. ~ HalfWay(rq[r]) BY <1>1 DEF HalfWay
<1> HIDE DEF list
<1>7. FallSent' /\ gateway' \in [Entries -> 0 .. MaxNumber]
  BY <1>0, <1>1, <1>3, <1>4, <1>5, SentEnds
<1> QED BY <1>1, <1>6, <1>7, FallEnds

LEMMA FallFail ==
  ASSUME MaxNumber \in Nat, FallRows, FallSent, NEW r \in Pair, Balancing!Fail(r), ~ skewed'
  PROVE  FallRows' /\ FallSent'
<1> DEFINE q == rq[r]
           free == Balancing!Free
<1>0. FallTypes /\ q \in FallWork /\ q \in UnderWay BY DEF FallRows, FallTypes, UnderWay
<1>1. /\ Balancing!Done(r) /\ rows' = rows /\ wanted' = wanted
      /\ ~ (q.at = "update" /\ q.sent # <<>>)
      /\ \/ q.at = "write" /\ gateway' = [gateway EXCEPT ![q.entry] = q.number]
                           /\ missed' = missed \cup {q.entry}
         \/ q.at # "push" /\ gateway' = gateway /\ missed' = missed
         \/ q.at = "push" /\ gateway' = gateway /\ missed' = missed \cup Balancing!Named(q.sent)
  BY DEF Balancing!Fail
<1>2. gateway \in [Entries -> 0 .. MaxNumber] BY <1>0 DEF FallTypes
<1>3. ~ HalfWay(q) BY <1>1 DEF HalfWay
<1>4. q.at = "write" => q.entry \in Entries /\ q.number \in 0 .. MaxNumber /\ ToSend(q) = {}
  <2> SUFFICES ASSUME q.at = "write"
      PROVE q.entry \in Entries /\ q.number \in 0 .. MaxNumber /\ ToSend(q) = {}
    OBVIOUS
  <2>1. q \in CreateWork BY <1>0, WorkForm
  <2> HIDE DEF q
  <2> QED BY <2>1 DEF CreateWork, ToSend
<1>5. q.at # "push" => ToSend(q) = {}
  <2>1. q.at = "update" => Balancing!Named(q.sent) = {}
    BY <1>1 DEF Balancing!Named, Balancing!Range
  <2> QED BY <2>1 DEF ToSend
<1>6. q.at = "push" => ToSend(q) \subseteq Balancing!Named(q.sent) BY DEF ToSend
<1>7. gateway' \in [Entries -> 0 .. MaxNumber] BY <1>1, <1>2, <1>4
<1>8. FallRows' BY <1>1, <1>3, <1>7, FallEnds
<1>9. free \in FallWork /\ Balancing!Put(r, free) BY <1>1 DEF FallWork, Balancing!Done
<1> HIDE DEF free
<1>10. UnderWay \subseteq UnderWay' \cup {q} BY <1>0, <1>9, PutWork
<1> HIDE DEF q
<1>11. ASSUME NEW e \in Entries
       PROVE  gateway'[e] = rows'[e] \/ e \in missed' \/ \E p \in UnderWay' : e \in ToSend(p)
  <2>1. \/ gateway[e] = rows[e] \/ e \in missed \/ e \in ToSend(q)
        \/ \E p \in UnderWay' : e \in ToSend(p)
    BY <1>10 DEF FallSent
  <2>2. e \in missed => e \in missed' BY <1>1
  <2>3. e \in ToSend(q) => e \in missed' BY <1>1, <1>5, <1>6
  <2>4. gateway[e] = rows[e] => gateway'[e] = rows'[e] \/ e \in missed' BY <1>1, <1>2
  <2> QED BY <2>1, <2>2, <2>3, <2>4
<1>12. FallSent' BY <1>11 DEF FallSent
<1> QED BY <1>8, <1>12

\* A sort has no other one beside it, and no synchronisation.
LEMMA SortAlone ==
  ASSUME FallRows, NEW r \in Pair, rq[r].kind = "sort"
  PROVE  \A s \in Pair \ {r} : rq[s].kind \notin {"sort", "sync"}
BY DEF FallRows, FallApart, Apart

LEMMA FallSortList ==
  ASSUME IsFiniteSet(Entries), MaxNumber \in Nat, FallRows, FallSent, NEW r \in Pair,
         Balancing!SortList(r)
  PROVE  FallRows' /\ FallSent'
<1> DEFINE q == rq[r]
           B == Balancing!Between(q.from, q.to, q.before)
           room == Balancing!ByNumber(B)
           place == Balancing!Place(q.from, q.to, q.before)
           new == [i \in DOMAIN room |-> <<room[i], Balancing!Step(rows[room[i]], q.from, q.to)>>]
           todo == Append(new, <<q.origin, place>>)
           w == [kind |-> "sort", at |-> "update", origin |-> q.origin, target |-> q.target,
                 before |-> q.before, sent |-> <<>>, todo |-> todo]
<1>0. FallTypes /\ q \in FallWork /\ q \in UnderWay BY DEF FallRows, FallTypes, UnderWay
<1>1. /\ q.at = "list" /\ Balancing!Put(r, w) /\ rows' = rows /\ wanted' = wanted
      /\ gateway' = gateway /\ missed' = missed
  BY DEF Balancing!SortList, Balancing!Unwritten
<1>2. q \in ListWork BY <1>0, <1>1, WorkForm
<1>3. q.kind = "sort" /\ q.origin \in Entries /\ q.target \in Entries /\ q.before \in BOOLEAN
  <2> HIDE DEF q
  <2> QED BY <1>2 DEF ListWork
<1>4. \A s \in Pair \ {r} : rq[s].kind \notin {"sort", "sync"} BY <1>3, SortAlone
<1>5. Sorts(q) BY <1>0, <1>3 DEF FallRows, FallSorts
<1> HIDE DEF q
<1>6. PICK o \in Entries : o = q.origin BY <1>3
<1>7. PICK t \in Entries : t = q.target BY <1>3
<1>8. PICK before \in BOOLEAN : before = q.before BY <1>3
<1>9. /\ rows[o] # 0 /\ rows[t] # 0 /\ q.from = rows[o] /\ q.to = rows[t]
      /\ Balancing!Climbs(o, t, before) => rows[o] < MaxNumber /\ Vacant(rows[o] + 1)
  BY <1>1, <1>5, <1>6, <1>7, <1>8 DEF Sorts, FindsRoom
<1>10. Rising(rows, wanted)
  <2>1. \A p \in UnderWay : ~ HalfWay(p) BY <1>1, <1>4 DEF HalfWay, UnderWay, q
  <2> QED BY <2>1 DEF FallRows, FallRising
<1>11. PICK f \in [Entries -> 0 .. MaxNumber] :
         /\ f = Planned(o, t, before)
         /\ \A e \in Entries : f[e] = 0 <=> rows[e] = 0
         /\ \A n \in Nat : /\ \A e \in Entries : rows[e] < n
                           /\ Balancing!Climbs(o, t, before) => n # rows[o] + 1
              => \A e \in Entries : f[e] < n
         /\ RisesMoved(f, wanted, o, t, before)
  <2>1. FallListed BY DEF FallRows
  <2>2. CASE o # t BY <1>0, <1>9, <1>10, <2>1, <2>2, PlanForm
  <2>3. CASE o = t
    <3>1. Balancing!Climbs(o, o, before) <=> ~ before BY DEF Balancing!Climbs
    <3>2. ~ before => rows[o] < MaxNumber /\ \A e \in Entries : rows[e] # rows[o] + 1
      BY <1>9, <2>3, <3>1 DEF Vacant
    <3>3. /\ Planned(o, o, before) \in [Entries -> 0 .. MaxNumber]
          /\ \A e \in Entries : Planned(o, o, before)[e] = 0 <=> rows[e] = 0
          /\ \A n \in Nat : (\A e \in Entries : rows[e] < n) /\ (~ before => n # rows[o] + 1) =>
               \A e \in Entries : Planned(o, o, before)[e] < n
          /\ RisesMoved(Planned(o, o, before), wanted, o, o, before)
      BY <1>0, <1>9, <1>10, <3>2, PlanSelf
    <3> QED BY <2>3, <3>1, <3>3
  <2> QED BY <2>2, <2>3
<1>12. \A e \in Entries : rows[e] \in 0 .. MaxNumber BY <1>0 DEF FallTypes
<1>13. f[o] = place BY <1>8, <1>9, <1>11 DEF Planned
<1>14. \A e \in Entries \ {o} : e \notin B => f[e] = rows[e]
  BY <1>8, <1>9, <1>11 DEF Planned, NumberAfter, Balancing!Between, Balancing!Stored
<1>15. \A e \in B : /\ e \in Entries /\ e # o /\ rows[e] # 0
                    /\ f[e] = Balancing!Step(rows[e], q.from, q.to)
  <2> TAKE e \in B
  <2>1. e \in Entries /\ rows[e] # 0 BY DEF Balancing!Between, Balancing!Stored
  <2>2. e # o BY <1>9, <1>12 DEF Balancing!Between
  <2>3. f[e] = NumberAfter(rows[e], rows[o], rows[t], before) BY <1>11, <2>1, <2>2 DEF Planned
  <2>4. NumberAfter(rows[e], rows[o], rows[t], before) = Balancing!Step(rows[e], q.from, q.to)
    BY <1>8, <1>9 DEF Balancing!Between, NumberAfter, Balancing!Step
  <2> QED BY <2>1, <2>2, <2>3, <2>4
<1>16. PICK n \in Nat : Sorted(room, rows, B, n)
  <2>1. B \in SUBSET Entries BY <1>15
  <2> HIDE DEF B
  <2> QED BY <1>0, <2>1, ByNumberForm
<1> HIDE DEF B, place
<1>17. DOMAIN room = 1 .. n /\ \A i \in 1 .. n : room[i] \in B BY <1>16 DEF Sorted
<1>18. \A e \in B : \E i \in 1 .. n : room[i] = e BY <1>16 DEF Sorted
<1> HIDE DEF room
<1>19. new = [i \in 1 .. n |-> <<room[i], f[room[i]]>>] BY <1>15, <1>17
<1>20. \A e \in Entries : rows[e] # 0 => <<e, f[e]>> \in Pairs
  <2> TAKE e \in Entries
  <2> HAVE rows[e] # 0
  <2>1. f[e] \in 0 .. MaxNumber /\ f[e] # 0 BY <1>11
  <2> QED BY <2>1 DEF Pairs
<1>21. \A i \in 1 .. n : <<room[i], f[room[i]]>> \in Pairs BY <1>15, <1>17, <1>20
<1>22. new \in Seq(Pairs) /\ Len(new) = n
  <2> HIDE DEF new
  <2>1. new \in [1 .. n -> Pairs] BY <1>19, <1>21
  <2> QED BY <2>1, IsASeq, LenProperties
<1>23. todo = Append(new, <<o, f[o]>>) /\ <<o, f[o]>> \in Pairs BY <1>6, <1>9, <1>13, <1>20
<1> HIDE DEF new, todo
<1>24. /\ todo \in Seq(Pairs) /\ Len(todo) = n + 1 /\ todo[n + 1] = <<o, f[o]>>
       /\ \A i \in 1 .. n : todo[i] = <<room[i], f[room[i]]>>
  <2>1. /\ todo \in Seq(Pairs) /\ Len(todo) = Len(new) + 1
        /\ \A i \in 1 .. Len(new) : todo[i] = new[i]
        /\ todo[Len(new) + 1] = <<o, f[o]>>
    BY <1>22, <1>23, AppendProperties
  <2> QED BY <1>19, <1>22, <2>1
<1>25. w \in FallWork
  <2>1. w \in UpdateWork BY <1>3, <1>24 DEF UpdateWork
  <2> HIDE DEF w
  <2> QED BY <2>1 DEF FallWork
<1>26. PICK p \in FallWork : p = w BY <1>25
<1>27. /\ p.kind = "sort" /\ p.at = "update" /\ p.origin = o /\ p.target = t
       /\ p.before = before /\ p.sent = <<>> /\ p.todo = todo
  BY <1>6, <1>7, <1>8, <1>26
<1> HIDE DEF w
<1>28. \A s \in Pair \ {r} : Apart(p, rq[s]) /\ Apart(rq[s], p) BY <1>4, <1>27 DEF Apart
<1>29. UnderWay' \subseteq UnderWay \cup {p} BY <1>0, <1>1, <1>26, PutWork
<1>30. Leaves(p, f)'
  <2>1. \A i \in 1 .. Len(todo) : f[todo[i][1]] = todo[i][2]
    <3> TAKE i \in 1 .. Len(todo)
    <3>1. i = n + 1 \/ i \in 1 .. n BY <1>24
    <3> QED BY <1>24, <3>1
  <2>2. \A e \in Entries : f[e] = rows[e] \/ \E i \in 1 .. Len(todo) : todo[i][1] = e
    <3> TAKE e \in Entries
    <3>1. CASE e = o
      <4>1. n + 1 \in 1 .. Len(todo) /\ todo[n + 1][1] = e BY <1>24, <3>1
      <4> QED BY <4>1
    <3>2. CASE e \in B
      <4>1. PICK i \in 1 .. n : room[i] = e BY <1>18, <3>2
      <4>2. i \in 1 .. Len(todo) /\ todo[i][1] = e BY <1>24, <4>1
      <4> QED BY <4>2
    <3>3. CASE e # o /\ e \notin B BY <1>14, <3>3
    <3> QED BY <3>1, <3>2, <3>3
  <2>3. \A c \in UnderWay' : c.kind = "create" => \A e \in Entries : f[e] < c.number
    <3> TAKE c \in UnderWay'
    <3> HAVE c.kind = "create"
    <3>1. c \in UnderWay BY <1>27, <1>29
    <3>2. \A e \in Entries : rows[e] < c.number BY <3>1 DEF FallRows, FallAdds, AddsLast
    <3>3. c \in FallWork BY <1>0, <3>1 DEF FallTypes, UnderWay
    <3>4. c \in CreateWork BY <3>3, WorkForm
    <3>5. c.number \in Nat BY <3>4 DEF CreateWork
    <3>6. Balancing!Climbs(o, t, before) => c.number # rows[o] + 1 BY <1>9, <3>1 DEF Vacant
    <3> QED BY <1>11, <3>2, <3>5, <3>6
  <2>4. RisesMoved(f, wanted, o, t, before)' BY <1>1, <1>11 DEF RisesMoved
  <2>5. Len(p.sent) = 0 BY <1>27
  <2> QED BY <1>1, <1>11, <1>27, <2>1, <2>2, <2>3, <2>4, <2>5 DEF Leaves
<1>31. Sorts(p)'
  <2>1. todo # <<>> BY <1>24
  <2>2. Right(p.sent)' BY <1>27 DEF Right
  <2>3. FindsRoom(p)' BY <1>27 DEF FindsRoom
  <2> QED BY <1>1, <1>9, <1>27, <1>30, <2>1, <2>2, <2>3 DEF Sorts
<1>32. ~ HalfWay(rq[r]) /\ ToSend(rq[r]) = {} BY <1>1 DEF HalfWay, ToSend, q
<1>33. gateway' \in [Entries -> 0 .. MaxNumber] BY <1>0, <1>1 DEF FallTypes
<1>34. FallRows' BY <1>1, <1>26, <1>27, <1>28, <1>31, <1>32, <1>33, FallPut
<1>35. FallSent' BY <1>0, <1>1, <1>26, <1>32, SentStays
<1> QED BY <1>34, <1>35

LEMMA FallDelete ==
  ASSUME MaxNumber \in Nat, FallRows, FallSent, NEW e \in Entries, Balancing!Delete(e), ~ skewed'
  PROVE  FallRows' /\ FallSent'
<1> DEFINE i == Balancing!Wanted!At(wanted, e)
           n == Len(wanted)
<1>0. FallTypes /\ FallListed BY DEF FallRows
<1>1. /\ rows[e] # 0 /\ rows' = [rows EXCEPT ![e] = 0] /\ rq' = rq
      /\ \/ gateway' = [gateway EXCEPT ![e] = 0] /\ missed' = missed \ {e}
         \/ missed' = missed \cup {e} /\ gateway' = gateway
      /\ wanted' = Balancing!Wanted!RemoveAt(wanted, i) /\ Balancing!Starts("delete")
  BY DEF Balancing!Delete, Balancing!Stored, Balancing!Wanted!TakeOut
<1>2. Balancing!Disturbs["delete"] = {"sort", "sync"} BY DEF Balancing!Disturbs
<1>3. \A p \in UnderWay : p.kind \notin {"sort", "sync"} BY <1>1, <1>2, FallStarts
<1>4. UnderWay' = UnderWay BY <1>1 DEF UnderWay
<1>5. wanted \in Seq(Entries) /\ n \in Nat /\ \A j \in 1 .. n : wanted[j] \in Entries
  BY <1>0, LenProperties, ElementOfSeq DEF FallTypes
<1>6. i \in 1 .. n /\ wanted[i] = e
  <2>1. PICK j \in 1 .. n : wanted[j] = e BY <1>0, <1>1 DEF FallListed
  <2>2. \A k \in 1 .. n : wanted[k] = wanted[j] => k = j BY <1>0 DEF FallListed
  <2>3. i = j
    <3> HIDE DEF i, n
    <3>1. Balancing!Wanted!At(wanted, wanted[j]) = j BY <1>5, <2>2, Found DEF n
    <3> QED BY <2>1, <3>1 DEF i
  <2> QED BY <2>1, <2>3
<1> HIDE DEF i
<1>7. /\ wanted' \in Seq(Entries) /\ Len(wanted') = n - 1
      /\ \A j \in 1 .. n - 1 : wanted'[j] = IF j < i THEN wanted[j] ELSE wanted[j + 1]
  BY <1>1, <1>5, <1>6, WithoutOne
<1> DEFINE g(j) == IF j < i THEN j ELSE j + 1
<1> HIDE DEF n
<1>8. \A j \in 1 .. n - 1 : g(j) \in 1 .. n /\ g(j) # i BY <1>5, <1>6
<1>9. \A j, k \in 1 .. n - 1 : j < k => g(j) < g(k) BY <1>5, <1>6
<1>10. \A j, k \in 1 .. n - 1 : g(j) = g(k) => j = k BY <1>5, <1>6
<1>11. \A k \in 1 .. n : k # i => \E j \in 1 .. n - 1 : g(j) = k
  <2> TAKE k \in 1 .. n
  <2> HAVE k # i
  <2>1. CASE k < i
    <3>1. k \in 1 .. n - 1 /\ g(k) = k BY <1>5, <1>6, <2>1
    <3> QED BY <3>1
  <2>2. CASE i < k
    <3>1. k - 1 \in 1 .. n - 1 /\ g(k - 1) = k BY <1>5, <1>6, <2>2
    <3> QED BY <3>1
  <2> QED BY <1>5, <1>6, <2>1, <2>2
<1>12. \A j \in 1 .. n - 1 : wanted'[j] = wanted[g(j)] BY <1>7
<1> HIDE DEF g
<1>13. \A j, k \in 1 .. n : wanted[j] = wanted[k] => j = k BY <1>0 DEF FallListed, n
<1>14. \A d \in Entries : rows[d] # 0 <=> \E j \in 1 .. n : wanted[j] = d
  BY <1>0 DEF FallListed, n
<1>15. \A d \in Entries : rows[d] \in 0 .. MaxNumber /\ rows'[d] = IF d = e THEN 0 ELSE rows[d]
  BY <1>0, <1>1 DEF FallTypes
<1>16. FallTypes'
  <2>1. gateway' \in [Entries -> 0 .. MaxNumber] /\ rows' \in [Entries -> 0 .. MaxNumber]
    <3>1. 0 \in 0 .. MaxNumber OBVIOUS
    <3>2. gateway \in [Entries -> 0 .. MaxNumber] /\ rows \in [Entries -> 0 .. MaxNumber]
      BY <1>0 DEF FallTypes
    <3>3. rows' \in [Entries -> 0 .. MaxNumber] BY <1>1, <3>1, <3>2
    <3>4. gateway' \in [Entries -> 0 .. MaxNumber] BY <1>1, <3>1, <3>2
    <3> QED BY <3>3, <3>4
  <2> QED BY <1>0, <1>1, <1>7, <2>1 DEF FallTypes
<1>17. FallApart' BY <1>1 DEF FallRows, FallApart
<1>18. FallAdds'
  <2> SUFFICES ASSUME NEW c \in UnderWay, c.kind = "create" PROVE AddsLast(c)' BY <1>4 DEF FallAdds
  <2>1. AddsLast(c) BY DEF FallRows, FallAdds
  <2>2. c \in FallWork BY <1>0 DEF FallTypes, UnderWay
  <2>3. c \in CreateWork BY <2>2, WorkForm
  <2>4. c.entry \in Entries /\ c.number \in Nat /\ 0 < c.number BY <2>3 DEF CreateWork
  <2> QED BY <1>15, <2>1, <2>4 DEF AddsLast
<1>19. FallListed'
  <2>1. \A d \in Entries : rows'[d] # 0 <=> \E j \in 1 .. n - 1 : wanted'[j] = d
    <3> TAKE d \in Entries
    <3>1. ASSUME rows'[d] # 0 PROVE \E j \in 1 .. n - 1 : wanted'[j] = d
      <4>1. d # e /\ rows[d] # 0 BY <1>15, <3>1
      <4>2. PICK k \in 1 .. n : wanted[k] = d BY <1>14, <4>1
      <4>3. PICK j \in 1 .. n - 1 : g(j) = k BY <1>6, <1>11, <4>1, <4>2
      <4> QED BY <1>12, <4>2, <4>3
    <3>2. ASSUME NEW j \in 1 .. n - 1, wanted'[j] = d PROVE rows'[d] # 0
      <4>1. g(j) \in 1 .. n /\ g(j) # i /\ wanted[g(j)] = d BY <1>8, <1>12, <3>2
      <4>2. d # e BY <1>6, <1>13, <4>1
      <4> QED BY <1>14, <1>15, <4>1, <4>2
    <3> QED BY <3>1, <3>2
  <2>2. \A j, k \in 1 .. n - 1 : wanted'[j] = wanted'[k] => j = k
    <3> SUFFICES ASSUME NEW j \in 1 .. n - 1, NEW k \in 1 .. n - 1, wanted'[j] = wanted'[k]
        PROVE j = k
      OBVIOUS
    <3>1. wanted[g(j)] = wanted[g(k)] BY <1>12
    <3> QED BY <1>8, <1>10, <1>13, <3>1
  <2> QED BY <1>7, <2>1, <2>2 DEF FallListed
<1>20. FallRising'
  <2>1. Rising(rows, wanted) BY <1>3 DEF FallRows, FallRising, HalfWay
  <2>2. \A j, k \in 1 .. n - 1 : j < k => rows'[wanted'[j]] < rows'[wanted'[k]]
    <3> SUFFICES ASSUME NEW j \in 1 .. n - 1, NEW k \in 1 .. n - 1, j < k
        PROVE rows'[wanted'[j]] < rows'[wanted'[k]]
      OBVIOUS
    <3>1. g(j) \in 1 .. n /\ g(k) \in 1 .. n /\ g(j) < g(k) /\ g(j) # i /\ g(k) # i BY <1>8, <1>9
    <3>2. rows[wanted[g(j)]] < rows[wanted[g(k)]] BY <2>1, <3>1 DEF Rising, n
    <3>3. wanted[g(j)] # e /\ wanted[g(k)] # e BY <1>6, <1>13, <3>1
    <3> QED BY <1>5, <1>12, <1>15, <3>1, <3>2, <3>3
  <2> QED BY <1>7, <2>2 DEF FallRising, Rising
<1>21. FallSorts' /\ FallSyncs' BY <1>3, <1>4 DEF FallSorts, FallSyncs
<1>22. FallSent'
  <2>1. \A d \in Entries : gateway[d] = rows[d] \/ d \in missed
    BY <1>3 DEF FallSent, ToSend
  <2>2. \A d \in Entries : gateway'[d] = rows'[d] \/ d \in missed'
    <3> TAKE d \in Entries
    <3>1. CASE d = e BY <1>0, <1>1, <1>15, <3>1 DEF FallTypes
    <3>2. CASE d # e BY <1>0, <1>1, <1>15, <2>1, <3>2 DEF FallTypes
    <3> QED BY <3>1, <3>2
  <2> QED BY <2>2 DEF FallSent
<1> QED BY <1>16, <1>17, <1>18, <1>19, <1>20, <1>21, <1>22 DEF FallRows

\* A deletion that is undone after the gateway has followed it.
LEMMA FallDeleteFails ==
  ASSUME MaxNumber \in Nat, FallInv, ~ skewed, NEW e \in Entries, Balancing!DeleteFails(e)
  PROVE  FallRows' /\ FallSent'
<1>1. /\ gateway' = [gateway EXCEPT ![e] = 0] /\ missed' = missed \cup {e}
      /\ UNCHANGED <<rows, rq, skewed, wanted>>
  BY DEF Balancing!DeleteFails, Balancing!Unwritten
<1>2. UnderWay' = UnderWay BY <1>1 DEF UnderWay
<1>3. FallRows /\ FallSent BY DEF FallInv
<1>4. gateway \in [Entries -> 0 .. MaxNumber] /\ 0 \in 0 .. MaxNumber
  BY <1>3 DEF FallRows, FallTypes
<1>5. FallRows' BY <1>1, <1>3, <1>4, RowsStay
<1>6. \A d \in Entries : d # e => gateway'[d] = gateway[d] BY <1>1, <1>4
<1>7. FallSent' BY <1>1, <1>2, <1>3, <1>6 DEF FallSent
<1> QED BY <1>5, <1>7

LEMMA UpdatedWork ==
  ASSUME NEW q \in UpdateWork, NEW at, NEW sent, NEW todo
  PROVE  [q EXCEPT !.todo = todo, !.sent = sent, !.at = at] =
           [kind |-> "sort", at |-> at, origin |-> q.origin, target |-> q.target,
            before |-> q.before, sent |-> sent, todo |-> todo]
<1> DEFINE v == [q EXCEPT !.todo = todo, !.sent = sent, !.at = at]
           w == [kind |-> "sort", at |-> at, origin |-> q.origin, target |-> q.target,
                 before |-> q.before, sent |-> sent, todo |-> todo]
           D == {"kind", "at", "origin", "target", "before", "sent", "todo"}
<1>1. DOMAIN q = D /\ q.kind = "sort" BY DEF UpdateWork
<1>2. v = [x \in D |-> v[x]] /\ w = [x \in D |-> w[x]] BY <1>1
<1>3. \A x \in D : v[x] = w[x]
  <2>1. v["kind"] = w["kind"] /\ v["origin"] = w["origin"] /\ v["target"] = w["target"] BY <1>1
  <2>2. v["at"] = w["at"] /\ v["sent"] = w["sent"] /\ v["todo"] = w["todo"] BY <1>1
  <2>3. v["before"] = w["before"] BY <1>1
  <2> HIDE DEF v, w
  <2> QED BY <2>1, <2>2, <2>3
<1> HIDE DEF v, w
<1>4. v = w BY <1>2, <1>3
<1> QED BY <1>4 DEF v, w

\* A sort updates one row.
LEMMA FallSortUpdate ==
  ASSUME MaxNumber \in Nat, FallRows, FallSent, NEW r \in Pair, Balancing!SortUpdate(r)
  PROVE  FallRows' /\ FallSent'
<1> DEFINE q == rq[r]
           n == Len(q.todo)
           k == Len(q.sent)
           u == Head(q.todo)
           v == [q EXCEPT !.todo = Tail(@), !.sent = Balancing!Result(q, u),
                          !.at = IF n = 1 THEN "push" ELSE @]
<1>0. FallTypes /\ q \in FallWork /\ q \in UnderWay BY DEF FallRows, FallTypes, UnderWay
<1>1. /\ q.at = "update" /\ Balancing!Put(r, v)
      /\ rows' = [rows EXCEPT ![u[1]] = IF @ = 0 THEN 0 ELSE u[2]]
      /\ IF n = 1 /\ q.origin # q.target /\ {q.origin, q.target} \subseteq Balancing!Range(wanted)
           THEN wanted' = Balancing!Wanted!Moved(wanted, q.origin, q.target, q.before)
           ELSE wanted' = wanted
      /\ gateway' = gateway /\ missed' = missed
  BY DEF Balancing!SortUpdate, Balancing!Wanted!Move
<1>2. q \in UpdateWork BY <1>0, <1>1, WorkForm
<1>3. /\ q.kind = "sort" /\ q.origin \in Entries /\ q.target \in Entries
      /\ q.before \in BOOLEAN /\ q.sent \in Seq(Pairs) /\ q.todo \in Seq(Pairs)
  <2> HIDE DEF q
  <2> QED BY <1>2 DEF UpdateWork
<1>4. \A s \in Pair \ {r} : rq[s].kind \notin {"sort", "sync"} BY <1>3, SortAlone
<1>5. Sorts(q) BY <1>0, <1>3 DEF FallRows, FallSorts
<1> HIDE DEF q
<1>6. PICK f \in [Entries -> 0 .. MaxNumber] : Leaves(q, f) BY <1>1, <1>5 DEF Sorts
<1>7. /\ \A i \in 1 .. n : f[q.todo[i][1]] = q.todo[i][2]
      /\ \A i \in 1 .. k : f[q.sent[i][1]] = q.sent[i][2]
      /\ \A e \in Entries : f[e] = rows[e] \/ \E i \in 1 .. n : q.todo[i][1] = e
      /\ \A e \in Entries : f[e] = 0 <=> rows[e] = 0
      /\ \A c \in UnderWay : c.kind = "create" => \A e \in Entries : f[e] < c.number
      /\ RisesMoved(f, wanted, q.origin, q.target, q.before)
  BY <1>6 DEF Leaves
<1>8. n \in Nat /\ n # 0 /\ k \in Nat
  <2>1. q.todo # <<>> BY <1>1, <1>5 DEF Sorts
  <2> QED BY <1>3, <2>1, EmptySeq, LenProperties
<1>9. u = q.todo[1] /\ u \in Pairs /\ 1 \in 1 .. n
  <2>1. 1 \in 1 .. n BY <1>8
  <2>2. q.todo[1] \in Pairs BY <1>3, <2>1, ElementOfSeq
  <2> QED BY <2>1, <2>2
<1>10. /\ Tail(q.todo) \in Seq(Pairs) /\ Len(Tail(q.todo)) = n - 1
       /\ \A i \in 1 .. n - 1 : Tail(q.todo)[i] = q.todo[i + 1]
  <2>1. q.todo # <<>> BY <1>1, <1>5 DEF Sorts
  <2>2. Tail(q.todo) \in Seq(Pairs) /\ Len(Tail(q.todo)) = n - 1 BY <1>3, <2>1, HeadTailProperties
  <2>3. \A i \in 1 .. Len(Tail(q.todo)) : Tail(q.todo)[i] = q.todo[i + 1]
    BY <1>3, <2>1, HeadTailProperties
  <2> QED BY <2>2, <2>3
<1>11. u[1] \in Entries /\ u[2] \in 1 .. MaxNumber /\ f[u[1]] = u[2] BY <1>7, <1>9 DEF Pairs
<1>12. Balancing!Result(q, u) = Append(q.sent, u) BY DEF Balancing!Result
<1>13. v = [kind |-> "sort", at |-> IF n = 1 THEN "push" ELSE "update", origin |-> q.origin,
            target |-> q.target, before |-> q.before, sent |-> Append(q.sent, u),
            todo |-> Tail(q.todo)]
  <2> DEFINE a == IF n = 1 THEN "push" ELSE "update"
             b == Append(q.sent, u)
             c == Tail(q.todo)
  <2>1. v = [q EXCEPT !.todo = c, !.sent = b, !.at = a] BY <1>1, <1>12
  <2> HIDE DEF a, b, c, u, n, v
  <2>2. PICK x \in UpdateWork : x = q BY <1>2
  <2>3. [x EXCEPT !.todo = c, !.sent = b, !.at = a] =
          [kind |-> "sort", at |-> a, origin |-> x.origin, target |-> x.target,
           before |-> x.before, sent |-> b, todo |-> c]
    BY UpdatedWork
  <2> QED BY <2>1, <2>2, <2>3 DEF a, b, c
<1> HIDE DEF n, k, u, v
<1>14. /\ Append(q.sent, u) \in Seq(Pairs) /\ Len(Append(q.sent, u)) = k + 1
       /\ \A i \in 1 .. k : Append(q.sent, u)[i] = q.sent[i]
       /\ Append(q.sent, u)[k + 1] = u
  BY <1>3, <1>9, AppendProperties DEF k
<1>15. v \in UpdateWork
  <2>1. (IF n = 1 THEN "push" ELSE "update") \in {"update", "push"} OBVIOUS
  <2> QED BY <1>3, <1>10, <1>13, <1>14, <2>1 DEF UpdateWork
<1>16. PICK p \in FallWork : p = v BY <1>15 DEF FallWork
<1>17. PICK todo \in Seq(Pairs) : todo = Tail(q.todo) BY <1>10
<1>18. PICK sent \in Seq(Pairs) : sent = Append(q.sent, u) BY <1>14
<1>19. /\ p.kind = "sort" /\ p.at = (IF n = 1 THEN "push" ELSE "update") /\ p.origin = q.origin
       /\ p.target = q.target /\ p.before = q.before /\ p.sent = sent /\ p.todo = todo
  BY <1>13, <1>16, <1>17, <1>18
<1>20. /\ rq' \in [Pair -> FallWork]
       /\ rq'[r] = p /\ \A s \in Pair \ {r} : rq'[s] = rq[s]
       /\ UnderWay' \subseteq UnderWay \cup {p} /\ p \in UnderWay'
       /\ UnderWay \subseteq UnderWay' \cup {q}
       /\ \A c \in UnderWay' : c = p \/ \E s \in Pair \ {r} : c = rq[s]
  BY <1>0, <1>1, <1>16, PutWork DEF q
<1>21. \A e \in Entries : rows[e] \in 0 .. MaxNumber /\ f[e] \in 0 .. MaxNumber
  BY <1>0 DEF FallTypes
<1>22. \A e \in Entries : rows'[e] = IF e = u[1] THEN f[e] ELSE rows[e]
  <2>1. f[u[1]] # 0 BY <1>11
  <2>2. rows[u[1]] # 0 BY <1>7, <1>11, <2>1
  <2> QED BY <1>0, <1>1, <1>11, <2>2 DEF FallTypes
<1>23. \A e \in Entries : rows'[e] = 0 <=> rows[e] = 0 BY <1>7, <1>22
<1>24. rows' \in [Entries -> 0 .. MaxNumber]
  <2>1. DOMAIN rows' = Entries /\ rows' = [e \in Entries |-> rows'[e]] BY <1>0, <1>1 DEF FallTypes
  <2> QED BY <1>21, <1>22, <2>1
<1>25. \A c \in UnderWay' : c = p \/ c.kind \notin {"sort", "sync"} BY <1>4, <1>20
<1>26. /\ rows[q.origin] # 0 /\ rows[q.target] # 0 /\ Right(q.sent)
  BY <1>1, <1>5 DEF Sorts
<1>27. FallListed BY DEF FallRows
<1>28. \A i \in 1 .. Len(sent) : sent[i] \in Pairs /\ f[sent[i][1]] = sent[i][2]
                                  /\ rows'[sent[i][1]] = sent[i][2]
  <2> TAKE i \in 1 .. Len(sent)
  <2>0. sent[i] \in Pairs BY ElementOfSeq
  <2>1. sent[i][1] \in Entries BY <2>0 DEF Pairs
  <2>2. CASE i = k + 1
    <3>1. sent[i] = u BY <1>14, <1>18, <2>2
    <3> QED BY <1>11, <1>22, <2>0, <3>1
  <2>3. CASE i \in 1 .. k
    <3>1. sent[i] = q.sent[i] BY <1>14, <1>18, <2>3
    <3>2. f[sent[i][1]] = sent[i][2] BY <1>7, <2>3, <3>1
    <3>3. rows[sent[i][1]] = sent[i][2] BY <1>26, <2>3, <3>1 DEF Right, k
    <3> QED BY <1>22, <2>0, <2>1, <3>2, <3>3
  <2>4. i = k + 1 \/ i \in 1 .. k BY <1>8, <1>14, <1>18
  <2> QED BY <2>2, <2>3, <2>4
<1>29. Right(sent)' BY <1>28 DEF Right
<1>30. \A e \in Entries : f[e] = rows'[e] \/ \E i \in 1 .. Len(todo) : todo[i][1] = e
  <2> TAKE e \in Entries
  <2>1. CASE e = u[1] BY <1>22, <2>1
  <2>2. CASE e # u[1] /\ f[e] = rows[e] BY <1>22, <2>2
  <2>3. CASE e # u[1] /\ f[e] # rows[e]
    <3>1. PICK i \in 1 .. n : q.todo[i][1] = e BY <1>7, <2>3
    <3>2. i # 1 BY <1>9, <2>3, <3>1
    <3>3. i - 1 \in 1 .. n - 1 /\ (i - 1) + 1 = i BY <1>8, <3>1, <3>2
    <3>4. todo[i - 1] = q.todo[i] BY <1>10, <1>17, <3>3
    <3>5. i - 1 \in 1 .. Len(todo) BY <1>10, <1>17, <3>3
    <3> QED BY <3>1, <3>4, <3>5
  <2> QED BY <2>1, <2>2, <2>3
<1>31. FallListed' /\ wanted' \in Seq(Entries) /\ (n = 1 => Rising(rows', wanted'))
       /\ (n # 1 => wanted' = wanted)
  <2>1. CASE n # 1
    <3>1. wanted' = wanted BY <1>1, <2>1
    <3> QED BY <1>0, <1>23, <1>27, <2>1, <3>1 DEF FallListed, FallTypes
  <2>2. CASE n = 1
    <3>1. wanted \in Seq(Entries) /\ DOMAIN wanted = 1 .. Len(wanted)
      BY <1>0, LenProperties DEF FallTypes
    <3>2. /\ \E i \in 1 .. Len(wanted) : wanted[i] = q.origin
          /\ \E i \in 1 .. Len(wanted) : wanted[i] = q.target
      BY <1>3, <1>26, <1>27 DEF FallListed
    <3>3. {q.origin, q.target} \subseteq Balancing!Range(wanted)
      BY <3>1, <3>2 DEF Balancing!Range
    <3>5. \A i, j \in 1 .. Len(wanted) : wanted[i] = wanted[j] => i = j BY <1>27 DEF FallListed
    <3>6. f \in [Entries -> Nat] BY <1>21
    <3>7. /\ wanted' \in Seq(Entries)
          /\ \A e \in Entries : (\E i \in 1 .. Len(wanted') : wanted'[i] = e)
                                  <=> \E i \in 1 .. Len(wanted) : wanted[i] = e
          /\ \A i, j \in 1 .. Len(wanted') : wanted'[i] = wanted'[j] => i = j
          /\ Rising(f, wanted')
      <4>1. PICK before \in BOOLEAN : before = q.before BY <1>3
      <4>2. PICK o \in Entries : o = q.origin BY <1>3
      <4>3. PICK t \in Entries : t = q.target BY <1>3
      <4>4. RisesMoved(f, wanted, o, t, before) BY <1>7, <4>1, <4>2, <4>3
      <4>5. CASE o # t
        <5>1. wanted' = Balancing!Wanted!Moved(wanted, o, t, before)
          BY <1>1, <2>2, <3>3, <4>1, <4>2, <4>3, <4>5
        <5>2. /\ \E i \in 1 .. Len(wanted) : wanted[i] = o
              /\ \E i \in 1 .. Len(wanted) : wanted[i] = t
          BY <3>2, <4>2, <4>3
        <5>3. EachOnce(wanted) BY <3>5 DEF EachOnce
        <5>4. IsIn(o, wanted) /\ IsIn(t, wanted) BY <5>2 DEF IsIn
        <5>5. Rearranged(wanted', wanted) /\ Rising(f, wanted')
          BY <3>1, <3>6, <4>4, <4>5, <5>1, <5>3, <5>4, MovedRises
        <5> QED BY <5>5 DEF Rearranged, IsIn, EachOnce
      <4>6. CASE o = t
        <5>1. wanted' = wanted BY <1>1, <4>2, <4>3, <4>6
        <5>2. Rising(f, wanted)
          <6> SUFFICES ASSUME NEW i \in 1 .. Len(wanted), NEW j \in 1 .. Len(wanted), i < j
              PROVE f[wanted[i]] < f[wanted[j]]
            BY DEF Rising
          <6>1. i # j BY <3>1, LenProperties
          <6>2. CASE wanted[i] # o BY <4>4, <4>6, <6>2 DEF RisesMoved
          <6>3. CASE wanted[i] = o
            <7>1. wanted[j] # o BY <3>5, <6>1, <6>3
            <7> QED BY <4>4, <4>6, <6>3, <7>1 DEF RisesMoved
          <6> QED BY <6>2, <6>3
        <5> QED BY <3>1, <3>5, <5>1, <5>2
      <4> QED BY <4>5, <4>6
    <3>8. rows' = f
      <4>1. Len(todo) = 0 BY <1>10, <1>17, <2>2
      <4>2. \A e \in Entries : f[e] = rows'[e] BY <1>30, <4>1
      <4> QED BY <1>24, <4>2
    <3>9. FallListed' BY <1>23, <1>27, <3>7 DEF FallListed
    <3> QED BY <2>2, <3>7, <3>8, <3>9
  <2> QED BY <2>1, <2>2
<1>32. FallTypes' BY <1>0, <1>1, <1>20, <1>24, <1>31 DEF FallTypes
<1>33. FallApart'
  <2>1. \A s \in Pair \ {r} : Apart(p, rq[s]) /\ Apart(rq[s], p) BY <1>4, <1>19 DEF Apart
  <2> QED BY <1>20, <2>1 DEF FallRows, FallApart
<1>34. FallAdds'
  <2> SUFFICES ASSUME NEW c \in UnderWay', c.kind = "create" PROVE AddsLast(c)' BY DEF FallAdds
  <2>1. c \in UnderWay BY <1>19, <1>20
  <2>2. AddsLast(c) BY <2>1 DEF FallRows, FallAdds
  <2>3. c \in FallWork BY <1>0, <2>1 DEF FallTypes, UnderWay
  <2>4. c \in CreateWork BY <2>3, WorkForm
  <2>5. c.entry \in Entries BY <2>4 DEF CreateWork
  <2>6. \A e \in Entries : f[e] < c.number BY <1>7, <2>1
  <2> QED BY <1>22, <1>23, <2>2, <2>5, <2>6 DEF AddsLast
<1>35. FallRising'
  <2>1. CASE n = 1 BY <1>31, <2>1 DEF FallRising
  <2>2. CASE n # 1
    <3>1. sent # <<>>
      <4>1. Len(sent) = k + 1 BY <1>14, <1>18
      <4>2. Len(sent) # 0 BY <1>8, <4>1
      <4>3. sent = <<>> => Len(sent) = 0 OBVIOUS
      <4> QED BY <4>2, <4>3
    <3>2. HalfWay(p) BY <1>19, <2>2, <3>1 DEF HalfWay
    <3> QED BY <1>20, <3>2 DEF FallRising
  <2> QED BY <2>1, <2>2
<1>36. Sorts(p)'
  <2>0. FindsRoom(p)' BY <1>19 DEF FindsRoom
  <2>1. CASE n = 1 BY <1>19, <1>3, <1>23, <1>26, <1>29, <2>0, <2>1 DEF Sorts
  <2>2. CASE n # 1
    <3>1. todo # <<>>
      <4>1. Len(todo) = n - 1 BY <1>10, <1>17
      <4>2. Len(todo) # 0 BY <1>8, <2>2, <4>1
      <4>3. todo = <<>> => Len(todo) = 0 OBVIOUS
      <4> QED BY <4>2, <4>3
    <3>2. wanted' = wanted BY <1>31, <2>2
    <3>3. \A i \in 1 .. Len(todo) : f[todo[i][1]] = todo[i][2]
      <4> TAKE i \in 1 .. Len(todo)
      <4>1. i + 1 \in 1 .. n /\ todo[i] = q.todo[i + 1] BY <1>8, <1>10, <1>17
      <4> QED BY <1>7, <4>1
    <3>4. \A c \in UnderWay' : c.kind = "create" => \A e \in Entries : f[e] < c.number
      BY <1>7, <1>19, <1>20
    <3>5. \A e \in Entries : f[e] = 0 <=> rows'[e] = 0 BY <1>7, <1>23
    <3>6. RisesMoved(f, wanted', q.origin, q.target, q.before) BY <1>7, <3>2
    <3>7. Leaves(p, f)' BY <1>19, <1>28, <1>30, <3>3, <3>4, <3>5, <3>6 DEF Leaves
    <3> QED BY <1>3, <1>19, <1>23, <1>26, <1>29, <2>0, <2>2, <3>1, <3>7 DEF Sorts
  <2> QED BY <2>1, <2>2
<1>37. FallSorts' /\ FallSyncs' BY <1>19, <1>25, <1>36 DEF FallSorts, FallSyncs
<1>38. FallSent'
  <2>1. ToSend(p) = Balancing!Named(sent) BY <1>19 DEF ToSend
  <2>2. u[1] \in ToSend(p)
    <3>1. k + 1 \in 1 .. Len(sent) /\ sent[k + 1] = u BY <1>8, <1>14, <1>18
    <3> QED BY <2>1, <3>1, NamedForm
  <2>3. ToSend(q) \subseteq ToSend(p)
    <3>1. ToSend(q) = Balancing!Named(q.sent) BY <1>1, <1>3 DEF ToSend
    <3> SUFFICES ASSUME NEW e \in ToSend(q) PROVE e \in ToSend(p) OBVIOUS
    <3>4. PICK list \in Seq(Pairs) : list = q.sent BY <1>3
    <3>5. e \in Balancing!Named(list) BY <3>1, <3>4
    <3>2. PICK i \in 1 .. k : q.sent[i][1] = e BY <3>4, <3>5, NamedForm DEF k
    <3>3. i \in 1 .. Len(sent) /\ sent[i][1] = e BY <1>8, <1>14, <1>18, <3>2
    <3> QED BY <2>1, <3>3, NamedForm
  <2>4. \A e \in Entries : gateway[e] = rows[e] \/ e \in missed \/ \E c \in UnderWay : e \in ToSend(c)
    BY DEF FallSent
  <2>5. \A e \in Entries :
          gateway'[e] = rows'[e] \/ e \in missed' \/ \E c \in UnderWay' : e \in ToSend(c)
    BY <1>1, <1>20, <1>22, <2>2, <2>3, <2>4
  <2> QED BY <2>5 DEF FallSent
<1> QED BY <1>31, <1>32, <1>33, <1>34, <1>35, <1>37, <1>38 DEF FallRows

\* An entry with the largest number is added at the end of the list.
LEMMA AddedRises ==
  ASSUME NEW s \in Seq(Entries), NEW e \in Entries, \A i \in 1 .. Len(s) : s[i] # e,
         NEW f \in [Entries -> Nat], NEW n \in Nat, \A d \in Entries : f[d] < n
  PROVE  /\ EachOnce(s) => EachOnce(Append(s, e))
         /\ Rising(f, s) => Rising([f EXCEPT ![e] = n], Append(s, e))
         /\ \A o, t \in Entries, before \in BOOLEAN :
              o # e /\ t # e /\ RisesMoved(f, s, o, t, before)
                => RisesMoved([f EXCEPT ![e] = n], Append(s, e), o, t, before)
<1> DEFINE l == Append(s, e)
           k == Len(s)
           h == [f EXCEPT ![e] = n]
<1>1. /\ k \in Nat /\ l \in Seq(Entries) /\ Len(l) = k + 1 /\ l[k + 1] = e
      /\ \A i \in 1 .. k : l[i] = s[i] /\ s[i] \in Entries /\ s[i] # e
  BY AppendProperties, LenProperties, ElementOfSeq
<1>2. h[e] = n /\ \A d \in Entries : d # e => h[d] = f[d] OBVIOUS
<1> HIDE DEF l, k, h
<1>3. \A i \in 1 .. k + 1 : i = k + 1 \/ (i \in 1 .. k /\ i < k + 1) BY <1>1
<1>4. \A i \in 1 .. k : h[l[i]] = f[s[i]] /\ h[l[i]] < n BY <1>1, <1>2
<1>5. ASSUME EachOnce(s) PROVE EachOnce(l)
  <2>1. \A i, j \in 1 .. k : s[i] = s[j] => i = j BY <1>5 DEF EachOnce, k
  <2> QED BY <1>1, <1>3, <2>1 DEF EachOnce
<1>6. ASSUME Rising(f, s) PROVE Rising(h, l)
  <2>1. \A i, j \in 1 .. k : i < j => f[s[i]] < f[s[j]] BY <1>6 DEF Rising, k
  <2> SUFFICES ASSUME NEW i \in 1 .. k + 1, NEW j \in 1 .. k + 1, i < j PROVE h[l[i]] < h[l[j]]
    BY <1>1 DEF Rising
  <2>2. i \in 1 .. k BY <1>1
  <2>3. CASE j = k + 1 BY <1>1, <1>2, <1>4, <2>2, <2>3
  <2>4. CASE j # k + 1
    <3>1. j \in 1 .. k BY <1>3, <2>4
    <3> QED BY <1>4, <2>1, <2>2, <3>1
  <2> QED BY <2>3, <2>4
<1>7. ASSUME NEW o \in Entries, NEW t \in Entries, NEW before \in BOOLEAN, o # e, t # e,
             RisesMoved(f, s, o, t, before)
      PROVE  RisesMoved(h, l, o, t, before)
  <2>1. \A i, j \in 1 .. k : s[i] # o =>
          /\ i < j /\ s[j] # o => f[s[i]] < f[s[j]]
          /\ s[j] = t /\ (i < j \/ (i = j /\ ~ before)) => f[s[i]] < f[o]
          /\ s[j] = t /\ (j < i \/ (i = j /\ before)) => f[o] < f[s[i]]
    BY <1>7 DEF RisesMoved, k
  <2>2. h[o] = f[o] /\ h[o] < n BY <1>2, <1>7
  <2> SUFFICES ASSUME NEW i \in 1 .. k + 1, NEW j \in 1 .. k + 1, l[i] # o
      PROVE /\ i < j /\ l[j] # o => h[l[i]] < h[l[j]]
            /\ l[j] = t /\ (i < j \/ (i = j /\ ~ before)) => h[l[i]] < h[o]
            /\ l[j] = t /\ (j < i \/ (i = j /\ before)) => h[o] < h[l[i]]
    BY <1>1 DEF RisesMoved
  <2>3. CASE j = k + 1
    <3>1. l[j] # t BY <1>1, <1>7, <2>3
    <3>2. i < j => i \in 1 .. k BY <1>3, <2>3
    <3>3. i < j => h[l[i]] < h[l[j]] BY <1>1, <1>2, <1>4, <2>3, <3>2
    <3> QED BY <3>1, <3>3
  <2>4. CASE j # k + 1 /\ i = k + 1
    <3>1. j \in 1 .. k /\ j < i BY <1>3, <2>4
    <3>2. h[l[i]] = n BY <1>1, <1>2, <2>4
    <3>3. ~ (i < j) /\ i # j BY <1>1, <3>1
    <3> QED BY <2>2, <3>2, <3>3
  <2>5. CASE j # k + 1 /\ i # k + 1
    <3>1. i \in 1 .. k /\ j \in 1 .. k BY <1>3, <2>5
    <3>2. l[i] = s[i] /\ l[j] = s[j] /\ h[l[i]] = f[s[i]] /\ h[l[j]] = f[s[j]] BY <1>1, <1>4, <3>1
    <3> QED BY <2>1, <2>2, <3>1, <3>2
  <2> QED BY <2>3, <2>4, <2>5
<1> QED BY <1>5, <1>6, <1>7 DEF l, h

LEMMA FallCreateWrite ==
  ASSUME MaxNumber \in Nat, FallRows, FallSent, NEW r \in Pair, Balancing!CreateWrite(r)
  PROVE  FallRows' /\ FallSent'
<1> DEFINE q == rq[r]
           list == <<<<q.entry, q.number>>>>
           free == Balancing!Free
<1>0. FallTypes /\ FallListed /\ q \in FallWork /\ q \in UnderWay
  BY DEF FallRows, FallTypes, UnderWay
<1>1. /\ q.at = "write" /\ rows' = [rows EXCEPT ![q.entry] = q.number]
      /\ Balancing!Online(list) /\ wanted' = Append(wanted, q.entry) /\ Balancing!Done(r)
  BY DEF Balancing!CreateWrite, Balancing!Wanted!Add
<1>2. q \in CreateWork BY <1>0, <1>1, WorkForm
<1>3. q.kind = "create" /\ q.entry \in Entries /\ q.number \in 1 .. MaxNumber
  <2> HIDE DEF q
  <2> QED BY <1>2 DEF CreateWork
<1>4. AddsLast(q) BY <1>0, <1>3 DEF FallRows, FallAdds
<1>5. free \in FallWork /\ Balancing!Put(r, free) /\ free.kind = "none"
  BY <1>1 DEF FallWork, Balancing!Done, Balancing!Free
<1>6. \A s \in Pair \ {r} : rq[s].kind # "create" BY <1>3 DEF FallRows, FallApart, Apart
<1> HIDE DEF q, free
<1>7. PICK e \in Entries : e = q.entry BY <1>3
<1>8. PICK n \in 1 .. MaxNumber : n = q.number BY <1>3
<1>9. rows[e] = 0 /\ \A d \in Entries : rows[d] < n BY <1>4, <1>7, <1>8 DEF AddsLast
<1>10. /\ rq' \in [Pair -> FallWork]
       /\ rq'[r] = free /\ \A s \in Pair \ {r} : rq'[s] = rq[s]
       /\ UnderWay' \subseteq UnderWay \cup {free}
       /\ UnderWay \subseteq UnderWay' \cup {q}
       /\ \A c \in UnderWay' : c = free \/ \E s \in Pair \ {r} : c = rq[s]
  BY <1>0, <1>5, PutWork DEF q
<1>11. \A c \in UnderWay' : c.kind # "create" BY <1>5, <1>6, <1>10
<1>12. rows \in [Entries -> 0 .. MaxNumber] /\ rows' = [rows EXCEPT ![e] = n] /\ n \in 0 .. MaxNumber
  BY <1>0, <1>1, <1>7, <1>8 DEF FallTypes
<1>13. rows' \in [Entries -> 0 .. MaxNumber] BY <1>12
<1>14. \A d \in Entries : rows'[d] = IF d = e THEN n ELSE rows[d] BY <1>12
<1>15. wanted \in Seq(Entries) /\ wanted' = Append(wanted, e) BY <1>0, <1>1, <1>7 DEF FallTypes
<1>16. \A i \in 1 .. Len(wanted) : wanted[i] # e BY <1>0, <1>9 DEF FallListed
<1>17. /\ wanted' \in Seq(Entries) /\ Len(wanted') = Len(wanted) + 1 /\ Len(wanted) \in Nat
       /\ wanted'[Len(wanted) + 1] = e /\ \A i \in 1 .. Len(wanted) : wanted'[i] = wanted[i]
  BY <1>15, AppendProperties, LenProperties
<1>18. \A f \in [Entries -> Nat] : (\A d \in Entries : f[d] < n) =>
         /\ EachOnce(wanted) => EachOnce(wanted')
         /\ Rising(f, wanted) => Rising([f EXCEPT ![e] = n], wanted')
         /\ \A o, t \in Entries, before \in BOOLEAN :
              o # e /\ t # e /\ RisesMoved(f, wanted, o, t, before)
                => RisesMoved([f EXCEPT ![e] = n], wanted', o, t, before)
  <2> SUFFICES ASSUME NEW f \in [Entries -> Nat], \A d \in Entries : f[d] < n
      PROVE /\ EachOnce(wanted) => EachOnce(Append(wanted, e))
            /\ Rising(f, wanted) => Rising([f EXCEPT ![e] = n], Append(wanted, e))
            /\ \A o, t \in Entries, before \in BOOLEAN :
                 o # e /\ t # e /\ RisesMoved(f, wanted, o, t, before)
                   => RisesMoved([f EXCEPT ![e] = n], Append(wanted, e), o, t, before)
    BY <1>15
  <2>1. PICK s \in Seq(Entries) : s = wanted BY <1>15
  <2>2. PICK k \in Nat : k = n OBVIOUS
  <2>3. \A i \in 1 .. Len(s) : s[i] # e BY <1>16, <2>1
  <2>4. \A d \in Entries : f[d] < k BY <2>2
  <2>5. /\ EachOnce(s) => EachOnce(Append(s, e))
        /\ Rising(f, s) => Rising([f EXCEPT ![e] = k], Append(s, e))
        /\ \A o, t \in Entries, before \in BOOLEAN :
             o # e /\ t # e /\ RisesMoved(f, s, o, t, before)
               => RisesMoved([f EXCEPT ![e] = k], Append(s, e), o, t, before)
    BY <2>3, <2>4, AddedRises
  <2> QED BY <2>1, <2>2, <2>5
<1>19. rows \in [Entries -> Nat] BY <1>12
<1>20. list \in Seq(Pairs) /\ Len(list) = 1 /\ list[1] = <<e, n>>
  <2>1. <<e, n>> \in Pairs BY DEF Pairs
  <2> QED BY <1>7, <1>8, <2>1
<1> HIDE DEF list
<1>21. /\ gateway' \in [Entries -> 0 .. MaxNumber]
       /\ \A d \in Entries, m \in 0 .. MaxNumber :
            /\ \A i \in 1 .. Len(list) : list[i][1] = d => list[i][2] = m
            /\ gateway[d] = m \/ d \in missed \/ \E i \in 1 .. Len(list) : list[i][1] = d
            => gateway'[d] = m \/ d \in missed'
  BY <1>0, <1>1, <1>20, ToldForm
<1>22. FallTypes' BY <1>10, <1>13, <1>17, <1>21 DEF FallTypes
<1>23. FallApart'
  <2>1. \A c : Apart(free, c) /\ Apart(c, free) BY FreeApart DEF free
  <2> QED BY <1>10, <2>1 DEF FallRows, FallApart
<1>24. FallAdds' BY <1>11 DEF FallAdds
<1>25. FallListed'
  <2>1. EachOnce(wanted') BY <1>0, <1>9, <1>18, <1>19 DEF FallListed, EachOnce
  <2>2. \A d \in Entries : rows'[d] # 0 <=> \E i \in 1 .. Len(wanted') : wanted'[i] = d
    <3> TAKE d \in Entries
    <3>1. CASE d = e
      <4>1. Len(wanted) + 1 \in 1 .. Len(wanted') BY <1>17
      <4> QED BY <1>14, <1>17, <3>1, <4>1
    <3>2. CASE d # e
      <4>1. \A i \in 1 .. Len(wanted') : wanted'[i] = d => i \in 1 .. Len(wanted) /\ wanted[i] = d
        BY <1>17, <3>2
      <4>2. \A i \in 1 .. Len(wanted) : i \in 1 .. Len(wanted') BY <1>17
      <4> QED BY <1>0, <1>14, <1>17, <3>2, <4>1, <4>2 DEF FallListed
    <3> QED BY <3>1, <3>2
  <2> QED BY <2>1, <2>2 DEF FallListed, EachOnce
<1>26. FallRising'
  <2> SUFFICES ASSUME \A c \in UnderWay' : ~ HalfWay(c) PROVE Rising(rows', wanted')
    BY DEF FallRising
  <2>1. \A c \in UnderWay : ~ HalfWay(c) BY <1>3, <1>10 DEF HalfWay
  <2>2. Rising(rows, wanted) BY <2>1 DEF FallRows, FallRising
  <2> QED BY <1>9, <1>12, <1>18, <1>19, <2>2
<1>27. \A l \in Seq(Pairs) : Right(l) => Right(l)'
  <2> SUFFICES ASSUME NEW l \in Seq(Pairs), Right(l), NEW i \in 1 .. Len(l)
      PROVE rows'[l[i][1]] = l[i][2]
    BY DEF Right
  <2>1. l[i] \in Pairs BY ElementOfSeq
  <2>2. l[i][1] \in Entries /\ l[i][2] # 0 BY <2>1 DEF Pairs
  <2>3. rows[l[i][1]] = l[i][2] BY DEF Right
  <2> QED BY <1>9, <1>14, <2>2, <2>3
<1>28. FallSorts'
  <2> SUFFICES ASSUME NEW p \in UnderWay', p.kind = "sort" PROVE Sorts(p)' BY DEF FallSorts
  <2>1. p \in UnderWay BY <1>5, <1>10
  <2>2. p \in FallWork BY <1>0, <2>1 DEF FallTypes, UnderWay
  <2>3. p \in ListWork \/ p \in UpdateWork BY <2>2, WorkForm
  <2>4. p.origin \in Entries /\ p.target \in Entries /\ p.before \in BOOLEAN
    BY <2>3 DEF ListWork, UpdateWork
  <2>5. Sorts(p) BY <2>1 DEF FallRows, FallSorts
  <2>6. rows[p.origin] # 0 /\ rows[p.target] # 0 /\ p.origin # e /\ p.target # e
    BY <1>9, <2>5 DEF Sorts
  <2>7. rows'[p.origin] = rows[p.origin] /\ rows'[p.target] = rows[p.target] BY <1>14, <2>4, <2>6
  <2>8. p.at \in {"update", "push"} => p.sent \in Seq(Pairs) /\ p.todo \in Seq(Pairs)
    BY <2>3 DEF ListWork, UpdateWork
  <2>9. ASSUME p.at = "update" PROVE \E f \in [Entries -> 0 .. MaxNumber] : Leaves(p, f)'
    <3>1. PICK f \in [Entries -> 0 .. MaxNumber] : Leaves(p, f) BY <2>5, <2>9 DEF Sorts
    <3>2. f[e] = 0 /\ \A d \in Entries : f[d] = 0 <=> rows[d] = 0 BY <1>9, <3>1 DEF Leaves
    <3>3. \A d \in Entries : f[d] < n BY <1>0, <1>3, <1>8, <3>1 DEF Leaves
    <3>4. RisesMoved(f, wanted, p.origin, p.target, p.before) BY <3>1 DEF Leaves
    <3>5. PICK h \in [Entries -> 0 .. MaxNumber] : h = [f EXCEPT ![e] = n] BY <1>12
    <3>6. h[e] = n /\ \A d \in Entries : d # e => h[d] = f[d] BY <3>5
    <3>7. RisesMoved(h, wanted', p.origin, p.target, p.before)
      <4>1. f \in [Entries -> Nat] OBVIOUS
      <4>2. PICK before \in BOOLEAN : before = p.before BY <2>4
      <4>3. PICK o \in Entries : o = p.origin BY <2>4
      <4>4. PICK t \in Entries : t = p.target BY <2>4
      <4>5. RisesMoved(f, wanted, o, t, before) BY <3>4, <4>2, <4>3, <4>4
      <4>6. RisesMoved(h, wanted', o, t, before)
        BY <1>18, <2>6, <3>3, <3>5, <4>1, <4>3, <4>4, <4>5
      <4> QED BY <4>2, <4>3, <4>4, <4>6
    <3>8. \A l \in Seq(Pairs) : (\A i \in 1 .. Len(l) : f[l[i][1]] = l[i][2])
                                  => \A i \in 1 .. Len(l) : h[l[i][1]] = l[i][2]
      <4> SUFFICES ASSUME NEW l \in Seq(Pairs), NEW i \in 1 .. Len(l), f[l[i][1]] = l[i][2]
          PROVE h[l[i][1]] = l[i][2]
        OBVIOUS
      <4>1. l[i] \in Pairs BY ElementOfSeq
      <4>2. l[i][1] \in Entries /\ l[i][2] # 0 BY <4>1 DEF Pairs
      <4> QED BY <3>2, <3>6, <4>2
    <3>9. /\ \A i \in 1 .. Len(p.todo) : h[p.todo[i][1]] = p.todo[i][2]
          /\ \A i \in 1 .. Len(p.sent) : h[p.sent[i][1]] = p.sent[i][2]
      BY <2>8, <2>9, <3>1, <3>8 DEF Leaves
    <3>10. \A d \in Entries : h[d] = rows'[d] \/ \E i \in 1 .. Len(p.todo) : p.todo[i][1] = d
      BY <1>14, <3>1, <3>6 DEF Leaves
    <3>11. \A d \in Entries : h[d] = 0 <=> rows'[d] = 0 BY <1>14, <3>2, <3>6
    <3>12. Leaves(p, h)' BY <1>11, <3>7, <3>9, <3>10, <3>11 DEF Leaves
    <3> QED BY <3>12
  <2>10. p.at \in {"update", "push"} => Right(p.sent)' BY <1>27, <2>5, <2>8 DEF Sorts
  <2>11. FindsRoom(p)'
    <3> SUFFICES ASSUME p.at = "list", Balancing!Climbs(p.origin, p.target, p.before)
        PROVE p.from < MaxNumber /\ Vacant(p.from + 1)'
      BY DEF FindsRoom
    <3>1. p.from < MaxNumber /\ Vacant(p.from + 1) BY <2>5 DEF Sorts, FindsRoom
    <3>2. n # p.from + 1 BY <1>0, <1>3, <1>8, <3>1 DEF Vacant
    <3>3. \A d \in Entries : rows'[d] # p.from + 1 BY <1>14, <3>1, <3>2 DEF Vacant
    <3> QED BY <1>11, <3>1, <3>3 DEF Vacant
  <2> QED BY <2>5, <2>6, <2>7, <2>9, <2>10, <2>11 DEF Sorts
<1>29. FallSyncs'
  <2> SUFFICES ASSUME NEW p \in UnderWay', p.kind = "sync" PROVE Right(p.sent)' BY DEF FallSyncs
  <2>1. p \in UnderWay BY <1>5, <1>10
  <2>2. p \in FallWork /\ Right(p.sent) BY <1>0, <2>1 DEF FallTypes, UnderWay, FallRows, FallSyncs
  <2>3. p \in SyncWork BY <2>2, WorkForm
  <2>4. p.sent \in Seq(Pairs) BY <2>3 DEF SyncWork
  <2> QED BY <1>27, <2>2, <2>4
<1>30. FallSent'
  <2> SUFFICES ASSUME NEW d \in Entries, ~ \E c \in UnderWay' : d \in ToSend(c)
      PROVE gateway'[d] = rows'[d] \/ d \in missed'
    BY DEF FallSent
  <2>1. CASE d = e
    <3>1. 1 \in 1 .. Len(list) /\ list[1][1] = d BY <1>20, <2>1
    <3>2. \A i \in 1 .. Len(list) : list[i][1] = d => list[i][2] = n BY <1>20
    <3>3. gateway'[d] = n \/ d \in missed' BY <1>12, <1>21, <3>1, <3>2
    <3> QED BY <1>14, <2>1, <3>3
  <2>2. CASE d # e
    <3>1. ToSend(q) = {} BY <1>3 DEF ToSend
    <3>2. gateway[d] = rows[d] \/ d \in missed BY <1>10, <3>1 DEF FallSent
    <3>3. \A i \in 1 .. Len(list) : list[i][1] # d BY <1>20, <2>2
    <3>4. rows[d] \in 0 .. MaxNumber BY <1>12
    <3>5. gateway'[d] = rows[d] \/ d \in missed' BY <1>21, <3>2, <3>3, <3>4
    <3> QED BY <1>14, <2>2, <3>5
  <2> QED BY <2>1, <2>2
<1> QED BY <1>22, <1>23, <1>24, <1>25, <1>26, <1>28, <1>29, <1>30 DEF FallRows

LEMMA FallNext ==
  ASSUME IsFiniteSet(Entries), MaxNumber \in Nat, FallInv, [Balancing!Next]_(Balancing!vars)
  PROVE  FallInv'
<1>1. CASE UNCHANGED Balancing!vars
  <2>1. UNCHANGED <<rows, gateway, rq, missed, skewed, wanted>> BY <1>1 DEF Balancing!vars
  <2>2. UnderWay' = UnderWay BY <2>1 DEF UnderWay
  <2>3. FallRows => gateway' \in [Entries -> 0 .. MaxNumber] BY <2>1 DEF FallRows, FallTypes
  <2>4. FallRows => FallRows' BY <2>1, <2>3, RowsStay
  <2>5. FallSent => FallSent' BY <2>1, <2>2 DEF FallSent
  <2> QED BY <2>1, <2>4, <2>5 DEF FallInv
<1>2. CASE Balancing!Next /\ skewed
  <2>1. skewed' = skewed BY <1>2 DEF Balancing!Next, Balancing!Over, Balancing!vars
  <2> QED BY <1>2, <2>1 DEF FallInv
<1>3. CASE Balancing!Next /\ ~ skewed /\ ~ skewed'
  <2>1. FallRows /\ FallSent BY <1>3 DEF FallInv
  <2>2. ASSUME NEW r \in Pair, Balancing!Serve(r) PROVE FallRows' /\ FallSent'
    <3>1. CASE \E e \in Entries : Balancing!CreateRead(r, e) BY <1>3, <2>1, <3>1, FallCreateRead
    <3>2. CASE \E o, t \in Entries, before \in BOOLEAN : Balancing!SortRead(r, o, t, before)
      <4>1. PICK o \in Entries, t \in Entries, before \in BOOLEAN : Balancing!SortRead(r, o, t, before)
        BY <3>2
      <4> QED BY <1>3, <2>1, <4>1, FallSortRead
    <3>3. CASE \E all \in BOOLEAN : Balancing!SyncRead(r, all)
      <4>1. PICK all \in BOOLEAN : Balancing!SyncRead(r, all) BY <3>3
      <4> QED BY <1>3, <2>1, <4>1, FallSyncRead
    <3>4. CASE Balancing!CreateWrite(r) BY <2>1, <3>4, FallCreateWrite
    <3>5. CASE Balancing!SortList(r) BY <2>1, <3>5, FallSortList
    <3>6. CASE Balancing!SortUpdate(r) BY <2>1, <3>6, FallSortUpdate
    <3>7. CASE Balancing!SortPush(r) \/ Balancing!SyncPush(r) BY <2>1, <3>7, FallPush
    <3>8. CASE Balancing!Fail(r) BY <1>3, <2>1, <3>8, FallFail
    <3> QED BY <2>2, <3>1, <3>2, <3>3, <3>4, <3>5, <3>6, <3>7, <3>8 DEF Balancing!Serve
  <2>3. ASSUME NEW e \in Entries, Balancing!Delete(e) PROVE FallRows' /\ FallSent'
    BY <1>3, <2>1, <2>3, FallDelete
  <2>4. ASSUME NEW e \in Entries, Balancing!DeleteFails(e) PROVE FallRows' /\ FallSent'
    BY <1>3, <2>4, FallDeleteFails
  <2>5. \/ \E r \in Pair : Balancing!Serve(r)
        \/ \E e \in Entries : Balancing!Delete(e) \/ Balancing!DeleteFails(e)
    BY <1>3 DEF Balancing!Next, Balancing!Over
  <2>6. FallRows' /\ FallSent' BY <2>2, <2>3, <2>4, <2>5
  <2> QED BY <2>6 DEF FallInv
<1>4. CASE skewed' BY <1>4 DEF FallInv
<1> QED BY <1>1, <1>2, <1>3, <1>4

LEMMA FallHolds ==
  ASSUME IsFiniteSet(Entries), MaxNumber \in Nat, FallInv
  PROVE  Balancing!BalanceKept
<1> SUFFICES ASSUME ~ skewed, Balancing!Sorting = {}
    PROVE /\ \A d, e \in Balancing!Stored : d # e => rows[d] # rows[e]
          /\ Balancing!Order = wanted
          /\ \A e \in Entries \ missed : gateway[e] = rows[e]
  BY DEF Balancing!BalanceKept
<1> DEFINE S == Balancing!Stored
           n == Len(wanted)
<1>1. FallTypes /\ FallListed /\ FallRising /\ FallSent BY DEF FallInv, FallRows
<1>2. \A q \in UnderWay : ~ (q.kind = "sort" /\ q.at \in {"update", "push"})
  BY DEF UnderWay, Balancing!Sorting, Balancing!InProgress
<1>3. Rising(rows, wanted) BY <1>1, <1>2 DEF FallRising, HalfWay
<1>4. /\ wanted \in Seq(Entries) /\ n \in Nat /\ wanted \in [1 .. n -> Entries]
      /\ \A i \in 1 .. n : wanted[i] \in Entries
  BY <1>1, LenProperties, ElementOfSeq DEF FallTypes
<1>5. \A e \in Entries : e \in S <=> \E i \in 1 .. n : wanted[i] = e
  BY <1>1 DEF FallListed, Balancing!Stored
<1>6. S \in SUBSET Entries /\ \A e \in S : rows[e] \in Nat
  BY <1>1 DEF Balancing!Stored, FallTypes
<1>7. \A i, j \in 1 .. n : i < j => rows[wanted[i]] < rows[wanted[j]] BY <1>3 DEF Rising
<1>8. \A i, j \in 1 .. n : wanted[i] = wanted[j] => i = j BY <1>1 DEF FallListed
<1> HIDE DEF S, n
<1>9. \A i \in 1 .. n : wanted[i] \in S BY <1>4, <1>5
<1>10. \A d, e \in S : rows[d] = rows[e] => d = e
  <2> SUFFICES ASSUME NEW d \in S, NEW e \in S, rows[d] = rows[e], d # e PROVE FALSE OBVIOUS
  <2>1. PICK i \in 1 .. n : wanted[i] = d BY <1>5, <1>6
  <2>2. PICK j \in 1 .. n : wanted[j] = e BY <1>5, <1>6
  <2>3. i < j \/ j < i BY <1>4, <2>1, <2>2
  <2>4. rows[d] < rows[e] \/ rows[e] < rows[d] BY <1>7, <2>1, <2>2, <2>3
  <2> QED BY <1>6, <2>4
<1>11. Sorted(wanted, rows, S, n)
  <2>1. wanted \in [1 .. n -> S] BY <1>4, <1>9
  <2>2. \A x \in S : \E i \in 1 .. n : wanted[i] = x BY <1>5, <1>6
  <2>3. \A i, j \in 1 .. n : i < j => rows[wanted[i]] <= rows[wanted[j]] BY <1>6, <1>7, <1>9
  <2> QED BY <1>8, <2>1, <2>2, <2>3 DEF Sorted
<1>12. PICK m \in Nat : Sorted(Balancing!ByNumber(S), rows, S, m) BY <1>1, <1>6, ByNumberForm
<1>13. Balancing!ByNumber(S) = wanted BY <1>4, <1>6, <1>10, <1>11, <1>12, SortedOnce
<1>14. Balancing!Order = wanted BY <1>13 DEF Balancing!Order, S
<1>15. \A e \in Entries \ missed : gateway[e] = rows[e] BY <1>1, <1>2 DEF FallSent, ToSend
<1> QED BY <1>10, <1>14, <1>15 DEF S

\* The models the gateway falls back to are listed as their users have put them, each with a
\* number of its own, and the gateway has these numbers except where it could not be told,
\* for any entries and however high they are numbered.
THEOREM FallbackListed == Balancing!Spec => []Balancing!BalanceKept
<1>1. Balancing!Init => FallInv BY FallInit, ConstantsAssumption DEF BalanceConstants
<1>2. FallInv /\ [Balancing!Next]_(Balancing!vars) => FallInv' BY FallNext, ConstantsAssumption
    DEF BalanceConstants
<1>3. FallInv => Balancing!BalanceKept BY FallHolds, ConstantsAssumption DEF BalanceConstants
<1> QED BY <1>1, <1>2, <1>3, PTL DEF Balancing!Spec

\* Likewise of the behaviours of MCServer.
THEOREM FallbackKept == Spec => []BalanceKept
<1> DEFINE I == part = "balance" => FallInv
<1>1. Init => I BY FallInit, PartInit, ConstantsAssumption DEF BalanceConstants
<1>2. I /\ [Next]_<<part, vars>> => I' BY FallNext, PartNext, ConstantsAssumption
    DEF BalanceConstants
<1>3. I => BalanceKept BY FallHolds, ConstantsAssumption DEF BalanceKept, BalanceConstants
<1> QED BY <1>1, <1>2, <1>3, PTL DEF Spec

-----------------------------------------------------------------------------
(* Publishing: what PublishFlowProofs proves of PublishFlow, of this        *)
(* instance, which has no page.                                             *)

PublishProof == INSTANCE PublishFlowProofs WITH
  Services <- {Service}, ApiOwner <- [a \in Apis |-> Service], Handlers <- Single,
  Visited <- Service, shown <- None

\* The assumptions of PublishFlow hold of the instance.
LEMMA PublishAlone ==
  /\ [a \in Apis |-> Service] \in [Apis -> {Service}]
  /\ None \notin {Service} \cup Releases \cup Flows /\ PublishProof!IsFiniteSet(Clusters)
  /\ PublishProof!Alone
BY ConstantsAssumption
   DEF PublishConstants, PublishProof!Alone, PublishProof!IsFiniteSet, IsFiniteSet

LEMMA PublishInit ==
  ASSUME Publishing!Init
  PROVE  PublishProof!ReliableInv
<1>1. PublishProof!Init
  BY DEF Publishing!Init, PublishProof!Init, Publishing!NoFlow, PublishProof!NoFlow,
     Publishing!Offline, PublishProof!Offline, Publishing!NoRequest, PublishProof!NoRequest
<1> QED BY <1>1, PublishAlone, PublishProof!ReliableInit

LEMMA PublishNext ==
  ASSUME PublishProof!ReliableInv, [Publishing!NextReliable]_(Publishing!vars)
  PROVE  PublishProof!ReliableInv'
<1>1. CASE Publishing!NextReliable
  <2>1. Publishing!ShortRequest => PublishProof!ShortRequest
    BY DEF Publishing!ShortRequest, PublishProof!ShortRequest, Publishing!CreateRelease,
         PublishProof!CreateRelease, Publishing!DeleteRelease, PublishProof!DeleteRelease,
         Publishing!Accept, PublishProof!Accept, Publishing!Refuse, PublishProof!Refuse,
         Publishing!SetAction, PublishProof!SetAction, Publishing!InsertRelease,
         PublishProof!InsertRelease, Publishing!RemoveRelease, PublishProof!RemoveRelease,
         Publishing!CanDelete, PublishProof!CanDelete, Publishing!GetRunning,
         PublishProof!GetRunning, Publishing!Active, PublishProof!Active
  <2>2. ASSUME NEW h \in Single, Publishing!Begin(h)
        PROVE  PublishProof!Begin(h)
    BY <2>2 DEF Publishing!Begin, PublishProof!Begin, Publishing!ApplyStart,
       PublishProof!ApplyStart,
         Publishing!CreateAndApply, PublishProof!CreateAndApply, Publishing!StopRead,
         PublishProof!StopRead, Publishing!PublishStart, PublishProof!PublishStart,
         Publishing!CheckPublish, PublishProof!CheckPublish, Publishing!InsertRelease,
         PublishProof!InsertRelease, Publishing!GetRunning, PublishProof!GetRunning,
         Publishing!Goto, PublishProof!Goto, Publishing!NoRequest, PublishProof!NoRequest,
         Publishing!Active, PublishProof!Active, Publishing!Publishable,
         PublishProof!Publishable, Publishing!store, PublishProof!store
  <2>3. ASSUME NEW h \in Single, Publishing!Continue(h)
        PROVE  PublishProof!Continue(h)
    <3>1. CASE Publishing!ApplyCheck(h) \/ Publishing!ApplyRead(h) \/ Publishing!Fail(h)
      BY <3>1 DEF Publishing!ApplyCheck, PublishProof!ApplyCheck, Publishing!ApplyRead,
         PublishProof!ApplyRead, Publishing!Fail, PublishProof!Fail, Publishing!CheckPublish,
         PublishProof!CheckPublish, Publishing!GetRunning, PublishProof!GetRunning,
         Publishing!Finish, PublishProof!Finish, Publishing!Goto, PublishProof!Goto,
         Publishing!OnError, PublishProof!OnError, Publishing!NoRequest, PublishProof!NoRequest,
         Publishing!Active, PublishProof!Active, Publishing!store, PublishProof!store,
         PublishProof!Continue, PublishProof!Proceed
    <3>2. CASE (\E f \in Flows : Publishing!ApplyCreate(h, f)) \/ Publishing!AcceptStep(h)
      BY <3>2 DEF Publishing!ApplyCreate, PublishProof!ApplyCreate, Publishing!AcceptStep,
         PublishProof!AcceptStep, Publishing!SetAction, PublishProof!SetAction,
         Publishing!Finish, PublishProof!Finish, Publishing!Goto, PublishProof!Goto,
         Publishing!NoRequest, PublishProof!NoRequest, Publishing!NoFlow, PublishProof!NoFlow,
         PublishProof!Continue, PublishProof!Proceed
    <3>3. CASE Publishing!StopWrite(h) \/ Publishing!PublishRead(h) \/ Publishing!PublishInfo(h)
      BY <3>3 DEF Publishing!StopWrite, PublishProof!StopWrite, Publishing!SetStatus,
         PublishProof!SetStatus, Publishing!PublishRead, PublishProof!PublishRead,
         Publishing!PublishInfo, PublishProof!PublishInfo, Publishing!ReleaseApis,
         PublishProof!ReleaseApis, Publishing!Publishable, PublishProof!Publishable,
         Publishing!Finish, PublishProof!Finish, Publishing!Goto, PublishProof!Goto,
         Publishing!OnError, PublishProof!OnError, Publishing!NoRequest, PublishProof!NoRequest,
         Publishing!store, PublishProof!store,
         PublishProof!Continue, PublishProof!Proceed
    <3>4. CASE Publishing!PublishBegin(h) \/ \E c \in Clusters : Publishing!ClusterOnline(h, c)
      BY <3>4 DEF Publishing!PublishBegin, PublishProof!PublishBegin, Publishing!ClusterOnline,
         PublishProof!ClusterOnline, Publishing!ClusterDone, PublishProof!ClusterDone,
         Publishing!ClusterEnds, PublishProof!ClusterEnds, Publishing!Holds, PublishProof!Holds,
         Publishing!Online, PublishProof!Online, Publishing!Offline, PublishProof!Offline,
         Publishing!Goto, PublishProof!Goto, Publishing!store, PublishProof!store,
         PublishProof!Continue, PublishProof!Proceed
    <3>5. CASE Publishing!PublishCommit(h) \/ Publishing!Cleanup(h)
      BY <3>5 DEF Publishing!PublishCommit, PublishProof!PublishCommit, Publishing!Cleanup,
         PublishProof!Cleanup, Publishing!SetStatus, PublishProof!SetStatus,
         Publishing!CanDelete, PublishProof!CanDelete, Publishing!RemoveRelease,
         PublishProof!RemoveRelease, Publishing!GetRunning, PublishProof!GetRunning,
         Publishing!Finish, PublishProof!Finish, Publishing!NoRequest, PublishProof!NoRequest,
         Publishing!Active, PublishProof!Active, Publishing!store, PublishProof!store,
         PublishProof!Continue, PublishProof!Proceed
    <3> QED BY <2>3, <3>1, <3>2, <3>3, <3>4, <3>5 DEF Publishing!Continue, Publishing!Proceed
  <2>4. PublishProof!NextReliable
    BY <1>1, <2>1, <2>2, <2>3 DEF Publishing!NextReliable, PublishProof!NextReliable
  <2> QED BY <2>4, PublishAlone, PublishProof!ReliableNext
<1>2. CASE UNCHANGED Publishing!vars
  <2>1. UNCHANGED PublishProof!vars
    BY <1>2 DEF Publishing!vars, PublishProof!vars, Publishing!store, PublishProof!store
  <2> QED BY <2>1, PublishAlone, PublishProof!ReliableNext
<1> QED BY <1>1, <1>2

LEMMA PublishHolds ==
  ASSUME PublishProof!ReliableInv
  PROVE  Publishing!GatewayMatchesRunning
<1>1. PublishProof!GatewayMatchesRunning BY PublishAlone, PublishProof!ReliableMatches
<1> QED
  BY <1>1 DEF Publishing!GatewayMatchesRunning, PublishProof!GatewayMatchesRunning,
     Publishing!GetRunning, PublishProof!GetRunning

\* The clusters serve what is recorded as running, of the behaviours of MCServer.
THEOREM GatewayKept == Spec => []GatewayMatchesRunning
<1> DEFINE I == part = "publish" => PublishProof!ReliableInv
<1>1. Init => I BY PublishInit, PartInit
<1>2. I /\ [Next]_<<part, vars>> => I' BY PublishNext, PartNext
<1>3. I => GatewayMatchesRunning BY PublishHolds DEF GatewayMatchesRunning
<1> QED BY <1>1, <1>2, <1>3, PTL DEF Spec
=============================================================================
