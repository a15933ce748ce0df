SPECIFICATION Spec
CONSTANTS
  None = None
  Service = s1
  Releases = {r1, r2}
  Flows = {f1, f2}
  Apis = {a1}
  Clusters = {c1}
  Handlers = {h1, h2}
  Apps = {p1}
  Applies = {x1}
  Urls = {l1, l2}
  Clients = {m1, m2, m3}
  Users = {u1, u2}
  Teams = {t1, t2}
  Requests = {q1, q2, q3}
INVARIANTS OfferedIsServed BlockedHasWayOut  NoDialogHangs LinesInOrder FollowsDeployment OneConnection OwnRights FiltersFit UntouchedStay PageFollows ChoiceFits ListFits
