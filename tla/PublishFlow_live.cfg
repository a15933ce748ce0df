SPECIFICATION FairSpec
CONSTANTS
  s1 = s1
  s2 = s2
  a1 = a1
  a2 = a2
  Services = {s1}
  Apis = {a1}
  Clusters = {c1, c2}
  Releases = {r1}
  Flows = {f1}
  Handlers = {h1, h2}
  ApiOwner <- OneOwner
  None = None
PROPERTY RequestsEnd
