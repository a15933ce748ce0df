SPECIFICATION Spec
CONSTANTS
  s1 = s1
  s2 = s2
  a1 = a1
  a2 = a2
  Services = {s1, s2}
  Apis = {a1, a2}
  Clusters = {c1}
  Releases = {r1, r2}
  Flows = {f1, f2}
  Handlers = {h1}
  ApiOwner <- TwoOwners
  None = None
SYMMETRY Symmetry
INVARIANT OneVersionPerProject
PROPERTY ImplementsGate
