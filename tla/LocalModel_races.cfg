SPECIFICATION Spec
CONSTANTS
  Models = {m1}
  Services = {v1}
  Pulls = {p1, p2}
  Requests = {r1, r2}
  None = None
SYMMETRY Symmetry
INVARIANTS UsableWasPulled 
CHECK_DEADLOCK FALSE
