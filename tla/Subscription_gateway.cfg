SPECIFICATION Spec
CONSTANTS
  Apps = {a1}
  Clusters = {c1, c2}
  Applies = {x1, x2}
  Requests = {r1, r2}
  MaxRows = 3
  None = None
SYMMETRY Symmetry
INVARIANTS GatewayAgrees
PROPERTY ApplyingKeeps
