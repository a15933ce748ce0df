SPECIFICATION Spec
CONSTANTS
  Keys = {d, k1, k2}
  Default = d
  Requests = {r1}
  MaxNumber = 3
  Foreign = {1}
  MaxMissed = 1
  None = None
PROPERTY ImplementsList
SYMMETRY Symmetry
CONSTRAINT Followed
INVARIANTS Dense NeverAhead OnlyUsableKeys DragArrives
