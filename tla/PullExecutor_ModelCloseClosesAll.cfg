SPECIFICATION Spec
CONSTANTS
  Models = {m1}
  Sessions = {u1, u2}
  Pulls = {p1, p2}
  MaxSize = 1
  QueueSize = 2
  ChanSize = 1
  None = None
PROPERTY ModelCloseClosesAll
CHECK_DEADLOCK FALSE
