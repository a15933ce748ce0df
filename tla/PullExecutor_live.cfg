SPECIFICATION FairSpec
CONSTANTS
  Models = {m1}
  Sessions = {u1, u2}
  Pulls = {p1, p2}
  MaxSize = 0
  QueueSize = 1
  ChanSize = 0
  None = None
PROPERTIES StoppedPullsEnd LastMessageCloses
CHECK_DEADLOCK FALSE
