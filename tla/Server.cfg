SPECIFICATION Spec
CONSTANTS
  None = None
  Service = s1
  Releases = {r1, r2}
  Flows = {f1, f2}
  Apis = {a1, a2}
  Clusters = {c1, c2}
  Strategies = {g1}
  Contents = {w1}
  MaxSeconds = 2
  Cats = {k1, k2}
  Entries = {e1, e2, e3}
  Local = {e1}
  MaxNumber = 3
  Ids = {i1, i2, i3}
  Paths = {p1, p2, p3}
  Single = {q1}
  Pair = {q1, q2}
  Trio = {q1, q2, q3}
  Messages = {m1, m2}
  Keys = {k}
  KeyOf <- OneKey
  MaxAttempts = 2
INVARIANTS GatewayMatchesRunning StatusHonest CategoriesStay BalanceKept DocMatches CallsCounted
