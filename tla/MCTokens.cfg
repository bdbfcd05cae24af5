SPECIFICATION Spec
CONSTANTS
  Users = {u1,u2}
  Secrets = {s1,s2}
  Calls = {c1,c2}
  Spans = {0, 1}
  Throttle = 1
  QueueDepth = 2
  MaxTime = 3
SYMMETRY Symmetry
INVARIANTS TypeOK DeadStaysDead CacheMatchesTable StampIsOwn
PROPERTIES LastUsedForward
