SPECIFICATION SubSpec
CONSTANTS
  a1 = a1
  a2 = a2
  a3 = a3
  p1 = p1
  p2 = p2
  Agents = {a1}
  Parents = {p1}
  Parent <- OnlyChild
  Waiters = {w1}
  None = None
  MaxPerParent = 1
  MaxGlobal = 2
  MaxQueued = 1
  MaxTasks = 2
  MaxCrashes = 0
  WebParents = {p1}
INVARIANT ResultsAreOwn
CHECK_DEADLOCK FALSE
