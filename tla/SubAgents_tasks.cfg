\* One parent with turns and two sub-agents, one parent served from the browser.
SPECIFICATION SubFairSpec
CONSTANTS
  a1 = a1
  a2 = a2
  a3 = a3
  p1 = p1
  p2 = p2
  Agents = {a1, a2, a3}
  Parents = {p1, p2}
  Parent <- TwoParents
  Waiters = {w1}
  None = None
  MaxPerParent = 1
  MaxGlobal = 2
  MaxQueued = 1
  MaxTasks = 3
  MaxCrashes = 1
  WebParents = {p1}
INVARIANTS NoTaskIsStranded NobodyWaitsForEnded
PROPERTIES PublishedResultsStay PromiseRefinement RunsSettle
CHECK_DEADLOCK FALSE
