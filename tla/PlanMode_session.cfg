\* Two turns of one session with two requests, a browser that comes and goes and
\* two todo items.
SPECIFICATION PlanFairSpec
CONSTANTS
  Slots = {t1, t2}
  Sockets = {s1}
  Gone = Gone
  MaxRuns = 2
  MaxRequests = 2
  Plans <- MCPlans
INVARIANTS WaitersAreReachable ConfirmBlocksLoop TodosFollowThePlan
PROPERTIES ExitIsEarned DetachedIsSettled
