\* Two turns of one session: a drafting turn with one question and the turn
\* after it.
SPECIFICATION PlanSpec
CONSTANTS
  Slots = {t1, t2}
  Sockets = {s1}
  Gone = Gone
  MaxRuns = 2
  MaxRequests = 1
  Plans <- MCPlans
PROPERTIES DraftsDoNotExecute
