\* One model selection, no deletion: the gate itself, and that it opens again.
SPECIFICATION CalmSpec
CONSTANTS
  Runs = {r1, r2, r3}
  Keys = {k1}
  Env = {"cancel", "reload", "loop", "error", "marker", "stray"}
  None = None
INVARIANTS GateIsBacked GateExclusive HolderIsShown SingleTurn
PROPERTIES GateRefinement AbortedRunsEnd WaitersAnswered
CHECK_DEADLOCK FALSE
