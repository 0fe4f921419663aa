\* Four runs of one job over eight ticks, with records evicted.
SPECIFICATION AutoSpec
CONSTANTS
  Every = 2
  Stale = 2
  Retention = 2
  MaxRuns = 4
  Horizon = 7
  MaxCrashes = 1
  MaxEdits = 1
INVARIANTS NoOverlap TriggersRunOnce ExecutionsCleanUp EndedRunsAreRecorded
CHECK_DEADLOCK FALSE
