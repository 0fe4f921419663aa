\* Crashes between and inside file operations, writes from outside the turns.
SPECIFICATION Spec
CONSTANTS
  Turns = {t1, t2, t3}
  Env = {"crash", "torn", "late"}
  None = None
  MaxSteps = 2
  MaxAllSteps = 2
  MaxPatches = 1
  MaxWrites = 1
SYMMETRY Symmetry
INVARIANTS NothingFabricated DurableBeforeTools ArtifactIsProven SideEffectsRecorded
PROPERTIES HistoryRefinement
CHECK_DEADLOCK FALSE
