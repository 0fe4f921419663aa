\* A model switch between two messages lets two runs through the gate.
SPECIFICATION Spec
CONSTANTS
  Runs = {r1, r2, r3}
  Keys = {k1, k2}
  Env = {"switch"}
  None = None
INVARIANT GateExclusive
CHECK_DEADLOCK FALSE
