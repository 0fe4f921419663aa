\* Chats, waiting chats, queued turns and continuations of one session under Stop,
\* failing preparations, saved settings, switches, deletions and closed browsers.
SPECIFICATION QSpec
CONSTANTS
  Runs = {r1, r2, r3}
  Keys = {k1, k2}
  Env = {"cancel", "offline", "invalid", "reload", "delete", "switch", "error"}
  None = None
  MaxItems = 1
SYMMETRY Symmetry2
INVARIANTS EachItemOnce GateIsBacked
CHECK_DEADLOCK FALSE
