\* One arena with two contestants, after or before another that stays a draft.
SPECIFICATION ArenaSpec
CONSTANTS
  Arenas = {a1, a2}
  Branches = {b1, b2}
  Files = {f1}
  None = None
  MaxEdits = 2
  MaxSubmissions = 2
  MaxStarts = 1
SYMMETRY Symmetry
INVARIANT LockFollowsArena
PROPERTIES JudgedWorkIsFinal ApplyIsReviewed
CHECK_DEADLOCK FALSE
