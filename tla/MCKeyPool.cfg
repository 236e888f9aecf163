SPECIFICATION Spec
CONSTANTS
  j1 = j1  j2 = j2
  Keys = {1, 2}
  Initial = {1}
  Jobs = {j1, j2}
  Replies <- PoolReplies
  Day = 2
  Short = 1
  Wrap = 2
  MaxTime = 3
  MaxEdits = 2
SYMMETRY Interchangeable
INVARIANTS OnlyExcusedKeysDiverge NoActiveKeyStarves
CHECK_DEADLOCK FALSE
