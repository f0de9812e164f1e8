SPECIFICATION PlainSpec
CONSTANTS
  r1 = r1
  r2 = r2
  Reqs <- TwoReqs
  Kinds = {"delete", "undo"}
  NTasks = 1
  TTL = 1
  MaxTime = 0
  MaxReqs = 3
  MaxCrashes = 0
  Serial = FALSE
INVARIANTS RestoredOnce
SYMMETRY TwoSymmetry
CHECK_DEADLOCK FALSE
