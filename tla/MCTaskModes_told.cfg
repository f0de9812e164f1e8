SPECIFICATION PlainSpec
CONSTANTS
  r1 = r1
  r2 = r2
  Reqs <- TwoReqs
  Kinds = {"toggle", "move"}
  Cids = {1}
  Occurrences = 2
  MaxReqs = 2
  MaxCrashes = 0
  Serial = FALSE
INVARIANTS CompletionsTold
CHECK_DEADLOCK FALSE
