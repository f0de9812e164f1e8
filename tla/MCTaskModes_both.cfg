SPECIFICATION ModesSpec
CONSTANTS
  r1 = r1
  r2 = r2
  Reqs <- TwoReqs
  Kinds = {"toggle", "complete", "reopen", "put", "patch", "edit", "move", "skip", "delete", "purge", "create"}
  Cids = {1}
  Occurrences = 2
  MaxReqs = 4
  MaxCrashes = 1
  Serial = FALSE
INVARIANTS OneNextPerCompletion CompletionToldOnce OneTaskPerCid ChainToldAlone
PROPERTIES NoOverwriteAlone
SYMMETRY TwoSymmetry
CHECK_DEADLOCK FALSE
