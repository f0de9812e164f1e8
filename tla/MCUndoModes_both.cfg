SPECIFICATION ModesSpec
CONSTANTS
  r1 = r1
  r2 = r2
  Reqs <- TwoReqs
  Kinds = {"delete", "undo", "state", "drop", "upload", "unattach"}
  NTasks = 2
  TTL = 1
  MaxTime = 2
  MaxReqs = 5
  MaxCrashes = 1
  Serial = FALSE
INVARIANTS NoCopyBesideOriginal UntouchedKeepFiles UndoSoundAlone
PROPERTIES UndoCompleteAlone
SYMMETRY TwoSymmetry
CHECK_DEADLOCK FALSE
