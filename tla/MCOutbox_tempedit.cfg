SPECIFICATION Spec
CONSTANTS
  t1 = t1
  t2 = t2
  Tabs <- OneTab
  Slots = {1}
  Vals <- Letters
  InitVal = "a"
  MaxTries = 4
  MaxWrites = 3
  MaxFaults = 2
  HasStorage = TRUE
  Admitted = {"temp_edit"}
INVARIANTS DrainedAgrees
CHECK_DEADLOCK FALSE
