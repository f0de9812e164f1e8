SPECIFICATION FairSpec
CONSTANTS
  t1 = t1
  t2 = t2
  Tabs <- OneTab
  Slots = {1}
  Vals <- Letters
  InitVal = "a"
  MaxTries = 4
  MaxWrites = 3
  MaxFaults = 3
  HasStorage = TRUE
  Admitted = {"refuse", "other_device"}
INVARIANTS OneRowPerCreate SentToItsTask DrainedAgrees CopiesMatchQueue
PROPERTIES EventuallyDrained
CHECK_DEADLOCK FALSE
