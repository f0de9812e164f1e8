SPECIFICATION Spec
CONSTANTS
  t1 = t1
  t2 = t2
  Tabs <- TwoTabs
  Slots = {1}
  Vals <- OneLetter
  InitVal = "a"
  MaxTries = 2
  MaxWrites = 2
  MaxFaults = 1
  HasStorage = TRUE
  Admitted = {"temp_edit","temp_delete","overtake","lost_create","close","dead","bodyless","refuse","other_device"}
INVARIANTS NothingForgotten NoOvertaking
PROPERTIES KeepsTheLog
CHECK_DEADLOCK FALSE
SYMMETRY TabSymmetry
