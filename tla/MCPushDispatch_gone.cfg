SPECIFICATION Spec
CONSTANTS
  a = a
  day = day
  d1 = d1
  d2 = d2
  Reminders <- OneReminder
  Daily = day
  Devices <- TwoDevices
  LookBack = 1
  MaxAttempts = 3
  Faults = {"expires"}
  MaxTime = 1
  MaxCrashes = 0
INVARIANTS NeverTwice
SYMMETRY Swaps
CHECK_DEADLOCK FALSE
