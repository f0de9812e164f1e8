SPECIFICATION Spec
CONSTANTS
  a = a
  day = day
  d1 = d1
  d2 = d2
  Reminders <- OneReminder
  Daily = day
  Devices <- OneDevice
  LookBack = 1
  MaxAttempts = 2
  Faults = {"fails", "unclear", "expires", "storage"}
  MaxTime = 1
  MaxCrashes = 1
INVARIANTS LogIsTrue
PROPERTIES NeverAgain
CHECK_DEADLOCK FALSE
