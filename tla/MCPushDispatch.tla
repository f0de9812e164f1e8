--------------------------- MODULE MCPushDispatch ---------------------------
(* Model values for PushDispatch: one reminder, the summary, and devices.   *)
EXTENDS PushDispatch, TLC
CONSTANTS a, day, d1, d2
OneReminder == {a}
OneDevice   == {d1}
TwoDevices  == {d1, d2}
Swaps       == Permutations(TwoDevices)
=============================================================================
