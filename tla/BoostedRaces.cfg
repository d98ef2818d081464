CONSTANTS
  Table = {3, 6, 10}
  Policies <- TwoPolicies
  AwakeIdeals = {5}
  SleepIdeals = {0, 4}
  WakeupFreq = 3
  RampUp = 2
  RampDown = 2
  Loads = {"noidle", "low"}
  RunQueue = {TRUE}
  Ops = {"suspend", "idle", "sysfs_fail", "limits", "store", "stop", "other"}
SPECIFICATION Spec
INVARIANT IdealFollows
PROPERTY RampsMove
CHECK_DEADLOCK FALSE
