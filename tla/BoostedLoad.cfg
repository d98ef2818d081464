CONSTANTS
  Table = {3, 6, 10}
  Policies <- TwoPolicies
  AwakeIdeals = {5}
  SleepIdeals = {2}
  WakeupFreq = 3
  RampUp = 2
  RampDown = 2
  Loads = {"noidle", "low"}
  RunQueue = {TRUE}
  Ops = {"limits", "store", "stop", "other"}
SPECIFICATION FairSpec
INVARIANT StoppedForGood
PROPERTY ReachesMax
CHECK_DEADLOCK FALSE
