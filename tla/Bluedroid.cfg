CONSTANTS
  p1 = p1  p2 = p2  p3 = p3
  Proc = {p1, p2, p3}
  Modes = {"serial", "concurrent"}
  Faults <- AllFaults
  MaxCrashes = 1
  MaxCount = 4
SPECIFICATION Spec
INVARIANTS NoLockDeadlock CountExact
PROPERTY ImplementsUse
CHECK_DEADLOCK FALSE
