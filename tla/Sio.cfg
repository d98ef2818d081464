CONSTANTS
  r1 = r1  r2 = r2  w1 = w1  w2 = w2  a1 = a1  a2 = a2
  Req = {r1, w1, w2, a1}
  SyncOf <- MCSync
  DirOf <- MCDir
  Expire <- ShortExpire
  FifoBatch = 2
  Word = 6
  Garbage <- ExtremeGarbage
  Inputs <- MCInputs
SPECIFICATION FairSpec
INVARIANTS OnePlace ExitEmpty ReadsBounded
PROPERTIES NoMissedDeadline NoStarvation
CHECK_DEADLOCK FALSE
