SPECIFICATION Spec
CONSTANTS
  NumEvents = 2
  Event <- MCEvent
  Drivers = 2
  Compass = 2
  Part = {1, 3, 9}
  PartsOf <- MCPartsOf
  Temperature = 3
  Other = 0
  Reports <- MCReports
  Counts = {2}
  Errno = 1
  PipeSize = 1
  MaxSamples <- MCMaxSamples
  MaxQueue = 3
  MaxCount = 3
INVARIANTS TypeOK LeftoverIsMarked WakeNotLost
 
