SPECIFICATION FairSpec
CONSTANTS
  Table = {300, 600, 700, 1000}
  Policies <- MCPolicies
  FreqStep = 25
  Steps = {0, 25}
  UpThresholds = {45, 100, 101}
  DownThresholds = {10, 20, 70}
  Rates = {0, 2}
  MinRate = 1
  Loads = {0, 50, 100}
  Word = 2048
INVARIANTS TypeOK WithinLimits StoppedForGood
PROPERTIES MovesWithLoad HighLoadReachesMax IdleReachesMin
