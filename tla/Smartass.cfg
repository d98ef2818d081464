SPECIFICATION FairSpec
CONSTANTS
  Table = {300, 600, 1000}
  Policies <- MCPolicies
  Defaults <- MCDefaults
  Inputs <- MCInputs
  Loads = {0, 100}
  Modes <- MCModes
  Liberties <- MCLiberties
  MaxStarts = 2
  Overlap = 2
  Word = 4096
INVARIANTS StopsClean CappedWhileSuspended
PROPERTIES IdleComesDown
