SPECIFICATION InteractiveFairSpec
CONSTANTS
  Table = {300, 600, 1000}
  Policies <- MCPolicies
  Modes = {"calm", "overlap", "failing"}
  MaxStarts = 2
INVARIANTS StopsClean
PROPERTIES BusyGetsHighest IdleComesDown
