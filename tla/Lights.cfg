SPECIFICATION LightsSpec
CONSTANTS
  Callers = {c1, c2}
  Opened <- MCOpened
  BackStates <- MCBackStates
  Colors <- MCColors
  Levels = {0, 255}
  Scales = {0, 30, 100}
  defy_plus = TRUE
  ProcLevels = {300}
  NULL = NULL
  c1 = c1
  c2 = c2
SYMMETRY Symmetry
INVARIANTS LastCallShown ButtonShown
