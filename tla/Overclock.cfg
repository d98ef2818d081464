SPECIFICATION OverclockSpec
CONSTANTS
  Table = {300, 600, 800, 1000}
  N = 3
  Rates <- MCRates
  Entries = 2
  Writers = {w1, w2}
  OppInputs <- MCInputs
  MaxTicks = 1
  NULL = NULL
  w1 = w1
  w2 = w2
SYMMETRY Symmetry
INVARIANTS
  TablesAgree
  AccountsRight
  TimeConserved
