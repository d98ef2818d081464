SPECIFICATION Spec
CONSTANTS
  Used <- MCUsed
  Whats = {mag, orient}
  Delays = {20, 60}
  DEFAULT_DELAY = 200
  Users = {u1, u2}
  FilesOf <- MCFilesOf
  Values <- MCValues
  NULL = NULL
  mag = mag
  orient = orient
  u1 = u1
  u2 = u2
INVARIANTS DriverKnows DelayWanted SettingsKept AlwaysOnlyRaced
