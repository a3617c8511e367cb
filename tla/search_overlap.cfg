SPECIFICATION Spec
CONSTANTS
  NoItem = NoItem
  Services = {s1}
  Contents = {}
  Seeds = {}
  Editors = {e1, e2}
  Cleaners = {}
  MaxEdits = 3
  MaxVersions = 2
  MaxRestarts = 0
  MaxFaults = 0
INVARIANTS OnlyPublishedIsListed
CHECK_DEADLOCK FALSE
