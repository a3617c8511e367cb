SPECIFICATION FairSpec
CONSTANTS
  s1 = s1
  c1 = c1
  s2 = s2
  e1 = e1
  e2 = e2
  x1 = x1
  NoItem = NoItem
  Services = {s1, s2}
  Contents = {c1}
  Seeds = {s1}
  Editors = {e1, e2}
  Cleaners = {x1}
  MaxEdits = 3
  MaxVersions = 2
  MaxRestarts = 1
  MaxFaults = 1
INVARIANTS TypeOK
PROPERTIES SearchKept StaleCopyGoes CleanupSparesPublished
CHECK_DEADLOCK FALSE
