SPECIFICATION SubjectSpec
CONSTANTS
  s1 = s1
  s2 = s2
  b1 = b1
  k1 = k1
  k2 = k2
  j1 = j1
  j2 = j2
  Null = Null
  Limit = 2
  MaxTokens = 6
  MaxClicks = 2
  MaxCalls = 1
  MaxFaults = 1
  MaxChanges = 1
  MaxEdits = 1
  MaxLosses = 1
  QuoteOffset = 0
  Unset <- Null
  Services <- TwoServices
  Bundles <- OneBundle
  Recompositions <- Recomposed
  Carts <- TwoCarts
  Configs <- TwoConfigs
  Slots <- TwoSlots
  TypedStarts = {2520}
  Tomorrow = 2160
  BrowserOffset <- EastOfUtc
  Jurisdictions <- TwoJurisdictions
  FirstListed <- j1
  MilesGiven = {15, 25}
  AskedTimes = {1860}
  Created <- Creations
  Promises = {0, 1, 2, 5, 9}
  Closed = Closed
  Hours <- ThreeDays
  WeekLength = 3
  DayLength = 6
  HourLength = 1
  UtcOffset <- WestOfUtc
  Shift = 1
  ShiftAt = 8
  LateMidnight = TRUE
  SearchLimit = 7
INVARIANTS AllTypesOK SessionIsHonest PageIsTruthful BundleNeverDearer DeadlineCounts
PROPERTIES SessionComesToRest QuoteSettles
CHECK_DEADLOCK FALSE
