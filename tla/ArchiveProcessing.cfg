SPECIFICATION PartsSpec
CONSTANTS
  b1 = b1
  b2 = b2
  u1 = u1
  u2 = u2
  None = None
  Lous = {1, 2}
  Bodies <- MCBodies
  Hidden <- MCHidden
  Urls <- MCUrls
  RefsOf <- MCRefsOf
  MaxRuns = 2
  MaxEdits = 1
  LastLou = 4
  PerPage = 2
  Mine <- MCMine
  MaxChanges = 2
  MaxFaults = 1
  Parts = {"processing", "floor map"}
INVARIANTS
  DerivedIsAccounted
  MissingAreTrue
PROPERTIES
  CompletedRunIsCurrent
  KnownAreFound
  LocatedStays
CHECK_DEADLOCK FALSE
