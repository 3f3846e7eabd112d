SPECIFICATION PartsSpec
CONSTANTS
  b1 = b1
  b2 = b2
  u1 = u1
  u2 = u2
  None = None
  Lous = {1, 2}
  Bodies <- MCBodies
  Hidden <- MCHidden
  Urls <- MCUrls
  RefsOf <- MCRefsOf
  MaxRuns = 2
  MaxEdits = 0
  LastLou = 4
  PerPage = 2
  Mine <- MCMine
  MaxChanges = 2
  MaxFaults = 1
  Parts = {"processing"}
INVARIANTS
  BackupProceeds
CHECK_DEADLOCK FALSE
