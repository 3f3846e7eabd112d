SPECIFICATION Spec
CONSTANTS
  None = None
  LastLou = 5
  PerPage = 2
  Mine <- MCMine
  MaxChanges = 2
  MaxFaults = 1
INVARIANTS
  TakenMapsAreFull
