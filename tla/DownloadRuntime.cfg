SPECIFICATION MCSpec
CONSTANTS
  big = big
  small = small
  None = None
  Calls = {big, small}
  Size <- MCSize
  Limit <- MCLimit
  Retries = 1
  Capacity = 2
INVARIANTS
  FilesAccounted
  QueueIsSound
PROPERTIES
  CancelledStartsNothing
  CallersReturn
CHECK_DEADLOCK FALSE
