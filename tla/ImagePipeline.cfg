SPECIFICATION MCSpec
CONSTANTS
  p1 = p1
  p2 = p2
  ka = ka
  kb = kb
  kc = kc
  None = None
  Pipelines = {p1, p2}
  NTasks <- LongNTasks
  Keys = {ka, kb, kc}
  KeyOf <- LongKeyOf
  StoreLimit = 2
  ResultLimit = 2
  BatchLimit = 2
  Faults = {"download", "store", "mapping", "setup", "lostfile"}
INVARIANTS
  SuccessIsDurable
  ReportsAreExact
  Bounded
PROPERTIES
  ImplementsSharedDownloads
CHECK_DEADLOCK FALSE
