SPECIFICATION MCFairSpec
CONSTANTS
  p1 = p1
  p2 = p2
  ka = ka
  kb = kb
  kc = kc
  None = None
  Pipelines = {p1, p2}
  NTasks <- SmallNTasks
  Keys = {ka, kb}
  KeyOf <- SmallKeyOf
  StoreLimit = 1
  ResultLimit = 2
  BatchLimit = 2
  Faults = {"download", "stream", "callback", "lostfile"}
INVARIANTS
  ClaimsAreReleased
PROPERTIES
  PipelinesEnd
