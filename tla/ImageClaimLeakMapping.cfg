SPECIFICATION MCSpec
CONSTANTS
  p1 = p1
  p2 = p2
  ka = ka
  kb = kb
  kc = kc
  None = None
  Pipelines = {p1, p2}
  NTasks <- TwoNTasks
  Keys = {ka, kb}
  KeyOf <- TwoKeyOf
  StoreLimit = 1
  ResultLimit = 2
  BatchLimit = 2
  Faults = {"stream","mapping"}
INVARIANTS
  EndedOwnsNothing
