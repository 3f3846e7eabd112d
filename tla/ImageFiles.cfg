SPECIFICATION FairSpec
CONSTANTS
  t1 = t1
  t2 = t2
  t3 = t3
  c1 = c1
  c2 = c2
  h = h
  None = None
  Threads = {t1, t2}
  Contents = {c1, c2}
  Hashes = {h}
  HashOf <- MCHashOf
  MaxIndex = 1
  MaxJobs = 3
  MaxDamage = 1
  MaxCommands = 2
  Faults = {"decode", "place", "cache"}
INVARIANTS
  StoredStays
  CacheIsSound
PROPERTIES
  JobsEnd
