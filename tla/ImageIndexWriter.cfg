SPECIFICATION ServicesSpec
CONSTANTS
  r1 = r1
  r2 = r2
  r3 = r3
  r4 = r4
  Stop = Stop
  Requests = {r1, r2, r3, r4}
  RowCount <- MCRowCount
  QueueCapacity = 2
  MaxRows = 3
  CloseAfterSubmits = TRUE
  PoolWorkers = {"w1", "w2"}
  Clients = {"c1", "c2"}
  MaxWork = 2
  Idle = Idle
  Gone = Gone
INVARIANTS
  NothingIsLost
PROPERTIES
  ImplementsMappingWriter
  EveryoneIsAnswered
