SPECIFICATION FairTurnSpec
CONSTANTS
  big = big
  small = small
  Calls = {big, small}
  Size <- MCSize
  Ordered = {big}
  Capacity = 2
INVARIANTS
  NoLostWakeup
  DeliveredExactly
  QuietWhenEnded
  AtMostOneOvertake
PROPERTIES
  FailureIsolated
  CallsEnd
  CloseReturns
CHECK_DEADLOCK FALSE
