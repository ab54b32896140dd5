SPECIFICATION MCSpec
CONSTANTS
  n1 = n1
  n2 = n2
  Names = {n1, n2}
  NoPage = NoPage
  MaxCalls = 2
  MaxActs = 2
  MaxFaults = 1
INVARIANTS
  TypeOK
  OptimisticRows
  CreatedIsNotGone
PROPERTIES
  PollingSettles
CHECK_DEADLOCK FALSE
