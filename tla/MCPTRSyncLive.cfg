SPECIFICATION FairSpec
CONSTANTS
  m1 = m1
  m2 = m2
  Update <- MCUpdate
  IndexOf <- MCIndexOf
  KindOf <- MCKindOf
  Mapping <- MCMapping
  Adds <- MCAdds
  Deletes <- MCDeletes
  Defines <- MCDefines
  MaxIndex = 2
  StagedPending <- MCPending
  Petitioned <- MCPetitioned
  Proc = {p1, p2}
  Parallelism = 2
  BatchSize = 3
  MaxRetryAttempts = 1
  MaxRuns = 2
  Faults = {"throttle", "fail", "error", "cancel", "crash"}
PROPERTIES RunTerminates LeaseReleased
CHECK_DEADLOCK FALSE
