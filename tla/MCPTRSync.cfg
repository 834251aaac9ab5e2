SPECIFICATION Spec
CONSTANTS
  m1 = m1
  m2 = m2
  Update <- MCUpdate
  IndexOf <- MCIndexOf
  KindOf <- MCKindOf
  Mapping <- MCMapping
  Adds <- MCAdds
  Deletes <- MCDeletes
  Defines <- MCDefines
  MaxIndex = 2
  StagedPending <- MCPending
  Petitioned <- MCPetitioned
  Proc = {p1, p2}
  Parallelism = 2
  BatchSize = 2
  MaxRetryAttempts = 1
  MaxRuns = 3
  Faults = {"throttle", "fail", "error", "cancel", "cleanup", "crash"}
SYMMETRY Symmetry
INVARIANTS AppliedInOrder TablesMatchReplay NothingBelowSliceLost
  CompleteMeansApplied DefinitionsReady
PROPERTIES ProgressKept ImplementsReplay
CHECK_DEADLOCK FALSE
