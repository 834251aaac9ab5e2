SPECIFICATION ManagersSpec
CONSTANTS
  MaxTriggers = 2
  MaxStarts = 3
  Mapping = {m1, m2}
  Committer = {c1, c2}
  MaxLog = 4
  Autoimport = TRUE
  BackoffBase = 2
  BackoffMax = 7
  MaxBoots = 2
INVARIANTS WakeupScheduled StatusUnambiguous Converged
INVARIANTS TrackedChild ExitNoticed StoppedMeansStopped
PROPERTIES AutoResume ShutdownEnds PendingNotDropped Restarts ShutdownReturns
CHECK_DEADLOCK FALSE
