SPECIFICATION StoreSpec
CONSTANTS
  f1 = f1
  f2 = f2
  bad = bad
  ideal = ideal
  parent = parent
  Files <- MCFiles
  Tags <- MCTags
  Ideal <- MCIdeal
  Ancestors <- MCAncestors
  MaxWrites = 2
  Reads = {r1, r2}
  PoolSize = 2
  PairsPerRead = 2
  Daemons = {d1, d2}
  MaxStarts = 2
  Digits = {0, 1}
  PrefixLength = 2
INVARIANTS ConnectionsConserved LibraryInv RowsFaithful SearchFindsTagged
INVARIANTS BootstrappedStays FailureRemovesPublished SeedPassesVerification
PROPERTY NobodyWaitsForEver
CHECK_DEADLOCK FALSE
