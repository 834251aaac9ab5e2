SPECIFICATION BootSpec
CONSTANTS
  Daemons = {d1, d2}
  MaxStarts = 2
  Digits = {0, 1}
  PrefixLength = 2
INVARIANT FailureLeavesEmpty
CHECK_DEADLOCK FALSE
