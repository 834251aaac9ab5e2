SPECIFICATION WorkSpec
CONSTANTS
  p1 = p1
  p2 = p2
  file = file
  drop = drop
  Paths = {p1, p2}
  Sources = {file, drop}
  Contents <- MCContents
  MaxRequests = 3
  Daemons = {d1}
  NoDaemon = NoDaemon
  MaxAttempts = 2
  MaxPTRRequests = 2
  MaxClosures = 1
INVARIANTS OneProcessor StatusOfThisConnection
PROPERTIES QueueDrains HeadlineSettles
CHECK_DEADLOCK FALSE
