SPECIFICATION PanelsSpec
CONSTANTS
  f1 = f1
  f2 = f2
  Files = {f1, f2}
  NoFile = NoFile
  Media <- MCMedia
  MaxFetches = 2
  Daemons = {d1}
  NoDaemon = NoDaemon
  MaxAttempts = 2
INVARIANT PreviewOfSelection
CHECK_DEADLOCK FALSE
