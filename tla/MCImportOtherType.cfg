CONSTANTS
  Hash = {h1}
  Mime = {jpg, png}
  Time = {0, 2}
  PerSecond = 2
  Importer = {i1, i2}
  KnownHash = {}
SPECIFICATION Spec
SYMMETRY Symmetry
INVARIANT FailedRecordLeavesNoFile
