CONSTANTS
  Hash = {h1}
  Mime = {jpg, png}
  Time = {0, 2, 3}
  PerSecond = 2
  Importer = {i1, i2}
  KnownHash = {h1}
SPECIFICATION Spec
SYMMETRY Symmetry
INVARIANT RecordedHasFile
