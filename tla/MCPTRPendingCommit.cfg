CONSTANTS
  Mapping = {m1, m2}
  Committer = {c1}
  MaxLog = 2
SPECIFICATION PendingSpec
PROPERTY CommittedWasUploaded
