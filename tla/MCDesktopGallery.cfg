SPECIFICATION GallerySpec
CONSTANTS
  f1 = f1
  f2 = f2
  Files = {f1, f2}
  NoFile = NoFile
  Media <- MCMedia
  MaxFetches = 2
  tileMetadataConcurrentLimit = 1
  MaxTileLoads = 2
  EditedFiles = {f1}
  EditorTags = {t1}
  NoTag = NoTag
  MaxWindows = 2
  EditorSlots = {1, 2}
  Queries = {q1}
  NoQuery = NoQuery
  Unordered = Unordered
  MaxSessions = 2
  MaxUnderWay = 2
  Daemons = {d1}
  NoDaemon = NoDaemon
  MaxAttempts = 2
INVARIANTS PanelsFollow TilesSound EditorSound TabsSound
CHECK_DEADLOCK FALSE
