--------------------------- MODULE DesktopTiles ----------------------------
(***************************************************************************)
(* The caches behind the gallery's tiles in the desktop client (app.go):   *)
(* thumbnails, basic metadata and tags of the listed files, filled by      *)
(* goroutines that run at the same time as those of the selected file.     *)
(* A file being loaded is entered in a set, so that it is loaded once; a   *)
(* new first page and a connect attempt begin a new generation, and what   *)
(* an older generation brings back is thrown away.                         *)
(*                                                                         *)
(* thumbnailGen and tileMetadataGen count the same events and are only     *)
(* compared with themselves, so a load carries whether its generation is   *)
(* still the present one.  Cached data carries the connection it came      *)
(* over, in place of its content.  The load of the selected file's tags is *)
(* the one that stores its answer without asking for the connection or a   *)
(* generation; strayTags remembers what it stored so.                      *)
(***************************************************************************)
EXTENDS DesktopSelection

CONSTANTS
  tileMetadataConcurrentLimit,
  MaxTileLoads   \* bound on the goroutines under way at once

ASSUME TilesAssumption ==
  tileMetadataConcurrentLimit \in Nat \ {0} /\ MaxTileLoads \in Nat \ {0}

VARIABLES
  thumbnailCache,        \* p.thumbnailCache: the connection, 0 if not cached
  thumbnailLoads,        \* p.thumbnailLoads
  tileMetadataCache,     \* p.tileMetadataCache: basic is 0 for FileID == 0,
                         \* tags is 0 for none
  tileMetadataLoads,     \* p.tileMetadataLoads
  tileMetadataTagLoads,  \* p.tileMetadataTagLoads
  tileLoads,             \* the goroutines
  strayTags              \* files whose cached tags loadSelectedTags stored
                         \* over a connection that had ended (history)

tileVars == <<thumbnailCache, thumbnailLoads, tileMetadataCache,
              tileMetadataLoads, tileMetadataTagLoads, tileLoads, strayTags>>

NotCached == [cached |-> FALSE, basic |-> 0, tags |-> 0]

\* A file's basic metadata and tags as fetched.
WithBasic(f, generation) ==
  [cached |-> TRUE, basic |-> generation, tags |-> tileMetadataCache[f].tags]
WithTags(f, generation) ==
  [cached |-> TRUE, basic |-> tileMetadataCache[f].basic, tags |-> generation]

TilesInit ==
  /\ thumbnailCache = [f \in Files |-> 0]
  /\ thumbnailLoads = {}
  /\ tileMetadataCache = [f \in Files |-> NotCached]
  /\ tileMetadataLoads = {}
  /\ tileMetadataTagLoads = {}
  /\ tileLoads = {}
  /\ strayTags = {}

TileLoad(kind, f, connection) ==
  [at |-> "asked", kind |-> kind, file |-> f, connection |-> connection,
   present |-> TRUE]

StartTileLoad(kind, f, connection) ==
  tileLoads' = tileLoads \cup {TileLoad(kind, f, connection)}

EndTileLoad(load) == tileLoads' = tileLoads \ {load}
MoveTileLoad(load, at) ==
  tileLoads' = (tileLoads \ {load}) \cup {[load EXCEPT !.at = at]}

\* thumbnailGen++ and tileMetadataGen++; the loads of the selected file have
\* no generation.
TileKinds == {"thumbnail", "tile", "tags"}

OldGeneration ==
  {IF load.kind \in TileKinds THEN [load EXCEPT !.present = FALSE] ELSE load :
     load \in tileLoads}

----------------------------------------------------------------------------
(* Drawing the grid, and the ticker that looks at its visible rows.        *)

EnsurePreviewResource(f) ==
  /\ Online /\ f \in listed
  /\ thumbnailCache[f] = 0 /\ f \notin thumbnailLoads
  /\ thumbnailLoads' = thumbnailLoads \cup {f}
  /\ StartTileLoad("thumbnail", f, currentConnection)
  /\ UNCHANGED <<thumbnailCache, tileMetadataCache, tileMetadataLoads,
                 tileMetadataTagLoads>>

\* shouldPrefetchTileMetadata; it may also say no while the PTR syncs.
shouldPrefetchTileMetadata(f) == f # selectedFileID

EnsureTileMetadata(f) ==
  /\ Online /\ f \in listed /\ shouldPrefetchTileMetadata(f)
  /\ ~tileMetadataCache[f].cached /\ f \notin tileMetadataLoads
  /\ Cardinality(tileMetadataLoads) < tileMetadataConcurrentLimit
  /\ tileMetadataLoads' = tileMetadataLoads \cup {f}
  /\ StartTileLoad("tile", f, currentConnection)
  /\ UNCHANGED <<thumbnailCache, thumbnailLoads, tileMetadataCache,
                 tileMetadataTagLoads>>

EnsureTileTagMetadata(f) ==
  /\ Online /\ f \in listed /\ shouldPrefetchTileMetadata(f)
  /\ tileMetadataCache[f].basic # 0 /\ tileMetadataCache[f].tags = 0
  /\ f \notin tileMetadataTagLoads
  /\ Cardinality(tileMetadataTagLoads) < tileMetadataConcurrentLimit
  /\ tileMetadataTagLoads' = tileMetadataTagLoads \cup {f}
  /\ StartTileLoad("tags", f, currentConnection)
  /\ UNCHANGED <<thumbnailCache, thumbnailLoads, tileMetadataCache,
                 tileMetadataLoads>>

----------------------------------------------------------------------------
(* The goroutines of the tiles.                                            *)

\* clearThumbnailLoad, clearTileMetadataLoad, and the deferred delete of
\* ensureTileTagMetadata: each for its own set and present generation only.
ClearTileLoad(load) ==
  LET Without(kind, loading) ==
        IF load.kind = kind /\ load.present THEN loading \ {load.file}
        ELSE loading
  IN /\ thumbnailLoads' = Without("thumbnail", thumbnailLoads)
     /\ tileMetadataLoads' = Without("tile", tileMetadataLoads)
     /\ tileMetadataTagLoads' = Without("tags", tileMetadataTagLoads)

\* The answer is in, and so far the connection is the same.
TileAnswered(load) ==
  /\ load.at = "asked" /\ load.kind \in TileKinds
  /\ IF isCurrentOperation(load.connection)
     THEN MoveTileLoad(load, "answered")
          /\ UNCHANGED <<thumbnailLoads, tileMetadataLoads,
                         tileMetadataTagLoads>>
     ELSE EndTileLoad(load) /\ ClearTileLoad(load)
  /\ UNCHANGED <<thumbnailCache, tileMetadataCache>>

\* A failed thumbnail is cached too, as none: it goes on as an answer.
TileFailed(load) ==
  /\ load.at = "asked" /\ load.kind \in {"tile", "tags"}
  /\ EndTileLoad(load) /\ ClearTileLoad(load)
  /\ UNCHANGED <<thumbnailCache, tileMetadataCache>>

\* Tags that are fetched may be none.
Store(load) ==
  LET f == load.file
      generation == load.connection.generation
  IN CASE load.kind = "thumbnail" ->
            /\ thumbnailCache' = [thumbnailCache EXCEPT ![f] = generation]
            /\ UNCHANGED <<tileMetadataCache, strayTags>>
       [] load.kind = "tile" ->
            /\ tileMetadataCache' = [tileMetadataCache EXCEPT
                 ![f] = WithBasic(f, IF @.basic = 0 THEN generation
                                     ELSE @.basic)]
            /\ UNCHANGED <<thumbnailCache, strayTags>>
       [] OTHER ->
            /\ \E tags \in {0, generation} :
                 tileMetadataCache' =
                   [tileMetadataCache EXCEPT ![f] = WithTags(f, tags)]
            /\ strayTags' = strayTags \ {f}
            /\ UNCHANGED thumbnailCache

\* Seeded fault: the generation is not looked at again under the lock.
TileStoredUnchecked(load) ==
  /\ load.at = "answered"
  /\ EndTileLoad(load)
  /\ ClearTileLoad([load EXCEPT !.present = TRUE])
  /\ Store(load)

TileStored(load) ==
  /\ load.at = "answered"
  /\ EndTileLoad(load)
  /\ ClearTileLoad(load)
  /\ IF load.present THEN Store(load)
     ELSE UNCHANGED <<thumbnailCache, tileMetadataCache, strayTags>>

----------------------------------------------------------------------------
(* The selected file.                                                      *)

loadSelectedMetadata(f) ==
  IF ~tileMetadataCache[f].cached
  THEN /\ StartTileLoad("selected", f, currentConnection)
       /\ UNCHANGED tileMetadataTagLoads
  ELSE IF tileMetadataCache[f].tags # 0 \/ f \in tileMetadataTagLoads
  THEN UNCHANGED <<tileLoads, tileMetadataTagLoads>>
  ELSE /\ StartTileLoad("selectedTags", f, currentConnection)
       /\ tileMetadataTagLoads' = tileMetadataTagLoads \cup {f}

\* The goroutine hands its metadata to the UI thread, and goes on meanwhile.
SelectedAnswered(load) ==
  /\ load.at = "asked" /\ load.kind = "selected"
  /\ tileLoads' = (tileLoads \ {load})
       \cup {[load EXCEPT !.at = "closure"], [load EXCEPT !.at = "tags"]}
  /\ UNCHANGED <<thumbnailCache, thumbnailLoads, tileMetadataCache,
                 tileMetadataLoads, tileMetadataTagLoads>>

SelectedFailed(load) ==
  /\ load.at = "asked" /\ load.kind = "selected"
  /\ EndTileLoad(load)
  /\ UNCHANGED <<thumbnailCache, thumbnailLoads, tileMetadataCache,
                 tileMetadataLoads, tileMetadataTagLoads>>

SelectedShown(load) ==
  LET f == load.file
  IN /\ load.at = "closure"
     /\ tileMetadataCache' =
          IF isCurrentOperation(load.connection) /\ selectedFileID = f
          THEN [tileMetadataCache EXCEPT
                  ![f] = WithBasic(f, load.connection.generation)]
          ELSE tileMetadataCache
     /\ EndTileLoad(load)
     /\ UNCHANGED <<thumbnailCache, thumbnailLoads, tileMetadataLoads,
                    tileMetadataTagLoads>>

\* It loads the tags unless somebody does, or the file was deselected.
SelectedLoadsTags(load) ==
  LET f == load.file
  IN /\ load.at = "tags"
     /\ IF selectedFileID # f \/ f \in tileMetadataTagLoads
        THEN EndTileLoad(load) /\ UNCHANGED tileMetadataTagLoads
        ELSE /\ tileMetadataTagLoads' = tileMetadataTagLoads \cup {f}
             /\ tileLoads' = (tileLoads \ {load}) \cup
                  {TileLoad("selectedTags", f, load.connection)}
     /\ UNCHANGED <<thumbnailCache, thumbnailLoads, tileMetadataCache,
                    tileMetadataLoads>>

\* loadSelectedTags fails, or stores what it fetches whatever happened
\* meanwhile; its entry in the set goes in any case.
SelectedTagsEnd(load) ==
  LET f == load.file
      generation == load.connection.generation
  IN /\ load.at = "asked" /\ load.kind = "selectedTags"
     /\ \/ UNCHANGED <<tileMetadataCache, strayTags>>
        \/ /\ \E tags \in {0, generation} :
                tileMetadataCache' =
                  [tileMetadataCache EXCEPT ![f] = WithTags(f, tags)]
           /\ strayTags' = IF generation = connectionGen
                           THEN strayTags \ {f} ELSE strayTags \cup {f}
     /\ tileMetadataTagLoads' = tileMetadataTagLoads \ {f}
     /\ EndTileLoad(load)
     /\ UNCHANGED <<thumbnailCache, thumbnailLoads, tileMetadataLoads>>

----------------------------------------------------------------------------
(* The user, the pages and the connection.                                 *)

TilesSelectFile(f) ==
  /\ PickFile(f)
  /\ loadSelectedMetadata(f)
  /\ UNCHANGED <<thumbnailCache, thumbnailLoads, tileMetadataCache,
                 tileMetadataLoads, strayTags, connectionVars>>

\* applyRecentItems: a new generation, and nothing cached or being loaded.
ResetTiles ==
  /\ thumbnailCache' = [f \in Files |-> 0]
  /\ thumbnailLoads' = {}
  /\ tileMetadataCache' = [f \in Files |-> NotCached]
  /\ tileMetadataLoads' = {}
  /\ tileMetadataTagLoads' = {}
  /\ strayTags' = {}
  /\ tileLoads' = OldGeneration \cup
       (IF selectedFileID' = NoFile THEN {}
        ELSE {TileLoad("selected", selectedFileID', currentConnection)})

TilesPageApplied ==
  /\ PageApplied
  /\ ResetTiles
  /\ UNCHANGED connectionVars

\* applySearchItems leaves the caches alone.
TilesSearchApplied ==
  /\ PageApplied
  /\ IF selectedFileID' = NoFile
     THEN UNCHANGED <<tileLoads, tileMetadataTagLoads>>
     ELSE loadSelectedMetadata(selectedFileID')
  /\ UNCHANGED <<thumbnailCache, thumbnailLoads, tileMetadataCache,
                 tileMetadataLoads, strayTags, connectionVars>>

TilesPagesOnly ==
  /\ \/ ReloadGallery \/ LoadMore \/ PageFails
     \/ OlderPageDropped \/ PageAppended
  /\ UNCHANGED <<tileVars, connectionVars>>

\* resetConnectionAttemptState; the entries of tag loads stay.
TilesConnect(d) ==
  /\ BeginConnectAttempt(d)
  /\ ForgetPageLoad
  /\ tileLoads' = OldGeneration
  /\ thumbnailLoads' = {}
  /\ tileMetadataLoads' = {}
  /\ UNCHANGED <<thumbnailCache, tileMetadataCache, tileMetadataTagLoads,
                 strayTags>>

TilesAttempt(a) ==
  /\ AttemptRequests(a) \/ RestoreConnectedState(a)
  /\ UNCHANGED <<tileVars, selectionVars>>

TilesConnected(a) ==
  /\ InstallConnection(a)
  /\ FirstPage
  /\ ResetTiles

----------------------------------------------------------------------------
TileLoadStep(load) ==
  \/ /\ \/ TileAnswered(load) \/ TileFailed(load)
        \/ SelectedAnswered(load) \/ SelectedFailed(load)
        \/ SelectedShown(load) \/ SelectedLoadsTags(load)
     /\ UNCHANGED strayTags
  \/ TileStored(load) \/ SelectedTagsEnd(load)

TilesStep ==
  \/ /\ \/ /\ \E f \in Files : \/ EnsurePreviewResource(f)
                               \/ EnsureTileMetadata(f)
                               \/ EnsureTileTagMetadata(f)
           /\ UNCHANGED strayTags
        \/ \E load \in tileLoads : TileLoadStep(load)
     /\ UNCHANGED <<selectionVars, connectionVars>>
  \/ \E f \in Files : TilesSelectFile(f)
  \/ TilesPagesOnly \/ TilesPageApplied \/ TilesSearchApplied
  \/ \E d \in Daemons : TilesConnect(d)
  \/ \E a \in AttemptIDs : TilesAttempt(a) \/ TilesConnected(a)

TilesNext == TilesStep /\ Cardinality(tileLoads') <= MaxTileLoads

TilesSpec ==
  /\ ConnectionInit /\ SelectionInit /\ TilesInit
  /\ [][TilesNext]_<<connectionVars, selectionVars, tileVars>>

----------------------------------------------------------------------------
(* Properties.                                                             *)

LoadedBy(f, kinds) ==
  \E load \in tileLoads : /\ load.at \in {"asked", "answered"}
                          /\ load.kind \in kinds
                          /\ load.file = f /\ load.present

\* However late answers are: what the caches hold came over the connection
\* the client has, and every file entered as being loaded has a goroutine
\* that will take its entry out, so that no tile waits for a load nobody
\* makes (for tags, as long as no connect attempt has failed:
\* resetConnectionAttemptState forgets their entries).  Excepted are tags
\* that loadSelectedTags stored over a connection that had ended: the code
\* keeps them, and shows them when the file is picked again.
TilesSound ==
  /\ \A f \in Files :
       /\ thumbnailCache[f] \in {0, connectionGen}
       /\ tileMetadataCache[f].basic \in {0, connectionGen}
       /\ tileMetadataCache[f].tags \in {0, connectionGen} \/ f \in strayTags
  /\ \A f \in thumbnailLoads : LoadedBy(f, {"thumbnail"})
  /\ \A f \in tileMetadataLoads : LoadedBy(f, {"tile"})
  /\ connectAttemptID = connectionGen =>
       \A f \in tileMetadataTagLoads : LoadedBy(f, {"tags", "selectedTags"})

----------------------------------------------------------------------------
(* The inductive invariant. *)

TileLoads ==
  [at : {"asked", "answered", "closure", "tags"},
   kind : TileKinds \cup {"selected", "selectedTags"},
   file : Files, connection : Connections, present : BOOLEAN]

TilesTypes ==
  /\ thumbnailCache \in [Files -> Nat]
  /\ tileMetadataCache \in
       [Files -> [cached : BOOLEAN, basic : Nat, tags : Nat]]
  /\ tileLoads \subseteq TileLoads /\ strayTags \subseteq Files

\* A load of the present generation was begun over the present connection,
\* and one that has no generation is always a present one.
LoadInv(load) ==
  /\ load.at = "answered" => load.kind \in TileKinds
  /\ load.at \in {"closure", "tags"} => load.kind = "selected"
  /\ load.kind \notin TileKinds => load.present
  /\ load.kind \in TileKinds /\ load.present =>
       load.connection.generation = connectionGen

\* Every connection took an attempt of its own.
GenerationInv ==
  /\ connectionGen <= connectAttemptID
  /\ AttemptUnderWay => connectionGen < connectAttemptID

TilesInv ==
  /\ ConnectionInv /\ SelectionInv /\ TilesTypes /\ GenerationInv
  /\ \A load \in tileLoads : LoadInv(load)
  /\ TilesSound
=============================================================================
