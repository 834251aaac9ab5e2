------------------------ MODULE DesktopGalleryProofs ------------------------
(***************************************************************************)
(* Proofs about what follows the gallery of the desktop client: the caches *)
(* behind the tiles, the preview of the selected file, and the watcher;    *)
(* about the tag editor, which edits a file of it; and about the tabs that *)
(* list its searches.                                                      *)
(* The lemmas about the connection and its snapshots are those of          *)
(* DesktopWorkProofs.                                                      *)
(***************************************************************************)
EXTENDS DesktopWorkProofs, DesktopTiles, DesktopPanels, DesktopTagEditor,
        DesktopTabs

----------------------------------------------------------------------------
(***************************************************************************)
(* Pages and the selected file.                                            *)
(***************************************************************************)

(* Nothing is listed before the first connection.                          *)
LEMMA SelectionInitial == SelectionInit => SelectionInv
  <1> SUFFICES ASSUME SelectionInit PROVE SelectionInv
    OBVIOUS
  <1>1. galleryLoad \in PageLoads /\ ~galleryLoad.under
    BY DEF SelectionInit, NoLoad, PageLoads
  <1>2. QED
    BY <1>1 DEF SelectionInit, SelectionInv, SelectionTypes

(* The load that takes no more part leaves none.                           *)
LEMMA NoLoadTypes ==
  /\ NoLoad \in PageLoads
  /\ ~NoLoad.under /\ ~NoLoad.append
  BY DEF NoLoad, PageLoads

(* A page load begins: an appended page is to keep the selection.          *)
LEMMA PageLoadBegins ==
  ASSUME SelectionInv, NEW appended \in BOOLEAN, NEW f \in Files \cup {NoFile},
         BeginPageLoad(appended, f)
  PROVE  /\ galleryLoad' \in PageLoads /\ olderLoad' \in BOOLEAN
         /\ recentLoadBusy' \in BOOLEAN
         /\ galleryLoad'.append <=> appended
         /\ galleryLoad'.preferred =
              IF f = NoFile THEN selectedFileID ELSE f
  <1>1. SelectionTypes
    BY DEF SelectionInv
  <1> DEFINE p == IF f = NoFile THEN selectedFileID ELSE f
             l == [append |-> appended, preferred |-> p, under |-> TRUE]
  <1>2. p \in Files \cup {NoFile}
    BY <1>1 DEF SelectionTypes
  <1>3. galleryLoad' = l /\ recentLoadBusy' = TRUE
    BY DEF BeginPageLoad
  <1>4. l \in PageLoads
    BY <1>2 DEF PageLoads
  <1>5. olderLoad' \in BOOLEAN
    <2>1. olderLoad' = (olderLoad \/ galleryLoad.under)
      BY DEF BeginPageLoad, Supersede
    <2>2. QED
      BY <2>1
  <1>6. QED
    BY <1>3, <1>4, <1>5

(* The steps of page loads that replace no page.                           *)
LEMMA PageLoadsKept ==
  ASSUME SelectionInv, UNCHANGED connected,
         ReloadGallery \/ LoadMore \/ PageFails \/ OlderPageDropped
  PROVE  /\ SelectionInv' /\ UNCHANGED <<listed, selectedFileID>>
         /\ galleryLoad'.append =>
              \/ galleryLoad' = galleryLoad
              \/ galleryLoad'.preferred = selectedFileID
  <1>1. SelectionTypes
    BY DEF SelectionInv
  <1>2. CASE ReloadGallery
    <2>1. /\ connected
          /\ \E f \in Files \cup {NoFile} : BeginPageLoad(FALSE, f)
          /\ UNCHANGED <<listed, selectedFileID>>
      BY <1>2 DEF ReloadGallery, Online
    <2>2. /\ galleryLoad' \in PageLoads /\ olderLoad' \in BOOLEAN
          /\ recentLoadBusy' \in BOOLEAN /\ ~galleryLoad'.append
      BY <2>1, PageLoadBegins
    <2>3. QED
      BY <1>1, <2>1, <2>2 DEF SelectionInv, SelectionTypes
  <1>3. CASE LoadMore
    <2>1. /\ connected /\ BeginPageLoad(TRUE, selectedFileID)
          /\ UNCHANGED <<listed, selectedFileID>>
      BY <1>3 DEF LoadMore, Online
    <2>2. PICK f \in Files \cup {NoFile} : f = selectedFileID
      BY <1>1 DEF SelectionTypes
    <2>3. BeginPageLoad(TRUE, f)
      BY <2>1, <2>2
    <2>4. /\ galleryLoad' \in PageLoads /\ olderLoad' \in BOOLEAN
          /\ recentLoadBusy' \in BOOLEAN
          /\ galleryLoad'.preferred = selectedFileID
      BY <2>2, <2>3, PageLoadBegins
    <2>5. QED
      BY <1>1, <2>1, <2>4 DEF SelectionInv, SelectionTypes
  <1>4. CASE PageFails
    BY <1>1, <1>4, NoLoadTypes
       DEF PageFails, EndPageLoad, SelectionInv, SelectionTypes
  <1>5. CASE OlderPageDropped
    <2>1. /\ olderLoad' = FALSE /\ recentLoadBusy' = FALSE
          /\ UNCHANGED <<listed, selectedFileID, galleryLoad>>
      BY <1>5 DEF OlderPageDropped
    <2>2. QED
      BY <1>1, <2>1 DEF SelectionInv, SelectionTypes
  <1>6. QED
    BY <1>2, <1>3, <1>4, <1>5

(* A page replaces the list, or is appended to it: the file the load asked *)
(* for is selected, or none.                                               *)
LEMMA PageShown ==
  ASSUME SelectionInv, UNCHANGED connected, PageApplied \/ PageAppended
  PROVE  /\ SelectionInv' /\ connected /\ galleryLoad' = NoLoad
         /\ \/ UNCHANGED selectedFileID
            \/ selectedFileID' \in {galleryLoad.preferred, NoFile}
  <1>1. SelectionTypes
    BY DEF SelectionInv
  <1>2. /\ galleryLoad.under /\ galleryLoad' = NoLoad
        /\ recentLoadBusy' = FALSE /\ UNCHANGED olderLoad
    BY DEF PageApplied, PageAppended, EndPageLoad
  <1>3. \/ UNCHANGED <<listed, selectedFileID>>
        \/ \E items \in SUBSET Files :
             ApplyItems(items, galleryLoad.preferred)
    <2>1. CASE PageApplied
      BY <2>1 DEF PageApplied
    <2>2. CASE PageAppended
      <3>1. \A items \in SUBSET Files : listed \cup items \in SUBSET Files
        BY <1>1 DEF SelectionTypes
      <3>2. QED
        BY <2>2, <3>1 DEF PageAppended
    <2>3. QED
      BY <2>1, <2>2
  <1>4. galleryLoad.preferred \in Files \cup {NoFile}
    BY <1>1 DEF SelectionTypes, PageLoads
  <1>5. /\ listed' \subseteq Files /\ selectedFileID' \in Files \cup {NoFile}
        /\ \/ UNCHANGED selectedFileID
           \/ selectedFileID' \in {galleryLoad.preferred, NoFile}
    BY <1>1, <1>3, <1>4 DEF SelectionTypes, ApplyItems, Selectable
  <1>6. SelectionTypes'
    BY <1>1, <1>2, <1>5, NoLoadTypes DEF SelectionTypes
  <1>7. QED
    BY <1>2, <1>5, <1>6, NoLoadTypes DEF SelectionInv

(* A connect attempt forgets the load; what is listed stays.               *)
LEMMA PageLoadForgotten ==
  ASSUME SelectionInv, ForgetPageLoad
  PROVE  /\ SelectionInv' /\ galleryLoad' = NoLoad
         /\ UNCHANGED <<listed, selectedFileID>>
  <1>1. SelectionTypes
    BY DEF SelectionInv
  <1>2. /\ galleryLoad' = NoLoad
        /\ olderLoad' = (olderLoad \/ galleryLoad.under)
        /\ UNCHANGED <<listed, selectedFileID, recentLoadBusy>>
    BY DEF ForgetPageLoad, Supersede
  <1>3. olderLoad' \in BOOLEAN
    BY <1>2
  <1>4. QED
    BY <1>1, <1>2, <1>3, NoLoadTypes DEF SelectionInv, SelectionTypes

(* The user picks a file of the list.                                      *)
LEMMA FilePicked ==
  ASSUME SelectionInv, NEW f \in Files, PickFile(f), UNCHANGED connected
  PROVE  SelectionInv' /\ connected /\ selectedFileID' = f /\ f \in listed
  <1>1. /\ connected /\ f \in listed /\ selectedFileID' = f
        /\ UNCHANGED <<listed, galleryLoad, olderLoad, recentLoadBusy>>
    BY DEF PickFile, loadVars
  <1>2. QED
    BY <1>1 DEF SelectionInv, SelectionTypes

(* The first page of a connection has nothing selected.                    *)
LEMMA FirstPageShown ==
  ASSUME SelectionInv, FirstPage, connected'
  PROVE  SelectionInv' /\ selectedFileID' = NoFile /\ UNCHANGED galleryLoad
  <1>1. PICK items \in SUBSET Files : ApplyItems(items, NoFile)
    BY DEF FirstPage
  <1>2. /\ listed' \subseteq Files /\ selectedFileID' = NoFile
        /\ UNCHANGED <<galleryLoad, olderLoad, recentLoadBusy>>
    BY <1>1 DEF FirstPage, ApplyItems, Selectable, loadVars
  <1>3. QED
    BY <1>2 DEF SelectionInv, SelectionTypes

(* The steps of an attempt that leave the gallery alone.                   *)
LEMMA SelectionWaits ==
  ASSUME SelectionInv, UNCHANGED selectionVars, connected => connected'
  PROVE  SelectionInv'
  <1>1. UNCHANGED <<listed, selectedFileID, galleryLoad, olderLoad,
                    recentLoadBusy>>
    BY DEF selectionVars, loadVars
  <1>2. QED
    BY <1>1 DEF SelectionInv, SelectionTypes

----------------------------------------------------------------------------
(***************************************************************************)
(* The tiles.                                                              *)
(***************************************************************************)

(* What is cached is of the present connection, but for stray tags.        *)
CacheInv ==
  \A f \in Files :
    /\ thumbnailCache[f] \in {0, connectionGen}
    /\ tileMetadataCache[f].basic \in {0, connectionGen}
    /\ tileMetadataCache[f].tags \in {0, connectionGen} \/ f \in strayTags

(* An entry has a goroutine that will take it out.                         *)
EntriesInv ==
  /\ \A f \in thumbnailLoads : LoadedBy(f, {"thumbnail"})
  /\ \A f \in tileMetadataLoads : LoadedBy(f, {"tile"})
  /\ connectAttemptID = connectionGen =>
       \A f \in tileMetadataTagLoads : LoadedBy(f, {"tags", "selectedTags"})

LoadsInv == \A load \in tileLoads : LoadInv(load)

(* The types of what the goroutines fill.                                  *)
CacheTypes ==
  /\ thumbnailCache \in [Files -> Nat]
  /\ tileMetadataCache \in
       [Files -> [cached : BOOLEAN, basic : Nat, tags : Nat]]
  /\ strayTags \subseteq Files

(* The invariant of the tiles, with the types by name.                     *)
LEMMA TilesInvIs ==
  TilesInv <=> /\ ConnectionInv /\ SelectionInv /\ CacheTypes /\ GenerationInv
               /\ tileLoads \subseteq TileLoads
               /\ LoadsInv /\ CacheInv /\ EntriesInv
  BY DEF TilesInv, TilesTypes, CacheTypes, LoadsInv, TilesSound, CacheInv,
         EntriesInv

(* The next state satisfies the invariant when it satisfies each part.     *)
LEMMA TilesInvNext ==
  ASSUME ConnectionInv', SelectionInv', CacheTypes', GenerationInv',
         tileLoads' \subseteq TileLoads, LoadsInv', CacheInv', EntriesInv'
  PROVE  TilesInv'
  BY DEF TilesInv, TilesTypes, CacheTypes, LoadsInv, TilesSound, CacheInv,
         EntriesInv

(* What a step that leaves the connection alone keeps of the invariant.    *)
LEMMA ConnectionKept ==
  ASSUME TilesInv, UNCHANGED connectionVars
  PROVE  /\ ConnectionInv' /\ GenerationInv'
         /\ UNCHANGED <<client, connected, connectionGen, connectAttemptID>>
         /\ \A load : LoadInv(load) => LoadInv(load)'
  <1>1. UNCHANGED <<client, connected, connectionGen, connectAttemptID>>
    BY DEF connectionVars
  <1>2. ConnectionInv' /\ (AttemptUnderWay' <=> AttemptUnderWay)
    BY ConnectionUnchanged DEF TilesInv
  <1>3. GenerationInv'
    BY <1>1, <1>2 DEF TilesInv, GenerationInv
  <1>4. \A load : LoadInv(load) => LoadInv(load)'
    BY <1>1 DEF LoadInv
  <1>5. QED
    BY <1>1, <1>2, <1>3, <1>4

(* The connection a load is begun over.                                    *)
LEMMA PresentConnection ==
  ASSUME ConnectionInv, connected
  PROVE  /\ currentConnection \in Connections
         /\ currentConnection.generation = connectionGen
  BY DEF ConnectionInv, ConnectionTypes, Connections, currentConnection

(* A load that begins over the present connection.                         *)
LEMMA TileLoadBegun ==
  ASSUME ConnectionInv, connected, NEW f \in Files,
         NEW kind \in TileKinds \cup {"selected", "selectedTags"}
  PROVE  /\ TileLoad(kind, f, currentConnection) \in TileLoads
         /\ LoadInv(TileLoad(kind, f, currentConnection))
  <1> DEFINE c == currentConnection
             l == TileLoad(kind, f, c)
  <1>1. c \in Connections /\ c.generation = connectionGen
    BY PresentConnection
  <1> HIDE DEF c
  <1>2. /\ l.at = "asked" /\ l.kind = kind /\ l.present = TRUE
        /\ l.connection = c
    BY DEF TileLoad
  <1>3. l \in TileLoads
    BY <1>1 DEF TileLoad, TileLoads
  <1>4. LoadInv(l)
    BY <1>1, <1>2 DEF LoadInv
  <1>5. QED
    BY <1>3, <1>4 DEF c

(* Loads that only become more keep every entry.                           *)
LEMMA LoadedByMore ==
  ASSUME tileLoads \subseteq tileLoads', NEW f, NEW kinds, LoadedBy(f, kinds)
  PROVE  LoadedBy(f, kinds)'
  BY DEF LoadedBy

(* A load that is begun is one an entry may rely on.                       *)
LEMMA LoadedByBegun ==
  ASSUME NEW kind, NEW f, NEW c, TileLoad(kind, f, c) \in tileLoads', NEW kinds,
         kind \in kinds
  PROVE  LoadedBy(f, kinds)'
  <1> DEFINE l == TileLoad(kind, f, c)
  <1>1. /\ l.at = "asked" /\ l.kind = kind /\ l.file = f /\ l.present
    BY DEF TileLoad
  <1>2. QED
    BY <1>1 DEF LoadedBy

(* ensurePreviewResource, ensureTileMetadata and ensureTileTagMetadata:    *)
(* the file is entered and its goroutine started in one.                   *)
LEMMA EnsureSteps ==
  ASSUME TilesInv, NEW f \in Files,
         UNCHANGED <<selectionVars, connectionVars, strayTags>>,
         \/ EnsurePreviewResource(f) \/ EnsureTileMetadata(f)
         \/ EnsureTileTagMetadata(f)
  PROVE  TilesInv'
  <1>1. /\ ConnectionInv /\ SelectionInv /\ CacheTypes
        /\ tileLoads \subseteq TileLoads /\ LoadsInv /\ CacheInv /\ EntriesInv
    BY TilesInvIs
  <1>2. /\ ConnectionInv' /\ GenerationInv'
        /\ UNCHANGED <<connected, connectionGen, connectAttemptID>>
        /\ \A load : LoadInv(load) => LoadInv(load)'
    BY ConnectionKept
  <1>3. SelectionInv'
    BY <1>1, <1>2, SelectionWaits
  <1>4. connected /\ UNCHANGED <<thumbnailCache, tileMetadataCache>>
    BY DEF EnsurePreviewResource, EnsureTileMetadata, EnsureTileTagMetadata,
           Online
  <1>5. PICK c : c = currentConnection
    OBVIOUS
  <1>6. \E kind \in TileKinds :
          tileLoads' = tileLoads \cup {TileLoad(kind, f, c)}
    BY <1>5 DEF EnsurePreviewResource, EnsureTileMetadata,
                EnsureTileTagMetadata, StartTileLoad, TileKinds
  <1>7. tileLoads' \subseteq TileLoads /\ LoadsInv'
    BY <1>1, <1>2, <1>4, <1>5, <1>6, TileLoadBegun DEF LoadsInv
  <1>8. EntriesInv'
    <2>1. \A x, kinds : LoadedBy(x, kinds) => LoadedBy(x, kinds)'
      BY <1>6, LoadedByMore
    <2>2. CASE EnsurePreviewResource(f)
      <3>1. /\ thumbnailLoads' = thumbnailLoads \cup {f}
            /\ TileLoad("thumbnail", f, c) \in tileLoads'
            /\ UNCHANGED <<tileMetadataLoads, tileMetadataTagLoads>>
        BY <2>2, <1>5 DEF EnsurePreviewResource, StartTileLoad
      <3>2. LoadedBy(f, {"thumbnail"})'
        BY <3>1, LoadedByBegun
      <3>3. QED
        BY <1>1, <1>2, <2>1, <3>1, <3>2 DEF EntriesInv
    <2>3. CASE EnsureTileMetadata(f)
      <3>1. /\ tileMetadataLoads' = tileMetadataLoads \cup {f}
            /\ TileLoad("tile", f, c) \in tileLoads'
            /\ UNCHANGED <<thumbnailLoads, tileMetadataTagLoads>>
        BY <2>3, <1>5 DEF EnsureTileMetadata, StartTileLoad
      <3>2. LoadedBy(f, {"tile"})'
        BY <3>1, LoadedByBegun
      <3>3. QED
        BY <1>1, <1>2, <2>1, <3>1, <3>2 DEF EntriesInv
    <2>4. CASE EnsureTileTagMetadata(f)
      <3>1. /\ tileMetadataTagLoads' = tileMetadataTagLoads \cup {f}
            /\ TileLoad("tags", f, c) \in tileLoads'
            /\ UNCHANGED <<thumbnailLoads, tileMetadataLoads>>
        BY <2>4, <1>5 DEF EnsureTileTagMetadata, StartTileLoad
      <3>2. LoadedBy(f, {"tags", "selectedTags"})'
        BY <3>1, LoadedByBegun
      <3>3. QED
        BY <1>1, <1>2, <2>1, <3>1, <3>2 DEF EntriesInv
    <2>5. QED
      BY <2>2, <2>3, <2>4
  <1>9. CacheTypes' /\ CacheInv'
    BY <1>1, <1>2, <1>4 DEF CacheTypes, CacheInv
  <1>10. QED
    BY <1>2, <1>3, <1>7, <1>8, <1>9, TilesInvNext

(* A goroutine ends, and its entry is taken out with it if it has one.     *)
LEMMA EntriesOutlived ==
  ASSUME EntriesInv, UNCHANGED <<connectionGen, connectAttemptID>>,
         NEW gone, tileLoads \ {gone} \subseteq tileLoads',
         thumbnailLoads' \subseteq thumbnailLoads,
         tileMetadataLoads' \subseteq tileMetadataLoads,
         tileMetadataTagLoads' \subseteq tileMetadataTagLoads,
         gone.at \in {"asked", "answered"} /\ gone.present =>
           /\ gone.kind = "thumbnail" => gone.file \notin thumbnailLoads'
           /\ gone.kind = "tile" => gone.file \notin tileMetadataLoads'
           /\ gone.kind \in {"tags", "selectedTags"} =>
                gone.file \notin tileMetadataTagLoads'
  PROVE  EntriesInv'
  <1> DEFINE Relied(f, kinds) ==
        /\ gone.at \in {"asked", "answered"} /\ gone.present
        /\ gone.kind \in kinds /\ gone.file = f
  <1>1. ASSUME NEW f, NEW kinds, LoadedBy(f, kinds), ~Relied(f, kinds)
        PROVE  LoadedBy(f, kinds)'
    BY <1>1 DEF LoadedBy
  <1>2. \A f \in thumbnailLoads' : ~Relied(f, {"thumbnail"})
    OBVIOUS
  <1>3. \A f \in tileMetadataLoads' : ~Relied(f, {"tile"})
    OBVIOUS
  <1>4. \A f \in tileMetadataTagLoads' : ~Relied(f, {"tags", "selectedTags"})
    OBVIOUS
  <1> HIDE DEF Relied
  <1>5. QED
    BY <1>1, <1>2, <1>3, <1>4 DEF EntriesInv

(* clearThumbnailLoad, clearTileMetadataLoad and the deferred delete of    *)
(* ensureTileTagMetadata take out no other entry than the load's own.      *)
LEMMA EntryCleared ==
  ASSUME NEW load, ClearTileLoad(load)
  PROVE  /\ thumbnailLoads' \subseteq thumbnailLoads
         /\ tileMetadataLoads' \subseteq tileMetadataLoads
         /\ tileMetadataTagLoads' \subseteq tileMetadataTagLoads
         /\ load.present =>
              /\ load.kind = "thumbnail" => load.file \notin thumbnailLoads'
              /\ load.kind = "tile" => load.file \notin tileMetadataLoads'
              /\ load.kind = "tags" => load.file \notin tileMetadataTagLoads'
  BY DEF ClearTileLoad

(* One file's entry of the metadata cache is written anew; tags of another *)
(* connection make it a stray one.                                         *)
LEMMA MetadataWritten ==
  ASSUME CacheTypes, CacheInv, NEW f \in Files, NEW v,
         v \in [cached : BOOLEAN, basic : Nat, tags : Nat],
         v.basic \in {0, connectionGen}, UNCHANGED connectionGen,
         v.tags \in {0, connectionGen} \/ f \in strayTags',
         strayTags \ {f} \subseteq strayTags', strayTags' \subseteq Files,
         tileMetadataCache' = [tileMetadataCache EXCEPT ![f] = v],
         UNCHANGED thumbnailCache
  PROVE  CacheTypes' /\ CacheInv'
  <1> DEFINE Metadata == [cached : BOOLEAN, basic : Nat, tags : Nat]
  <1>1. tileMetadataCache' \in [Files -> Metadata]
    BY DEF CacheTypes
  <1>2. \A g \in Files : tileMetadataCache'[g].basic \in {0, connectionGen}
    BY DEF CacheTypes, CacheInv
  <1>3. ASSUME NEW g \in Files
        PROVE  tileMetadataCache'[g].tags \in {0, connectionGen}
                 \/ g \in strayTags'
    BY DEF CacheTypes, CacheInv
  <1>4. QED
    BY <1>1, <1>2, <1>3 DEF CacheTypes, CacheInv

(* Storing what a load of the present generation brought.                  *)
LEMMA StoreKeeps ==
  ASSUME CacheTypes, CacheInv, NEW load \in TileLoads,
         load.connection.generation = connectionGen, UNCHANGED connectionGen,
         Store(load)
  PROVE  CacheTypes' /\ CacheInv'
  <1> DEFINE f == load.file
             Metadata == [cached : BOOLEAN, basic : Nat, tags : Nat]
  <1>1. f \in Files /\ connectionGen \in Nat
    BY DEF TileLoads, Connections
  <1>2. tileMetadataCache[f] \in Metadata
    BY <1>1 DEF CacheTypes
  <1>3. CASE load.kind = "thumbnail"
    <2>1. /\ thumbnailCache' = [thumbnailCache EXCEPT ![f] = connectionGen]
          /\ UNCHANGED <<tileMetadataCache, strayTags>>
      BY <1>3 DEF Store
    <2>2. QED
      BY <1>1, <2>1 DEF CacheTypes, CacheInv
  <1>4. CASE load.kind = "tile"
    <2> DEFINE b == IF tileMetadataCache[f].basic = 0 THEN connectionGen
                    ELSE tileMetadataCache[f].basic
               v == WithBasic(f, b)
    <2>1. b \in Nat /\ b \in {0, connectionGen}
      BY <1>1, <1>2 DEF CacheInv
    <2>2. /\ tileMetadataCache' = [tileMetadataCache EXCEPT ![f] = v]
          /\ UNCHANGED <<thumbnailCache, strayTags>>
      BY <1>1, <1>4 DEF Store, CacheTypes
    <2> HIDE DEF b
    <2>3. v \in Metadata /\ v.basic = b /\ v.tags = tileMetadataCache[f].tags
      BY <1>2, <2>1 DEF WithBasic
    <2>4. v.tags \in {0, connectionGen} \/ f \in strayTags'
      BY <1>1, <2>2, <2>3 DEF CacheInv
    <2>5. strayTags' \subseteq Files
      BY <2>2 DEF CacheTypes
    <2> HIDE DEF v, f
    <2>6. QED
      BY <1>1, <2>1, <2>2, <2>3, <2>4, <2>5, MetadataWritten
  <1>5. CASE load.kind \notin {"thumbnail", "tile"}
    <2>1. PICK tags \in {0, connectionGen} :
            tileMetadataCache' =
              [tileMetadataCache EXCEPT ![f] = WithTags(f, tags)]
      BY <1>5 DEF Store
    <2> DEFINE v == WithTags(f, tags)
    <2>2. /\ tileMetadataCache' = [tileMetadataCache EXCEPT ![f] = v]
          /\ UNCHANGED thumbnailCache /\ strayTags' = strayTags \ {f}
      BY <1>5, <2>1 DEF Store
    <2>3. /\ v \in Metadata /\ v.basic = tileMetadataCache[f].basic
          /\ v.tags = tags
      BY <1>1, <1>2 DEF WithTags
    <2>4. v.basic \in {0, connectionGen} /\ strayTags' \subseteq Files
      BY <1>1, <2>2, <2>3 DEF CacheInv, CacheTypes
    <2> HIDE DEF v, f
    <2>5. QED
      BY <1>1, <2>1, <2>2, <2>3, <2>4, MetadataWritten
  <1>6. QED
    BY <1>3, <1>4, <1>5

(* The goroutine of a tile ends.                                           *)
LEMMA TileLoadEnds ==
  ASSUME TilesInv, UNCHANGED connectionVars, NEW load \in tileLoads,
         load.kind \in TileKinds, EndTileLoad(load), ClearTileLoad(load)
  PROVE  tileLoads' \subseteq TileLoads /\ LoadsInv' /\ EntriesInv'
  <1>1. /\ tileLoads \subseteq TileLoads /\ LoadsInv /\ EntriesInv
    BY TilesInvIs
  <1>2. /\ UNCHANGED <<connectionGen, connectAttemptID>>
        /\ \A l : LoadInv(l) => LoadInv(l)'
    BY ConnectionKept
  <1>3. tileLoads' = tileLoads \ {load}
    BY DEF EndTileLoad
  <1>4. tileLoads' \subseteq TileLoads /\ LoadsInv'
    BY <1>1, <1>2, <1>3 DEF LoadsInv
  <1>5. EntriesInv'
    <2>1. load.kind \in {"thumbnail", "tile", "tags"}
      BY DEF TileKinds
    <2>2. QED
      BY <1>1, <1>2, <1>3, <2>1, EntryCleared, EntriesOutlived
  <1>6. QED
    BY <1>4, <1>5

(* A tile's answer: the goroutine goes on if the connection is the same,   *)
(* else it ends; so it does when the request fails.                        *)
LEMMA TileAnswers ==
  ASSUME TilesInv, UNCHANGED <<selectionVars, connectionVars, strayTags>>,
         NEW load \in tileLoads, TileAnswered(load) \/ TileFailed(load)
  PROVE  TilesInv'
  <1>1. /\ ConnectionInv /\ SelectionInv /\ CacheTypes
        /\ tileLoads \subseteq TileLoads /\ LoadsInv /\ CacheInv /\ EntriesInv
    BY TilesInvIs
  <1>2. /\ ConnectionInv' /\ GenerationInv'
        /\ UNCHANGED <<connected, connectionGen, connectAttemptID>>
        /\ \A l : LoadInv(l) => LoadInv(l)'
    BY ConnectionKept
  <1>3. SelectionInv'
    BY <1>1, <1>2, SelectionWaits
  <1>4. /\ load.at = "asked" /\ load.kind \in TileKinds
        /\ UNCHANGED <<thumbnailCache, tileMetadataCache>>
    BY DEF TileAnswered, TileFailed, TileKinds
  <1>5. tileLoads' \subseteq TileLoads /\ LoadsInv' /\ EntriesInv'
    <2>1. CASE EndTileLoad(load) /\ ClearTileLoad(load)
      BY <1>4, <2>1, TileLoadEnds
    <2>2. CASE /\ MoveTileLoad(load, "answered")
               /\ UNCHANGED <<thumbnailLoads, tileMetadataLoads,
                              tileMetadataTagLoads>>
      <3> DEFINE l == [load EXCEPT !.at = "answered"]
      <3>1. load \in TileLoads /\ LoadInv(load)
        BY <1>1 DEF LoadsInv
      <3>2. /\ l \in TileLoads /\ l.at = "answered" /\ l.kind = load.kind
            /\ l.file = load.file /\ l.connection = load.connection
        BY <3>1 DEF TileLoads
      <3>3. l.present = load.present
        BY <3>1 DEF TileLoads
      <3>4. tileLoads' = (tileLoads \ {load}) \cup {l}
        BY <2>2 DEF MoveTileLoad
      <3> HIDE DEF l
      <3>5. LoadInv(l)
        BY <1>4, <3>1, <3>2, <3>3 DEF LoadInv
      <3>6. tileLoads' \subseteq TileLoads /\ LoadsInv'
        BY <1>1, <1>2, <3>2, <3>4, <3>5 DEF LoadsInv
      <3>7. \A f, kinds : LoadedBy(f, kinds) => LoadedBy(f, kinds)'
        BY <3>2, <3>3, <3>4 DEF LoadedBy
      <3>8. EntriesInv'
        BY <1>1, <1>2, <2>2, <3>7 DEF EntriesInv
      <3>9. QED
        BY <3>6, <3>8
    <2>3. QED
      BY <2>1, <2>2 DEF TileAnswered, TileFailed
  <1>6. CacheTypes' /\ CacheInv'
    BY <1>1, <1>2, <1>4 DEF CacheTypes, CacheInv
  <1>7. QED
    BY <1>2, <1>3, <1>5, <1>6, TilesInvNext

(* A tile's answer is stored under the lock, if its generation is still    *)
(* the present one.                                                        *)
LEMMA TileStores ==
  ASSUME TilesInv, UNCHANGED <<selectionVars, connectionVars>>,
         NEW load \in tileLoads, TileStored(load)
  PROVE  TilesInv'
  <1>1. /\ ConnectionInv /\ SelectionInv /\ CacheTypes
        /\ tileLoads \subseteq TileLoads /\ LoadsInv /\ CacheInv /\ EntriesInv
    BY TilesInvIs
  <1>2. /\ ConnectionInv' /\ GenerationInv'
        /\ UNCHANGED <<connected, connectionGen, connectAttemptID>>
    BY ConnectionKept
  <1>3. SelectionInv'
    BY <1>1, <1>2, SelectionWaits
  <1>4. /\ load.at = "answered" /\ EndTileLoad(load) /\ ClearTileLoad(load)
        /\ IF load.present THEN Store(load)
           ELSE UNCHANGED <<thumbnailCache, tileMetadataCache, strayTags>>
    BY DEF TileStored
  <1>5. load \in TileLoads /\ LoadInv(load)
    BY <1>1 DEF LoadsInv
  <1>6. load.kind \in TileKinds
    BY <1>4, <1>5 DEF LoadInv
  <1>7. tileLoads' \subseteq TileLoads /\ LoadsInv' /\ EntriesInv'
    BY <1>4, <1>6, TileLoadEnds
  <1>8. CacheTypes' /\ CacheInv'
    <2>1. CASE load.present
      <3>1. load.connection.generation = connectionGen /\ Store(load)
        BY <1>4, <1>5, <1>6, <2>1 DEF LoadInv
      <3>2. QED
        BY <1>1, <1>2, <1>5, <3>1, StoreKeeps
    <2>2. CASE ~load.present
      BY <1>1, <1>2, <1>4, <2>2 DEF CacheTypes, CacheInv
    <2>3. QED
      BY <2>1, <2>2
  <1>9. QED
    BY <1>2, <1>3, <1>7, <1>8, TilesInvNext

(* The goroutine of the selected file goes on to its tags, and the closure *)
(* with its metadata waits for the UI thread; or its request fails.        *)
LEMMA SelectedAnswers ==
  ASSUME TilesInv, UNCHANGED <<selectionVars, connectionVars, strayTags>>,
         NEW load \in tileLoads, SelectedAnswered(load) \/ SelectedFailed(load)
  PROVE  TilesInv'
  <1>1. /\ ConnectionInv /\ SelectionInv /\ CacheTypes
        /\ tileLoads \subseteq TileLoads /\ LoadsInv /\ CacheInv /\ EntriesInv
    BY TilesInvIs
  <1>2. /\ ConnectionInv' /\ GenerationInv'
        /\ UNCHANGED <<connected, connectionGen, connectAttemptID>>
        /\ \A l : LoadInv(l) => LoadInv(l)'
    BY ConnectionKept
  <1>3. SelectionInv'
    BY <1>1, <1>2, SelectionWaits
  <1> DEFINE closure == [load EXCEPT !.at = "closure"]
             goesOn == [load EXCEPT !.at = "tags"]
  <1>4. /\ load.kind = "selected"
        /\ tileLoads \ {load} \subseteq tileLoads'
        /\ tileLoads' \subseteq (tileLoads \ {load}) \cup {closure, goesOn}
        /\ UNCHANGED <<thumbnailCache, tileMetadataCache, thumbnailLoads,
                       tileMetadataLoads, tileMetadataTagLoads>>
    BY DEF SelectedAnswered, SelectedFailed, EndTileLoad
  <1>5. load \in TileLoads /\ LoadInv(load)
    BY <1>1 DEF LoadsInv
  <1>6. \A l \in {closure, goesOn} :
          /\ l \in TileLoads /\ l.at \in {"closure", "tags"}
          /\ l.kind = load.kind
    BY <1>5 DEF TileLoads
  <1>7. \A l \in {closure, goesOn} : l.present = load.present
    BY <1>5 DEF TileLoads
  <1> HIDE DEF closure, goesOn
  <1>8. \A l \in {closure, goesOn} : LoadInv(l)
    BY <1>4, <1>5, <1>6, <1>7 DEF LoadInv, TileKinds
  <1>9. tileLoads' \subseteq TileLoads /\ LoadsInv'
    BY <1>1, <1>2, <1>4, <1>6, <1>8 DEF LoadsInv
  <1>10. EntriesInv'
    BY <1>1, <1>2, <1>4, EntriesOutlived
  <1>11. CacheTypes' /\ CacheInv'
    BY <1>1, <1>2, <1>4 DEF CacheTypes, CacheInv
  <1>12. QED
    BY <1>2, <1>3, <1>9, <1>10, <1>11, TilesInvNext

(* The closure on the UI thread puts the metadata of the selected file     *)
(* into the cache, if file and connection are still the same.              *)
LEMMA SelectedShows ==
  ASSUME TilesInv, UNCHANGED <<selectionVars, connectionVars, strayTags>>,
         NEW load \in tileLoads, SelectedShown(load)
  PROVE  TilesInv'
  <1>1. /\ ConnectionInv /\ SelectionInv /\ CacheTypes
        /\ tileLoads \subseteq TileLoads /\ LoadsInv /\ CacheInv /\ EntriesInv
    BY TilesInvIs
  <1>2. /\ ConnectionInv' /\ GenerationInv'
        /\ UNCHANGED <<connected, connectionGen, connectAttemptID>>
        /\ \A l : LoadInv(l) => LoadInv(l)'
    BY ConnectionKept
  <1>3. SelectionInv'
    BY <1>1, <1>2, SelectionWaits
  <1> DEFINE f == load.file
             v == WithBasic(f, load.connection.generation)
  <1>4. /\ load.at = "closure" /\ tileLoads' = tileLoads \ {load}
        /\ tileMetadataCache' =
             IF isCurrentOperation(load.connection) /\ selectedFileID = f
             THEN [tileMetadataCache EXCEPT ![f] = v]
             ELSE tileMetadataCache
        /\ UNCHANGED <<thumbnailCache, thumbnailLoads, tileMetadataLoads,
                       tileMetadataTagLoads>>
    BY DEF SelectedShown, EndTileLoad
  <1>5. tileLoads' \subseteq TileLoads /\ LoadsInv'
    BY <1>1, <1>2, <1>4 DEF LoadsInv
  <1>6. EntriesInv'
    BY <1>1, <1>2, <1>4, EntriesOutlived
  <1>7. CacheTypes' /\ CacheInv'
    <2>1. CASE UNCHANGED tileMetadataCache
      BY <1>1, <1>2, <1>4, <2>1 DEF CacheTypes, CacheInv
    <2>2. CASE /\ isCurrentOperation(load.connection)
               /\ tileMetadataCache' = [tileMetadataCache EXCEPT ![f] = v]
      <3>1. load \in TileLoads
        BY <1>1
      <3>2. f \in Files /\ load.connection.generation = connectionGen
        BY <2>2, <3>1 DEF TileLoads, isCurrentOperation
      <3>3. connectionGen \in Nat
        BY <1>1 DEF ConnectionInv, ConnectionTypes
      <3>4. /\ v \in [cached : BOOLEAN, basic : Nat, tags : Nat]
            /\ v.basic = connectionGen /\ v.tags = tileMetadataCache[f].tags
        BY <1>1, <3>2, <3>3 DEF CacheTypes, WithBasic
      <3>5. /\ v.tags \in {0, connectionGen} \/ f \in strayTags
            /\ strayTags \subseteq Files
        BY <1>1, <3>2, <3>4 DEF CacheInv, CacheTypes
      <3> HIDE DEF v, f
      <3>6. QED
        BY <1>1, <1>2, <1>4, <2>2, <3>2, <3>4, <3>5, MetadataWritten
    <2>3. QED
      BY <1>4, <2>1, <2>2
  <1>8. QED
    BY <1>2, <1>3, <1>5, <1>6, <1>7, TilesInvNext

(* Having its metadata, the goroutine of the selected file loads the tags, *)
(* unless they are being loaded.                                           *)
LEMMA SelectedGoesOn ==
  ASSUME TilesInv, UNCHANGED <<selectionVars, connectionVars, strayTags>>,
         NEW load \in tileLoads, SelectedLoadsTags(load)
  PROVE  TilesInv'
  <1>1. /\ ConnectionInv /\ SelectionInv /\ CacheTypes
        /\ tileLoads \subseteq TileLoads /\ LoadsInv /\ CacheInv /\ EntriesInv
    BY TilesInvIs
  <1>2. /\ ConnectionInv' /\ GenerationInv'
        /\ UNCHANGED <<connected, connectionGen, connectAttemptID>>
        /\ \A l : LoadInv(l) => LoadInv(l)'
    BY ConnectionKept
  <1>3. SelectionInv'
    BY <1>1, <1>2, SelectionWaits
  <1> DEFINE f == load.file
             l == TileLoad("selectedTags", f, load.connection)
  <1>4. /\ load.at = "tags"
        /\ \/ /\ tileLoads' = tileLoads \ {load}
              /\ UNCHANGED tileMetadataTagLoads
           \/ /\ tileLoads' = (tileLoads \ {load}) \cup {l}
              /\ tileMetadataTagLoads' = tileMetadataTagLoads \cup {f}
        /\ UNCHANGED <<thumbnailCache, thumbnailLoads, tileMetadataCache,
                       tileMetadataLoads>>
    BY DEF SelectedLoadsTags, EndTileLoad
  <1>5. load \in TileLoads
    BY <1>1
  <1>6. /\ l \in TileLoads /\ l.at = "asked" /\ l.kind = "selectedTags"
        /\ l.present = TRUE
    BY <1>5 DEF TileLoad, TileLoads
  <1>7. l.file = f
    BY DEF TileLoad
  <1> HIDE DEF l
  <1>8. LoadInv(l)
    BY <1>6 DEF LoadInv, TileKinds
  <1>9. tileLoads' \subseteq TileLoads /\ LoadsInv'
    BY <1>1, <1>2, <1>4, <1>6, <1>8 DEF LoadsInv
  <1>10. EntriesInv'
    <2>1. \A x, kinds : LoadedBy(x, kinds) => LoadedBy(x, kinds)'
      BY <1>4 DEF LoadedBy
    <2>2. ASSUME l \in tileLoads' PROVE LoadedBy(f, {"tags", "selectedTags"})'
      BY <1>6, <1>7, <2>2 DEF LoadedBy
    <2>3. \/ tileMetadataTagLoads' = tileMetadataTagLoads
          \/ /\ tileMetadataTagLoads' = tileMetadataTagLoads \cup {f}
             /\ l \in tileLoads'
      BY <1>4
    <2>4. QED
      BY <1>1, <1>2, <1>4, <2>1, <2>2, <2>3 DEF EntriesInv
  <1>11. CacheTypes' /\ CacheInv'
    BY <1>1, <1>2, <1>4 DEF CacheTypes, CacheInv
  <1>12. QED
    BY <1>2, <1>3, <1>9, <1>10, <1>11, TilesInvNext

(* loadSelectedTags ends, and stores the tags if it got any.               *)
LEMMA SelectedTagsEnds ==
  ASSUME TilesInv, UNCHANGED <<selectionVars, connectionVars>>,
         NEW load \in tileLoads, SelectedTagsEnd(load)
  PROVE  TilesInv'
  <1>1. /\ ConnectionInv /\ SelectionInv /\ CacheTypes
        /\ tileLoads \subseteq TileLoads /\ LoadsInv /\ CacheInv /\ EntriesInv
    BY TilesInvIs
  <1>2. /\ ConnectionInv' /\ GenerationInv'
        /\ UNCHANGED <<connected, connectionGen, connectAttemptID>>
        /\ \A l : LoadInv(l) => LoadInv(l)'
    BY ConnectionKept
  <1>3. SelectionInv'
    BY <1>1, <1>2, SelectionWaits
  <1> DEFINE f == load.file
             generation == load.connection.generation
  <1>4. /\ load.kind = "selectedTags" /\ tileLoads' = tileLoads \ {load}
        /\ tileMetadataTagLoads' = tileMetadataTagLoads \ {f}
        /\ \/ UNCHANGED <<tileMetadataCache, strayTags>>
           \/ /\ \E tags \in {0, generation} :
                   tileMetadataCache' =
                     [tileMetadataCache EXCEPT ![f] = WithTags(f, tags)]
              /\ strayTags' = IF generation = connectionGen
                              THEN strayTags \ {f} ELSE strayTags \cup {f}
        /\ UNCHANGED <<thumbnailCache, thumbnailLoads, tileMetadataLoads>>
    BY DEF SelectedTagsEnd, EndTileLoad
  <1>5. tileLoads' \subseteq TileLoads /\ LoadsInv'
    BY <1>1, <1>2, <1>4 DEF LoadsInv
  <1>6. EntriesInv'
    BY <1>1, <1>2, <1>4, EntriesOutlived
  <1>7. CacheTypes' /\ CacheInv'
    <2>1. CASE UNCHANGED <<tileMetadataCache, strayTags>>
      BY <1>1, <1>2, <1>4, <2>1 DEF CacheTypes, CacheInv
    <2>2. ASSUME NEW tags \in {0, generation},
                 tileMetadataCache' =
                   [tileMetadataCache EXCEPT ![f] = WithTags(f, tags)],
                 strayTags' = IF generation = connectionGen
                              THEN strayTags \ {f} ELSE strayTags \cup {f}
          PROVE  CacheTypes' /\ CacheInv'
      <3>1. f \in Files /\ generation \in Nat
        BY <1>1 DEF TileLoads, Connections
      <3> DEFINE v == WithTags(f, tags)
      <3>2. /\ v \in [cached : BOOLEAN, basic : Nat, tags : Nat]
            /\ v.basic = tileMetadataCache[f].basic /\ v.tags = tags
        BY <1>1, <3>1 DEF CacheTypes, WithTags
      <3>3. v.basic \in {0, connectionGen}
        BY <1>1, <3>1, <3>2 DEF CacheInv
      <3>4. /\ strayTags \ {f} \subseteq strayTags'
            /\ strayTags' \subseteq Files
            /\ v.tags \in {0, connectionGen} \/ f \in strayTags'
        BY <1>1, <2>2, <3>1, <3>2 DEF CacheTypes
      <3>5. tileMetadataCache' = [tileMetadataCache EXCEPT ![f] = v]
        BY <2>2
      <3> HIDE DEF v, f, generation
      <3>6. QED
        BY <1>1, <1>2, <1>4, <3>1, <3>2, <3>3, <3>4, <3>5, MetadataWritten
    <2>3. QED
      BY <1>4, <2>1, <2>2
  <1>8. QED
    BY <1>2, <1>3, <1>5, <1>6, <1>7, TilesInvNext

(* loadSelectedMetadata: what the cache lacks of the file is being loaded. *)
LEMMA SelectedLoadBegins ==
  ASSUME TilesInv, UNCHANGED connectionVars, connected, NEW f \in Files,
         loadSelectedMetadata(f),
         UNCHANGED <<thumbnailLoads, tileMetadataLoads>>
  PROVE  tileLoads' \subseteq TileLoads /\ LoadsInv' /\ EntriesInv'
  <1>1. /\ ConnectionInv /\ tileLoads \subseteq TileLoads
        /\ LoadsInv /\ EntriesInv
    BY TilesInvIs
  <1>2. /\ UNCHANGED <<connectionGen, connectAttemptID>>
        /\ \A l : LoadInv(l) => LoadInv(l)'
    BY ConnectionKept
  <1>3. PICK c : c = currentConnection
    OBVIOUS
  <1>4. \/ UNCHANGED <<tileLoads, tileMetadataTagLoads>>
        \/ /\ tileLoads' = tileLoads \cup {TileLoad("selected", f, c)}
           /\ UNCHANGED tileMetadataTagLoads
        \/ /\ tileLoads' = tileLoads \cup {TileLoad("selectedTags", f, c)}
           /\ tileMetadataTagLoads' = tileMetadataTagLoads \cup {f}
    BY <1>3 DEF loadSelectedMetadata, StartTileLoad
  <1>5. tileLoads' \subseteq TileLoads /\ LoadsInv'
    BY <1>1, <1>2, <1>3, <1>4, TileLoadBegun DEF LoadsInv
  <1>6. EntriesInv'
    <2>1. \A x, kinds : LoadedBy(x, kinds) => LoadedBy(x, kinds)'
      BY <1>4, LoadedByMore
    <2>2. ASSUME TileLoad("selectedTags", f, c) \in tileLoads'
          PROVE  LoadedBy(f, {"tags", "selectedTags"})'
      BY <2>2, LoadedByBegun
    <2>3. \/ tileMetadataTagLoads' = tileMetadataTagLoads
          \/ /\ tileMetadataTagLoads' = tileMetadataTagLoads \cup {f}
             /\ TileLoad("selectedTags", f, c) \in tileLoads'
      BY <1>4
    <2>4. QED
      BY <1>1, <1>2, <2>1, <2>2, <2>3 DEF EntriesInv
  <1>7. QED
    BY <1>5, <1>6

(* A new generation: no load of the tiles is of the present one any more.  *)
LEMMA GenerationsOld ==
  ASSUME tileLoads \subseteq TileLoads, LoadsInv, NEW load \in OldGeneration
  PROVE  load \in TileLoads /\ LoadInv(load)'
  <1>1. PICK l \in tileLoads :
          load = IF l.kind \in TileKinds THEN [l EXCEPT !.present = FALSE]
                 ELSE l
    BY DEF OldGeneration
  <1>2. l \in TileLoads /\ LoadInv(l)
    BY DEF LoadsInv
  <1>3. CASE l.kind \in TileKinds
    <2>1. load = [l EXCEPT !.present = FALSE]
      BY <1>1, <1>3
    <2>2. load \in TileLoads /\ load.at = l.at /\ load.kind = l.kind
      BY <1>2, <2>1 DEF TileLoads
    <2>3. ~load.present
      BY <1>2, <2>1 DEF TileLoads
    <2>4. QED
      BY <1>2, <1>3, <2>2, <2>3 DEF LoadInv
  <1>4. CASE l.kind \notin TileKinds
    BY <1>1, <1>2, <1>4 DEF LoadInv
  <1>5. QED
    BY <1>3, <1>4

(* applyRecentItems empties the caches and starts a new generation; the    *)
(* only load that begins is of the file that is then selected.             *)
LEMMA TilesReset ==
  ASSUME TilesInv, ResetTiles,
         selectedFileID' # NoFile =>
           /\ connected /\ selectedFileID' \in Files
           /\ UNCHANGED <<connectionGen>>
  PROVE  /\ CacheTypes' /\ tileLoads' \subseteq TileLoads
         /\ LoadsInv' /\ CacheInv' /\ EntriesInv'
  <1>1. /\ ConnectionInv /\ tileLoads \subseteq TileLoads /\ LoadsInv
    BY TilesInvIs
  <1>2. PICK l : l = TileLoad("selected", selectedFileID', currentConnection)
    OBVIOUS
  <1>3. /\ thumbnailCache' = [f \in Files |-> 0]
        /\ tileMetadataCache' = [f \in Files |-> NotCached]
        /\ thumbnailLoads' = {} /\ tileMetadataLoads' = {}
        /\ tileMetadataTagLoads' = {} /\ strayTags' = {}
        /\ \/ tileLoads' = OldGeneration
           \/ selectedFileID' # NoFile /\ tileLoads' = OldGeneration \cup {l}
    BY <1>2 DEF ResetTiles
  <1>4. EntriesInv'
    BY <1>3 DEF EntriesInv
  <1>5. CacheTypes' /\ CacheInv'
    BY <1>3 DEF CacheTypes, CacheInv, NotCached
  <1>6. ASSUME selectedFileID' # NoFile
        PROVE  l \in TileLoads /\ LoadInv(l)'
    <2>1. PICK f \in Files : f = selectedFileID'
      BY <1>6
    <2>2. l \in TileLoads /\ LoadInv(l)
      BY <1>1, <1>6, <1>2, <2>1, TileLoadBegun
    <2>3. QED
      BY <1>6, <2>2 DEF LoadInv
  <1>7. tileLoads' \subseteq TileLoads /\ LoadsInv'
    BY <1>1, <1>3, <1>6, GenerationsOld DEF LoadsInv
  <1>8. QED
    BY <1>4, <1>5, <1>7

(* The user selects a file.                                                *)
LEMMA TilesSelect ==
  ASSUME TilesInv, NEW f \in Files, TilesSelectFile(f)
  PROVE  TilesInv'
  <1>1. /\ ConnectionInv /\ SelectionInv /\ CacheTypes /\ CacheInv
    BY TilesInvIs
  <1>2. /\ PickFile(f) /\ loadSelectedMetadata(f) /\ UNCHANGED connectionVars
        /\ UNCHANGED <<thumbnailCache, thumbnailLoads, tileMetadataCache,
                       tileMetadataLoads, strayTags>>
    BY DEF TilesSelectFile
  <1>3. /\ ConnectionInv' /\ GenerationInv'
        /\ UNCHANGED <<connected, connectionGen>>
    BY <1>2, ConnectionKept
  <1>4. SelectionInv' /\ connected
    BY <1>1, <1>2, <1>3, FilePicked
  <1>5. tileLoads' \subseteq TileLoads /\ LoadsInv' /\ EntriesInv'
    BY <1>2, <1>4, SelectedLoadBegins
  <1>6. CacheTypes' /\ CacheInv'
    BY <1>1, <1>2, <1>3 DEF CacheTypes, CacheInv
  <1>7. QED
    BY <1>3, <1>4, <1>5, <1>6, TilesInvNext

(* Page loads that change no list, and pages that are appended, leave the  *)
(* caches alone.                                                           *)
LEMMA TilesPagesWait ==
  ASSUME TilesInv, TilesPagesOnly
  PROVE  TilesInv'
  <1>1. /\ ConnectionInv /\ SelectionInv /\ CacheTypes /\ LoadsInv
        /\ tileLoads \subseteq TileLoads /\ CacheInv /\ EntriesInv
    BY TilesInvIs
  <1>2. /\ UNCHANGED connectionVars
        /\ UNCHANGED <<thumbnailCache, thumbnailLoads, tileMetadataCache,
                       tileMetadataLoads, tileMetadataTagLoads, tileLoads,
                       strayTags>>
    BY DEF TilesPagesOnly, tileVars
  <1>3. /\ ConnectionInv' /\ GenerationInv'
        /\ UNCHANGED <<connected, connectionGen, connectAttemptID>>
        /\ \A l : LoadInv(l) => LoadInv(l)'
    BY <1>2, ConnectionKept
  <1>4. SelectionInv'
    <2>1. CASE ReloadGallery \/ LoadMore \/ PageFails \/ OlderPageDropped
      BY <1>1, <1>3, <2>1, PageLoadsKept
    <2>2. CASE PageAppended
      BY <1>1, <1>3, <2>2, PageShown
    <2>3. QED
      BY <2>1, <2>2 DEF TilesPagesOnly
  <1>5. \A x, kinds : LoadedBy(x, kinds) => LoadedBy(x, kinds)'
    BY <1>2, LoadedByMore
  <1>6. LoadsInv' /\ EntriesInv' /\ tileLoads' \subseteq TileLoads
    BY <1>1, <1>2, <1>3, <1>5 DEF LoadsInv, EntriesInv
  <1>7. CacheTypes' /\ CacheInv'
    BY <1>1, <1>2, <1>3 DEF CacheTypes, CacheInv
  <1>8. QED
    BY <1>3, <1>4, <1>6, <1>7, TilesInvNext

(* A page of the library replaces the list (applyRecentItems), or a page   *)
(* of search results does (applySearchItems).                              *)
LEMMA TilesPageReplaces ==
  ASSUME TilesInv, TilesPageApplied \/ TilesSearchApplied
  PROVE  TilesInv'
  <1>1. /\ ConnectionInv /\ SelectionInv /\ CacheTypes /\ LoadsInv
        /\ tileLoads \subseteq TileLoads /\ CacheInv /\ EntriesInv
    BY TilesInvIs
  <1>2. PageApplied /\ UNCHANGED connectionVars
    BY DEF TilesPageApplied, TilesSearchApplied
  <1>3. /\ ConnectionInv' /\ GenerationInv'
        /\ UNCHANGED <<connected, connectionGen, connectAttemptID>>
        /\ \A l : LoadInv(l) => LoadInv(l)'
    BY <1>2, ConnectionKept
  <1>4. SelectionInv' /\ connected
    BY <1>1, <1>2, <1>3, PageShown
  <1>5. selectedFileID' # NoFile => selectedFileID' \in Files
    BY <1>4 DEF SelectionInv, SelectionTypes
  <1>6. CASE TilesPageApplied
    <2>1. ResetTiles
      BY <1>6 DEF TilesPageApplied
    <2>2. /\ CacheTypes' /\ tileLoads' \subseteq TileLoads
          /\ LoadsInv' /\ CacheInv' /\ EntriesInv'
      BY <1>3, <1>4, <1>5, <2>1, TilesReset
    <2>3. QED
      BY <1>3, <1>4, <2>2, TilesInvNext
  <1>7. CASE TilesSearchApplied
    <2>1. /\ \/ /\ selectedFileID' # NoFile
                /\ loadSelectedMetadata(selectedFileID')
             \/ UNCHANGED <<tileLoads, tileMetadataTagLoads>>
          /\ UNCHANGED <<thumbnailCache, thumbnailLoads, tileMetadataCache,
                         tileMetadataLoads, strayTags>>
      BY <1>7 DEF TilesSearchApplied
    <2>2. tileLoads' \subseteq TileLoads /\ LoadsInv' /\ EntriesInv'
      <3>1. CASE /\ selectedFileID' # NoFile
                 /\ loadSelectedMetadata(selectedFileID')
        <4>1. PICK f \in Files : f = selectedFileID'
          BY <1>5, <3>1
        <4>2. loadSelectedMetadata(f)
          BY <3>1, <4>1
        <4>3. QED
          BY <1>2, <1>4, <2>1, <4>2, SelectedLoadBegins
      <3>2. CASE UNCHANGED <<tileLoads, tileMetadataTagLoads>>
        <4>1. \A x, kinds : LoadedBy(x, kinds) => LoadedBy(x, kinds)'
          BY <3>2, LoadedByMore
        <4>2. QED
          BY <1>1, <1>3, <2>1, <3>2, <4>1 DEF LoadsInv, EntriesInv
      <3>3. QED
        BY <2>1, <3>1, <3>2
    <2>3. CacheTypes' /\ CacheInv'
      BY <1>1, <1>3, <2>1 DEF CacheTypes, CacheInv
    <2>4. QED
      BY <1>3, <1>4, <2>2, <2>3, TilesInvNext
  <1>8. QED
    BY <1>6, <1>7

(* A connect attempt: resetConnectionAttemptState forgets what is being    *)
(* loaded, but for the tags, which are not looked at until it ends.        *)
LEMMA TilesConnectStep ==
  ASSUME TilesInv, NEW d \in Daemons, TilesConnect(d)
  PROVE  TilesInv'
  <1>1. /\ ConnectionInv /\ SelectionInv /\ CacheTypes /\ LoadsInv
        /\ tileLoads \subseteq TileLoads /\ CacheInv /\ GenerationInv
    BY TilesInvIs
  <1>2. /\ BeginConnectAttempt(d) /\ ForgetPageLoad
        /\ tileLoads' = OldGeneration
        /\ thumbnailLoads' = {} /\ tileMetadataLoads' = {}
        /\ UNCHANGED <<thumbnailCache, tileMetadataCache, strayTags>>
    BY DEF TilesConnect
  <1>3. ConnectionInv'
    BY <1>1, <1>2, AttemptBegins
  <1>4. /\ connectAttemptID' = connectAttemptID + 1
        /\ UNCHANGED connectionGen
    BY <1>2 DEF BeginConnectAttempt
  <1>5. connectionGen' < connectAttemptID'
    BY <1>1, <1>4 DEF GenerationInv, ConnectionInv, ConnectionTypes
  <1>6. GenerationInv'
    BY <1>3, <1>5 DEF GenerationInv, ConnectionInv, ConnectionTypes
  <1>7. SelectionInv'
    BY <1>1, <1>2, PageLoadForgotten
  <1>8. tileLoads' \subseteq TileLoads /\ LoadsInv'
    BY <1>1, <1>2, GenerationsOld DEF LoadsInv
  <1>9. EntriesInv'
    <2>1. connectAttemptID' # connectionGen'
      BY <1>3, <1>5 DEF ConnectionInv, ConnectionTypes
    <2>2. QED
      BY <1>2, <2>1 DEF EntriesInv
  <1>10. CacheTypes' /\ CacheInv'
    BY <1>1, <1>2, <1>4 DEF CacheTypes, CacheInv
  <1>11. QED
    BY <1>3, <1>6, <1>7, <1>8, <1>9, <1>10, TilesInvNext

(* The requests of a connect attempt, and its end without a connection.    *)
LEMMA TilesAttemptStep ==
  ASSUME TilesInv, NEW a \in AttemptIDs, TilesAttempt(a)
  PROVE  TilesInv'
  <1>1. /\ ConnectionInv /\ SelectionInv /\ CacheTypes /\ LoadsInv
        /\ tileLoads \subseteq TileLoads /\ CacheInv /\ EntriesInv
        /\ GenerationInv
    BY TilesInvIs
  <1>2. /\ AttemptRequests(a) \/ RestoreConnectedState(a)
        /\ UNCHANGED selectionVars
        /\ UNCHANGED <<thumbnailCache, thumbnailLoads, tileMetadataCache,
                       tileMetadataLoads, tileMetadataTagLoads, tileLoads,
                       strayTags>>
    BY DEF TilesAttempt, tileVars
  <1>3. /\ ConnectionInv'
        /\ UNCHANGED <<connectionGen, connectAttemptID>>
        /\ AttemptUnderWay' => AttemptUnderWay
    BY <1>1, <1>2, AttemptMoves
  <1>4. GenerationInv'
    BY <1>1, <1>3 DEF GenerationInv
  <1>5. SelectionInv'
    <2>1. connected => connected'
      <3>1. CASE AttemptRequests(a)
        BY <3>1 DEF AttemptRequests, RequestsSucceed, RequestsFail,
                    AttemptOutdated
      <3>2. CASE RestoreConnectedState(a)
        <4>1. attempts[a].phase = "failing" /\ isCurrentConnectAttempt(a)
          BY <3>2 DEF RestoreConnectedState
        <4>2. AttemptUnderWay
          BY <4>1 DEF AttemptUnderWay, NoAttempt
        <4>3. QED
          BY <1>1, <4>2 DEF ConnectionInv
      <3>3. QED
        BY <1>2, <3>1, <3>2
    <2>2. QED
      BY <1>1, <1>2, <2>1, SelectionWaits
  <1>6. \A x, kinds : LoadedBy(x, kinds) => LoadedBy(x, kinds)'
    BY <1>2, LoadedByMore
  <1>7. LoadsInv' /\ EntriesInv' /\ tileLoads' \subseteq TileLoads
    BY <1>1, <1>2, <1>3, <1>6 DEF LoadsInv, LoadInv, EntriesInv
  <1>8. CacheTypes' /\ CacheInv'
    BY <1>1, <1>2, <1>3 DEF CacheTypes, CacheInv
  <1>9. QED
    BY <1>3, <1>4, <1>5, <1>7, <1>8, TilesInvNext

(* installConnection shows the first page of the new connection.           *)
LEMMA TilesConnectedStep ==
  ASSUME TilesInv, NEW a \in AttemptIDs, TilesConnected(a)
  PROVE  TilesInv'
  <1>1. ConnectionInv /\ SelectionInv /\ GenerationInv
    BY TilesInvIs
  <1>2. InstallConnection(a) /\ FirstPage /\ ResetTiles
    BY DEF TilesConnected
  <1>3. /\ connectionGen' = connectionGen + 1 /\ UNCHANGED connectAttemptID
        /\ connected'
    BY <1>2 DEF InstallConnection
  <1>4. ConnectionInv' /\ AttemptUnderWay /\ ~AttemptUnderWay'
    <2>1. PICK new : new = [client |-> attempts[a].daemon,
                            generation |-> connectionGen + 1,
                            attemptID |-> connectAttemptID]
      OBVIOUS
    <2>2. QED
      BY <1>1, <1>2, <2>1, ConnectionInstalled
  <1>5. GenerationInv'
    BY <1>1, <1>3, <1>4 DEF GenerationInv, ConnectionInv, ConnectionTypes
  <1>6. SelectionInv' /\ selectedFileID' = NoFile
    BY <1>1, <1>2, <1>3, FirstPageShown
  <1>7. /\ CacheTypes' /\ tileLoads' \subseteq TileLoads
        /\ LoadsInv' /\ CacheInv' /\ EntriesInv'
    BY <1>2, <1>6, TilesReset
  <1>8. QED
    BY <1>4, <1>5, <1>6, <1>7, TilesInvNext

(* A client that never connected has nothing cached and loads nothing.     *)
LEMMA TilesInitial ==
  ConnectionInit /\ SelectionInit /\ TilesInit => TilesInv
  <1> SUFFICES ASSUME ConnectionInit, SelectionInit, TilesInit
               PROVE  TilesInv
    OBVIOUS
  <1>1. ConnectionInv /\ SelectionInv
    BY ConnectionInitial, SelectionInitial
  <1>2. CacheTypes /\ CacheInv
    BY DEF TilesInit, CacheTypes, CacheInv, NotCached
  <1>3. tileLoads \subseteq TileLoads /\ LoadsInv /\ EntriesInv
    BY DEF TilesInit, LoadsInv, EntriesInv
  <1>4. GenerationInv
    <2>1. connectAttemptID = 0 /\ connectionGen = 0
      BY DEF ConnectionInit
    <2>2. ~AttemptUnderWay
      BY <2>1, ConnectionAssumption
         DEF AttemptUnderWay, isCurrentConnectAttempt, AttemptIDs
    <2>3. QED
      BY <2>1, <2>2 DEF GenerationInv
  <1>5. QED
    BY <1>1, <1>2, <1>3, <1>4, TilesInvIs

(* However thumbnails, metadata, tags, pages and connect attempts overlap: *)
(* the caches hold data of the present connection, but for tags that       *)
(* loadSelectedTags stored for another; and what is entered as being       *)
(* loaded is being loaded, by a goroutine whose generation and connection  *)
(* are as TilesInv says.                                                   *)
THEOREM TilesInvariant == TilesSpec => []TilesInv
  <1>1. ConnectionInit /\ SelectionInit /\ TilesInit => TilesInv
    BY TilesInitial
  <1>2. TilesInv /\ [TilesNext]_<<connectionVars, selectionVars, tileVars>>
          => TilesInv'
    <2> SUFFICES ASSUME TilesInv,
                        [TilesNext]_<<connectionVars, selectionVars, tileVars>>
                 PROVE  TilesInv'
      OBVIOUS
    <2>1. ASSUME NEW f \in Files,
                 UNCHANGED <<selectionVars, connectionVars, strayTags>>,
                 \/ EnsurePreviewResource(f) \/ EnsureTileMetadata(f)
                 \/ EnsureTileTagMetadata(f)
          PROVE  TilesInv'
      BY <2>1, EnsureSteps
    <2>2. ASSUME NEW load \in tileLoads, TileLoadStep(load),
                 UNCHANGED <<selectionVars, connectionVars>>
          PROVE  TilesInv'
      <3>1. CASE (TileAnswered(load) \/ TileFailed(load)) /\ UNCHANGED strayTags
        BY <2>2, <3>1, TileAnswers
      <3>2. CASE TileStored(load)
        BY <2>2, <3>2, TileStores
      <3>3. CASE /\ SelectedAnswered(load) \/ SelectedFailed(load)
                 /\ UNCHANGED strayTags
        BY <2>2, <3>3, SelectedAnswers
      <3>4. CASE (SelectedShown(load)) /\ UNCHANGED strayTags
        BY <2>2, <3>4, SelectedShows
      <3>5. CASE (SelectedLoadsTags(load)) /\ UNCHANGED strayTags
        BY <2>2, <3>5, SelectedGoesOn
      <3>6. CASE SelectedTagsEnd(load)
        BY <2>2, <3>6, SelectedTagsEnds
      <3>7. QED
        BY <2>2, <3>1, <3>2, <3>3, <3>4, <3>5, <3>6 DEF TileLoadStep
    <2>3. ASSUME NEW f \in Files, TilesSelectFile(f)
          PROVE  TilesInv'
      BY <2>3, TilesSelect
    <2>4. CASE TilesPagesOnly
      BY <2>4, TilesPagesWait
    <2>5. CASE TilesPageApplied \/ TilesSearchApplied
      BY <2>5, TilesPageReplaces
    <2>6. ASSUME NEW d \in Daemons, TilesConnect(d)
          PROVE  TilesInv'
      BY <2>6, TilesConnectStep
    <2>7. ASSUME NEW a \in AttemptIDs, TilesAttempt(a)
          PROVE  TilesInv'
      BY <2>7, TilesAttemptStep
    <2>8. ASSUME NEW a \in AttemptIDs, TilesConnected(a)
          PROVE  TilesInv'
      BY <2>8, TilesConnectedStep
    <2>9. CASE UNCHANGED <<connectionVars, selectionVars, tileVars>>
      <3>1. /\ ConnectionInv /\ SelectionInv /\ CacheTypes /\ LoadsInv
            /\ tileLoads \subseteq TileLoads /\ CacheInv /\ EntriesInv
        BY TilesInvIs
      <3>2. /\ UNCHANGED <<connectionVars, selectionVars>>
            /\ UNCHANGED <<thumbnailCache, thumbnailLoads, tileMetadataCache,
                           tileMetadataLoads, tileMetadataTagLoads,
                           tileLoads, strayTags>>
        BY <2>9 DEF tileVars
      <3>3. /\ ConnectionInv' /\ GenerationInv'
            /\ UNCHANGED <<connected, connectionGen, connectAttemptID>>
            /\ \A l : LoadInv(l) => LoadInv(l)'
        BY <3>2, ConnectionKept
      <3>4. SelectionInv'
        BY <3>1, <3>2, <3>3, SelectionWaits
      <3>5. \A x, kinds : LoadedBy(x, kinds) => LoadedBy(x, kinds)'
        BY <3>2, LoadedByMore
      <3>6. LoadsInv' /\ EntriesInv' /\ tileLoads' \subseteq TileLoads
        BY <3>1, <3>2, <3>3, <3>5 DEF LoadsInv, EntriesInv
      <3>7. CacheTypes' /\ CacheInv'
        BY <3>1, <3>2, <3>3 DEF CacheTypes, CacheInv
      <3>8. QED
        BY <3>3, <3>4, <3>6, <3>7, TilesInvNext
    <2>10. QED
      BY <2>1, <2>2, <2>3, <2>4, <2>5, <2>6, <2>7, <2>8, <2>9
         DEF TilesNext, TilesStep
  <1>3. QED
    BY <1>1, <1>2, PTL DEF TilesSpec

(* Answers that come late put nothing of an earlier connection into the    *)
(* caches of the tiles, except the tags loadSelectedTags stores without    *)
(* asking (strayTags); and no tile waits for a load that nobody makes.     *)
THEOREM TilesAreSound == TilesSpec => []TilesSound
  <1>1. TilesInv => TilesSound
    BY DEF TilesInv
  <1>2. QED
    BY <1>1, TilesInvariant, PTL

----------------------------------------------------------------------------
(***************************************************************************)
(* The preview and the watcher.                                            *)
(***************************************************************************)

(* A fetch is what the panel waits for: the current one, over the present  *)
(* connection, unless it ran into its timeout.                             *)
Awaited(x, f) ==
  /\ x.current
  /\ x.at = "expired" \/ (x.file = f /\ isCurrentOperation(x.connection))

PreviewInv ==
  connected /\ preview.shows = "loading" /\ preview.file = selectedFileID =>
    \E x \in previews : Awaited(x, preview.file)

(* A request shows nothing in another window than the one it was made for. *)
WatcherInv ==
  \A x \in watchers :
    x.current => /\ watcher # NoWindow
                 /\ watcher.file = x.file \/ Media[watcher.file] = "other"

PreviewTypes ==
  /\ preview \in [file : Files \cup {NoFile},
                  shows : {"image", "text", "loading"}]
  /\ preview.shows = "loading" => preview.file \in Files
  /\ selectedPreviewCache \subseteq Files /\ previews \subseteq Fetches

WatcherTypes ==
  /\ watcher \in {NoWindow} \cup
       [file : Files, shows : {"image", "text", "loading", "video"}]
  /\ watchers \subseteq Fetches

(* The invariant of the panels, with the types by name.                    *)
LEMMA PanelsInvIs ==
  PanelsInv <=> /\ ConnectionInv /\ SelectionInv /\ PreviewTypes
                /\ WatcherTypes /\ OneCurrent(watchers) /\ NotSelectedAgain
                /\ PreviewInv /\ WatcherInv
  BY DEF PanelsInv, PanelsTypes, PreviewTypes, WatcherTypes, PanelsFollow,
         PreviewInv, WatcherInv, Awaited

(* The next state satisfies the invariant when it satisfies each part.     *)
LEMMA PanelsInvNext ==
  ASSUME ConnectionInv', SelectionInv', PreviewTypes', WatcherTypes',
         OneCurrent(watchers)', NotSelectedAgain', PreviewInv', WatcherInv'
  PROVE  PanelsInv'
  BY DEF PanelsInv, PanelsTypes, PreviewTypes, WatcherTypes, PanelsFollow,
         PreviewInv, WatcherInv, Awaited

(* cancelPreviewRequest and cancelWatcherRequest leave none that counts.   *)
LEMMA FetchesCancelled ==
  ASSUME NEW fetches \in SUBSET Fetches
  PROVE  /\ Cancelled(fetches) \subseteq Fetches
         /\ \A x \in Cancelled(fetches) : ~x.current
  <1>1. ASSUME NEW x \in fetches
        PROVE  /\ [x EXCEPT !.current = FALSE] \in Fetches
               /\ ~[x EXCEPT !.current = FALSE].current
    BY DEF Fetches
  <1>2. QED
    BY <1>1 DEF Cancelled, UnderWay

(* beginPreviewRequest and beginWatcherRequest: the new one alone counts.  *)
LEMMA FetchBegun ==
  ASSUME NEW fetches \in SUBSET Fetches, NEW f \in Files,
         NEW c \in Connections
  PROVE  /\ WithRequest(fetches, f, c) \subseteq Fetches
         /\ Asked(f, c) \in WithRequest(fetches, f, c)
         /\ Asked(f, c).current /\ Asked(f, c).file = f
         /\ Asked(f, c).connection = c
         /\ \A x \in WithRequest(fetches, f, c) :
              x.current => x = Asked(f, c)
  <1>1. /\ Asked(f, c) \in Fetches /\ Asked(f, c).file = f
        /\ Asked(f, c).connection = c
    BY DEF Asked, Fetches
  <1>2. Asked(f, c).current
    BY DEF Asked
  <1>3. QED
    BY <1>1, <1>2, FetchesCancelled DEF WithRequest

(* A fetch moves on; which one counts is not touched.                      *)
LEMMA FetchMoves ==
  ASSUME NEW x \in Fetches, NEW at \in {"image", "text", "expired"},
         NEW y, y = [x EXCEPT !.at = at]
  PROVE  /\ y \in Fetches /\ y.at = at /\ y.file = x.file
         /\ y.connection = x.connection /\ y.current = x.current
  <1>1. y \in Fetches /\ y.at = at /\ y.file = x.file
    BY DEF Fetches
  <1>2. y.connection = x.connection
    BY DEF Fetches
  <1>3. y.current = x.current
    BY Zenon DEF Fetches
  <1>4. QED
    BY <1>1, <1>2, <1>3

----------------------------------------------------------------------------
(* loadSelectedPreview for the file that is selected: a preview that says  *)
(* it is loading has a request.                                            *)
LEMMA PreviewLoads ==
  ASSUME PreviewTypes, NEW f \in Files \cup {NoFile},
         NEW items \in SUBSET Files, NEW c \in Connections,
         isCurrentOperation(c)',
         loadSelectedPreview(f, items, c)
  PROVE  /\ PreviewTypes' /\ PreviewInv'
         /\ preview'.shows = "loading" => preview'.file = f
  <1> DEFINE known == f \in items /\ Media[f] # "other"
             cached == known /\ f \in selectedPreviewCache
  <1>1. /\ UNCHANGED selectedPreviewCache
        /\ previews' = IF known /\ ~cached THEN WithRequest(previews, f, c)
                       ELSE Cancelled(previews)
        /\ preview' = Panel(IF f \in items THEN f ELSE NoFile,
                            IF ~known THEN "text"
                            ELSE IF cached THEN "image" ELSE "loading")
    BY DEF loadSelectedPreview
  <1>2. known => f \in Files
    OBVIOUS
  <1>3. previews \in SUBSET Fetches
    BY DEF PreviewTypes
  <1> DEFINE g == IF f \in items THEN f ELSE NoFile
             s == IF ~known THEN "text"
                  ELSE IF cached THEN "image" ELSE "loading"
  <1>4. /\ g \in Files \cup {NoFile} /\ s \in {"image", "text", "loading"}
        /\ s = "loading" => known /\ ~cached /\ g = f
    OBVIOUS
  <1>5. preview'.file = g /\ preview'.shows = s
    BY <1>1 DEF Panel
  <1>6. preview' \in [file : Files \cup {NoFile},
                      shows : {"image", "text", "loading"}]
    <2>1. Panel(g, s) \in [file : Files \cup {NoFile},
                           shows : {"image", "text", "loading"}]
      BY <1>4 DEF Panel
    <2>2. QED
      BY <1>1, <2>1
  <1> HIDE DEF g, s
  <1>7. CASE known /\ ~cached
    <2>1. previews' = WithRequest(previews, f, c) /\ f \in Files
      BY <1>1, <1>2, <1>7
    <2>2. /\ previews' \subseteq Fetches /\ Asked(f, c) \in previews'
          /\ Asked(f, c).current /\ Asked(f, c).file = f
          /\ Asked(f, c).connection = c
      BY <1>3, <2>1, FetchBegun
    <2>3. Awaited(Asked(f, c), f)'
      BY <2>2 DEF Awaited, isCurrentOperation
    <2> HIDE DEF known, cached
    <2>4. PreviewInv'
      <3>1. preview'.shows = "loading" => preview'.file = f
        BY <1>4, <1>5
      <3>2. QED
        BY <2>2, <2>3, <3>1 DEF PreviewInv
    <2>5. QED
      BY <1>1, <1>2, <1>4, <1>5, <1>6, <2>1, <2>2, <2>4 DEF PreviewTypes
  <1>8. CASE ~(known /\ ~cached)
    <2>1. previews' \subseteq Fetches
      BY <1>1, <1>3, <1>8, FetchesCancelled
    <2>2. preview'.shows # "loading"
      BY <1>4, <1>5, <1>8
    <2>3. QED
      BY <1>1, <1>6, <2>1, <2>2 DEF PreviewTypes, PreviewInv
  <1>9. QED
    BY <1>7, <1>8

(* clearSelectedPreview: nothing is loading.                               *)
LEMMA PreviewCleared ==
  ASSUME PreviewTypes, clearSelectedPreview
  PROVE  PreviewTypes' /\ PreviewInv' /\ preview'.shows # "loading"
  <1>1. previews' \subseteq Fetches
    BY FetchesCancelled DEF clearSelectedPreview, PreviewTypes
  <1>2. preview' = EmptyPreview /\ UNCHANGED selectedPreviewCache
    BY DEF clearSelectedPreview
  <1>3. /\ EmptyPreview \in [file : Files \cup {NoFile},
                             shows : {"image", "text", "loading"}]
        /\ EmptyPreview.shows = "text"
    BY DEF EmptyPreview, Panel
  <1>4. QED
    BY <1>1, <1>2, <1>3 DEF PreviewTypes, PreviewInv

(* A step that leaves the preview alone, and selects nothing new.          *)
LEMMA PreviewStays ==
  ASSUME PreviewTypes, PreviewInv, UNCHANGED previewVars,
         UNCHANGED <<connectionGen, connectAttemptID>>,
         connected' => connected,
         preview.shows = "loading" /\ selectedFileID' = preview.file =>
           selectedFileID = preview.file
  PROVE  PreviewTypes' /\ PreviewInv'
  <1>1. UNCHANGED <<preview, selectedPreviewCache, previews>>
    BY DEF previewVars
  <1>2. \A x, f : Awaited(x, f) => Awaited(x, f)'
    BY DEF Awaited, isCurrentOperation
  <1>3. QED
    BY <1>1, <1>2 DEF PreviewTypes, PreviewInv

(* A step that leaves the watcher alone.                                   *)
LEMMA WatcherStays ==
  ASSUME WatcherTypes, OneCurrent(watchers), WatcherInv, UNCHANGED watcherVars
  PROVE  WatcherTypes' /\ OneCurrent(watchers)' /\ WatcherInv'
  <1>1. UNCHANGED <<watcher, watchers>>
    BY DEF watcherVars
  <1>2. QED
    BY <1>1 DEF WatcherTypes, OneCurrent, WatcherInv

(* The watcher's requests are cancelled, its window may stay.              *)
LEMMA WatcherCancelled ==
  ASSUME WatcherTypes, watchers' = Cancelled(watchers),
         watcher' = watcher \/ watcher' = NoWindow
  PROVE  WatcherTypes' /\ OneCurrent(watchers)' /\ WatcherInv'
  <1>1. watchers' \subseteq Fetches /\ \A x \in watchers' : ~x.current
    BY FetchesCancelled DEF WatcherTypes
  <1>2. WatcherTypes'
    BY <1>1 DEF WatcherTypes
  <1>3. QED
    BY <1>1, <1>2 DEF OneCurrent, WatcherInv

----------------------------------------------------------------------------
(* The goroutines of the preview.                                          *)

(* A fetch of the preview is answered, fails or runs into its timeout.     *)
LEMMA PreviewMoves ==
  ASSUME PreviewTypes, PreviewInv, UNCHANGED connectionVars,
         UNCHANGED selectedFileID, NEW x \in previews,
         \/ PreviewAnswered(x) \/ PreviewFailed(x) \/ PreviewTimesOut(x)
  PROVE  PreviewTypes' /\ PreviewInv' /\ UNCHANGED preview
  <1>1. x \in Fetches /\ x.file \in Files
    BY DEF PreviewTypes, Fetches
  <1>2. UNCHANGED preview /\ selectedPreviewCache' \subseteq Files
    BY <1>1 DEF PreviewTypes, PreviewAnswered, PreviewFailed, PreviewTimesOut
  <1>3. \/ ~x.current /\ previews' = previews \ {x}
        \/ \E at \in {"image", "text", "expired"} :
             previews' = WithAnswer(previews, x, at)
    BY DEF PreviewAnswered, PreviewFailed, PreviewTimesOut, TimedOut
  <1>4. UNCHANGED <<connected, connectionGen, connectAttemptID>>
    BY DEF connectionVars
  <1>5. \A y, f : Awaited(y, f) => Awaited(y, f)'
    BY <1>4 DEF Awaited, isCurrentOperation
  <1>6. /\ previews' \subseteq Fetches
        /\ \A f : (\E y \in previews : Awaited(y, f))
                    => \E y \in previews' : Awaited(y, f)'
    <2>1. CASE ~x.current /\ previews' = previews \ {x}
      BY <1>5, <2>1 DEF Awaited, PreviewTypes
    <2>2. ASSUME NEW at \in {"image", "text", "expired"},
                 previews' = WithAnswer(previews, x, at), x.at # "expired"
          PROVE  /\ previews' \subseteq Fetches
                 /\ \A f : (\E y \in previews : Awaited(y, f))
                             => \E y \in previews' : Awaited(y, f)'
      <3>1. PICK z : z = [x EXCEPT !.at = at]
        OBVIOUS
      <3>2. /\ z \in Fetches /\ z.at = at /\ z.file = x.file
            /\ z.connection = x.connection /\ z.current = x.current
        BY <1>1, <3>1, FetchMoves
      <3>3. previews' = (previews \ {x}) \cup {z}
        BY <2>2, <3>1 DEF WithAnswer
      <3>4. \A f : Awaited(x, f) => Awaited(z, f)'
        BY <1>4, <2>2, <3>2 DEF Awaited, isCurrentOperation
      <3>5. QED
        BY <1>5, <3>2, <3>3, <3>4 DEF PreviewTypes
    <2>3. x.at # "expired"
      BY DEF PreviewAnswered, PreviewFailed, PreviewTimesOut
    <2>4. QED
      BY <1>3, <2>1, <2>2, <2>3
  <1>7. QED
    BY <1>2, <1>4, <1>6 DEF PreviewTypes, PreviewInv

(* The closure shows an answer that counts; one that does not is not the   *)
(* one the preview waits for.                                              *)
LEMMA PreviewShows ==
  ASSUME PreviewTypes, PreviewInv, UNCHANGED connectionVars,
         UNCHANGED selectedFileID, NEW x \in previews, PreviewShown(x)
  PROVE  /\ PreviewTypes' /\ PreviewInv'
         /\ preview'.shows = "loading" => UNCHANGED preview
  <1>1. x \in Fetches /\ x.file \in Files /\ x.at \in {"image", "text"}
    BY DEF PreviewTypes, Fetches, PreviewShown
  <1>2. /\ previews' = previews \ {x} /\ UNCHANGED selectedPreviewCache
        /\ \/ preview' = Panel(x.file, x.at)
           \/ /\ UNCHANGED preview
              /\ ~(/\ x.current /\ isCurrentOperation(x.connection)
                   /\ selectedFileID = x.file)
    BY DEF PreviewShown
  <1>3. UNCHANGED <<connected, connectionGen, connectAttemptID>>
    BY DEF connectionVars
  <1>4. CASE preview' = Panel(x.file, x.at)
    <2>1. /\ preview' \in [file : Files \cup {NoFile},
                           shows : {"image", "text", "loading"}]
          /\ preview'.shows # "loading"
      BY <1>1, <1>4 DEF Panel
    <2>2. QED
      BY <1>2, <2>1 DEF PreviewTypes, PreviewInv
  <1>5. CASE /\ UNCHANGED preview
             /\ ~(/\ x.current /\ isCurrentOperation(x.connection)
                  /\ selectedFileID = x.file)
    <2>1. PreviewTypes'
      BY <1>2, <1>5 DEF PreviewTypes
    <2>2. ASSUME connected', preview'.shows = "loading",
                 preview'.file = selectedFileID'
          PROVE  \E y \in previews' : Awaited(y, preview.file)'
      <3>1. PICK y \in previews : Awaited(y, preview.file)
        BY <1>3, <1>5, <2>2 DEF PreviewInv
      <3>2. preview.file = selectedFileID
        BY <1>5, <2>2
      <3>3. ~Awaited(x, selectedFileID)
        BY <1>1, <1>5 DEF Awaited
      <3>4. y \in previews' /\ Awaited(y, preview.file)'
        BY <1>2, <1>3, <1>5, <3>1, <3>2, <3>3
           DEF Awaited, isCurrentOperation
      <3>5. QED
        BY <3>4
    <2>3. PreviewInv'
      BY <2>2 DEF PreviewInv
    <2>4. QED
      BY <1>5, <2>1, <2>3
  <1>6. QED
    BY <1>2, <1>4, <1>5

----------------------------------------------------------------------------
(* The watcher's goroutines and its window.                                *)

(* A fetch of the watcher is answered, fails or runs into its timeout.     *)
LEMMA WatcherMoves ==
  ASSUME WatcherTypes, OneCurrent(watchers), WatcherInv, NEW x \in watchers,
         \/ WatcherAnswered(x) \/ WatcherFailed(x) \/ WatcherTimesOut(x)
  PROVE  WatcherTypes' /\ OneCurrent(watchers)' /\ WatcherInv'
  <1>1. x \in Fetches /\ UNCHANGED watcher
    BY DEF WatcherTypes, WatcherAnswered, WatcherFailed, WatcherTimesOut
  <1>2. \/ watchers' = watchers \ {x}
        \/ \E at \in {"image", "text"} :
             watchers' = WithAnswer(watchers, x, at)
    BY DEF WatcherAnswered, WatcherFailed, WatcherTimesOut
  <1>3. CASE watchers' = watchers \ {x}
    <2>1. WatcherTypes'
      BY <1>1, <1>3 DEF WatcherTypes
    <2>2. OneCurrent(watchers)'
      BY <1>3 DEF OneCurrent
    <2>3. WatcherInv'
      BY <1>1, <1>3 DEF WatcherInv
    <2>4. QED
      BY <2>1, <2>2, <2>3
  <1>4. ASSUME NEW at \in {"image", "text"},
               watchers' = WithAnswer(watchers, x, at)
        PROVE  WatcherTypes' /\ OneCurrent(watchers)' /\ WatcherInv'
    <2>1. PICK z : z = [x EXCEPT !.at = at]
      OBVIOUS
    <2>2. at \in {"image", "text", "expired"}
      BY <1>4
    <2>3. /\ z \in Fetches /\ z.file = x.file /\ z.current = x.current
      BY <1>1, <2>1, <2>2, FetchMoves
    <2>4. watchers' = (watchers \ {x}) \cup {z}
      BY <1>4, <2>1 DEF WithAnswer
    <2>5. WatcherTypes'
      BY <1>1, <2>3, <2>4 DEF WatcherTypes
    <2>6. OneCurrent(watchers)'
      BY <2>3, <2>4 DEF OneCurrent
    <2>7. WatcherInv'
      BY <1>1, <2>3, <2>4 DEF WatcherInv
    <2>8. QED
      BY <2>5, <2>6, <2>7
  <1>5. QED
    BY <1>2, <1>3, <1>4

(* presentWatcherWindow shows what the present request brought: as only    *)
(* one counts, no other is left that would show another file.              *)
LEMMA WatcherShows ==
  ASSUME WatcherTypes, OneCurrent(watchers), WatcherInv, NEW x \in watchers,
         WatcherShown(x)
  PROVE  WatcherTypes' /\ OneCurrent(watchers)' /\ WatcherInv'
  <1>1. /\ x.file \in Files /\ x.at \in {"image", "text"}
        /\ watchers' = watchers \ {x}
    BY DEF WatcherTypes, Fetches, WatcherShown
  <1>2. \/ UNCHANGED watcher
        \/ x.current /\ watcher' = Panel(x.file, x.at)
    BY DEF WatcherShown
  <1>3. OneCurrent(watchers)'
    BY <1>1 DEF OneCurrent
  <1>4. WatcherTypes'
    <2>1. Panel(x.file, x.at) \in
            [file : Files, shows : {"image", "text", "loading", "video"}]
      BY <1>1 DEF Panel
    <2>2. QED
      BY <1>1, <1>2, <2>1 DEF WatcherTypes
  <1>5. WatcherInv'
    <2>1. CASE x.current
      BY <1>1, <2>1 DEF OneCurrent, WatcherInv
    <2>2. CASE UNCHANGED watcher
      BY <1>1, <2>2 DEF WatcherInv
    <2>3. QED
      BY <1>2, <2>1, <2>2
  <1>6. QED
    BY <1>3, <1>4, <1>5

(* openNativeWatcherForFile and openNativeVideoWatcherForFile: the window  *)
(* is of the file, and so is its request, if the file has one.             *)
LEMMA WatcherOpens ==
  ASSUME WatcherTypes, OneCurrent(watchers), WatcherInv, NEW f \in Files,
         NEW items, currentConnection \in Connections,
         openNativeWatcherForFile(f, items)
  PROVE  WatcherTypes' /\ OneCurrent(watchers)' /\ WatcherInv'
  <1>1. CASE f \notin items
    <2>1. UNCHANGED watcherVars
      BY <1>1 DEF openNativeWatcherForFile
    <2>2. QED
      BY <2>1, WatcherStays
  <1>2. CASE f \in items
    <2>1. PICK c \in Connections : c = currentConnection
      OBVIOUS
    <2>2. /\ watcher'.file = f
          /\ watcher' \in
               [file : Files, shows : {"image", "text", "loading", "video"}]
          /\ watcher' # NoWindow
      <3>1. \E s \in {"image", "text", "loading", "video"} :
              watcher' = Panel(f, s)
        BY <1>2 DEF openNativeWatcherForFile
      <3>2. QED
        BY <3>1 DEF Panel, NoWindow
    <2>3. watchers' = IF Media[f] = "other" THEN watchers
                      ELSE WithRequest(watchers, f, c)
      BY <1>2, <2>1 DEF openNativeWatcherForFile
    <2>4. CASE Media[f] = "other"
      BY <2>2, <2>3, <2>4 DEF WatcherTypes, OneCurrent, WatcherInv
    <2>5. CASE Media[f] # "other"
      <3>1. watchers' = WithRequest(watchers, f, c)
        BY <2>3, <2>5
      <3>2. watchers \in SUBSET Fetches
        BY DEF WatcherTypes
      <3>3. /\ watchers' \subseteq Fetches /\ Asked(f, c).file = f
            /\ \A x \in watchers' : x.current => x = Asked(f, c)
        BY <2>1, <3>1, <3>2, FetchBegun
      <3>4. QED
        BY <2>2, <3>3 DEF WatcherTypes, OneCurrent, WatcherInv
    <2>6. QED
      BY <2>4, <2>5
  <1>3. QED
    BY <1>1, <1>2

----------------------------------------------------------------------------
(* The steps.                                                              *)

(* What a step that leaves the connection alone keeps of it.               *)
LEMMA PanelsConnectionKept ==
  ASSUME ConnectionInv, UNCHANGED connectionVars
  PROVE  /\ ConnectionInv'
         /\ UNCHANGED <<client, connected, connectionGen, connectAttemptID>>
  BY ConnectionUnchanged DEF connectionVars

(* A request over the connection there is; it is the present one.          *)
LEMMA RequestOverPresent ==
  ASSUME ConnectionInv, client \in Daemons,
         UNCHANGED <<connectionGen, connectAttemptID>>,
         NEW c, c = currentConnection
  PROVE  c \in Connections /\ isCurrentOperation(c)'
  BY DEF ConnectionInv, ConnectionTypes, Connections, currentConnection,
         isCurrentOperation

(* A step of a goroutine of the preview or the watcher, or the user closes *)
(* the watcher's window.                                                   *)
LEMMA PanelsFetchStep ==
  ASSUME PanelsInv, UNCHANGED <<selectionVars, connectionVars>>,
         FetchStep \/ (WatcherClosed /\ UNCHANGED previewVars)
  PROVE  PanelsInv'
  <1>1. /\ ConnectionInv /\ SelectionInv /\ PreviewTypes /\ WatcherTypes
        /\ OneCurrent(watchers) /\ NotSelectedAgain /\ PreviewInv
        /\ WatcherInv
    BY PanelsInvIs
  <1>2. /\ ConnectionInv' /\ UNCHANGED connectionVars
        /\ UNCHANGED <<connected, connectionGen, connectAttemptID>>
    BY <1>1, PanelsConnectionKept
  <1>3. SelectionInv' /\ UNCHANGED <<galleryLoad, selectedFileID>>
    BY <1>1, <1>2, SelectionWaits DEF selectionVars, loadVars
  <1>4. /\ PreviewTypes' /\ PreviewInv'
        /\ preview'.shows = "loading" => UNCHANGED preview
    <2>1. ASSUME NEW x \in previews,
                 \/ PreviewAnswered(x) \/ PreviewFailed(x)
                 \/ PreviewTimesOut(x) \/ PreviewShown(x)
          PROVE  /\ PreviewTypes' /\ PreviewInv'
                 /\ preview'.shows = "loading" => UNCHANGED preview
      BY <1>1, <1>2, <1>3, <2>1, PreviewMoves, PreviewShows
    <2>2. ASSUME UNCHANGED previewVars
          PROVE  /\ PreviewTypes' /\ PreviewInv'
                 /\ preview'.shows = "loading" => UNCHANGED preview
      <3>1. UNCHANGED preview
        BY <2>2 DEF previewVars
      <3>2. PreviewTypes' /\ PreviewInv'
        BY <1>1, <1>2, <1>3, <2>2, PreviewStays
      <3>3. QED
        BY <3>1, <3>2
    <2>3. QED
      BY <2>1, <2>2 DEF FetchStep
  <1>5. WatcherTypes' /\ OneCurrent(watchers)' /\ WatcherInv'
    <2>1. ASSUME NEW x \in watchers,
                 \/ WatcherAnswered(x) \/ WatcherFailed(x)
                 \/ WatcherTimesOut(x) \/ WatcherShown(x)
          PROVE  WatcherTypes' /\ OneCurrent(watchers)' /\ WatcherInv'
      BY <1>1, <2>1, WatcherMoves, WatcherShows
    <2>2. CASE UNCHANGED watcherVars
      BY <1>1, <2>2, WatcherStays
    <2>3. CASE WatcherClosed
      BY <1>1, <2>3, WatcherCancelled DEF WatcherClosed
    <2>4. QED
      BY <2>1, <2>2, <2>3 DEF FetchStep
  <1>6. NotSelectedAgain'
    BY <1>1, <1>3, <1>4 DEF NotSelectedAgain
  <1>7. QED
    BY <1>2, <1>3, <1>4, <1>5, <1>6, PanelsInvNext

(* The user selects a file, or opens one in the watcher.                   *)
LEMMA PanelsUserStep ==
  ASSUME PanelsInv, NEW f \in Files, SelectFile(f) \/ OpenFile(f)
  PROVE  PanelsInv'
  <1>1. /\ ConnectionInv /\ SelectionInv /\ PreviewTypes /\ WatcherTypes
        /\ OneCurrent(watchers) /\ NotSelectedAgain /\ PreviewInv
        /\ WatcherInv
    BY PanelsInvIs
  <1>2. UNCHANGED connectionVars
    BY DEF SelectFile, OpenFile
  <1>3. /\ ConnectionInv'
        /\ UNCHANGED <<connected, connectionGen, connectAttemptID>>
    BY <1>1, <1>2, PanelsConnectionKept
  <1>4. connected /\ client \in Daemons
    <2>1. connected
      BY DEF SelectFile, OpenFile, PickFile, Online
    <2>2. QED
      BY <1>1, <2>1 DEF ConnectionInv
  <1>5. PICK c : c = currentConnection
    OBVIOUS
  <1>6. c \in Connections /\ isCurrentOperation(c)'
    BY <1>1, <1>3, <1>4, <1>5, RequestOverPresent
  <1>7. ASSUME PickFile(f), loadSelectedPreview(f, listed, currentConnection)
        PROVE  /\ SelectionInv' /\ PreviewTypes' /\ PreviewInv'
               /\ NotSelectedAgain'
    <2>1. SelectionInv' /\ selectedFileID' = f
      BY <1>1, <1>3, <1>7, FilePicked
    <2>2. listed \in SUBSET Files
      BY <1>1 DEF SelectionInv, SelectionTypes
    <2>3. loadSelectedPreview(f, listed, c)
      BY <1>5, <1>7
    <2>4. PICK items \in SUBSET Files : items = listed
      BY <2>2
    <2>5. /\ PreviewTypes' /\ PreviewInv'
          /\ preview'.shows = "loading" => preview'.file = f
      BY <1>1, <1>6, <2>3, <2>4, PreviewLoads
    <2>6. NotSelectedAgain'
      BY <2>1, <2>5 DEF NotSelectedAgain
    <2>7. QED
      BY <2>1, <2>5, <2>6
  <1>8. /\ SelectionInv' /\ PreviewTypes' /\ PreviewInv'
        /\ NotSelectedAgain'
    <2>1. CASE UNCHANGED <<selectionVars, previewVars>>
      <3>1. UNCHANGED <<selectedFileID, galleryLoad, preview>>
        BY <2>1 DEF selectionVars, loadVars, previewVars
      <3>2. SelectionInv'
        BY <1>1, <1>3, <2>1, SelectionWaits
      <3>3. PreviewTypes' /\ PreviewInv'
        BY <1>1, <1>3, <2>1, <3>1, PreviewStays
      <3>4. NotSelectedAgain'
        BY <1>1, <3>1 DEF NotSelectedAgain
      <3>5. QED
        BY <3>2, <3>3, <3>4
    <2>2. QED
      BY <1>7, <2>1 DEF SelectFile, OpenFile
  <1>9. WatcherTypes' /\ OneCurrent(watchers)' /\ WatcherInv'
    <2>1. CASE SelectFile(f)
      BY <1>1, <2>1, WatcherStays DEF SelectFile
    <2>2. CASE OpenFile(f)
      BY <1>1, <1>5, <1>6, <2>2, WatcherOpens DEF OpenFile
    <2>3. QED
      BY <2>1, <2>2
  <1>10. QED
    BY <1>3, <1>8, <1>9, PanelsInvNext

(* Page loads begin, fail or are dropped: an appended page keeps what is   *)
(* selected when its load begins, which is not the file of a preview that  *)
(* the selection has left.                                                 *)
LEMMA PanelsLoadsBegin ==
  ASSUME PanelsInv, LoadsBegin
  PROVE  PanelsInv'
  <1>1. /\ ConnectionInv /\ SelectionInv /\ PreviewTypes /\ WatcherTypes
        /\ OneCurrent(watchers) /\ NotSelectedAgain /\ PreviewInv
        /\ WatcherInv
    BY PanelsInvIs
  <1>2. /\ ReloadGallery \/ LoadMore \/ PageFails \/ OlderPageDropped
        /\ UNCHANGED connectionVars /\ UNCHANGED previewVars
        /\ UNCHANGED watcherVars /\ UNCHANGED preview
    BY DEF LoadsBegin, panelVars, previewVars, watcherVars
  <1>3. /\ ConnectionInv'
        /\ UNCHANGED <<connected, connectionGen, connectAttemptID>>
    BY <1>1, <1>2, PanelsConnectionKept
  <1>4. /\ SelectionInv' /\ UNCHANGED selectedFileID
        /\ galleryLoad'.append => \/ galleryLoad' = galleryLoad
                                  \/ galleryLoad'.preferred = selectedFileID
    BY <1>1, <1>2, <1>3, PageLoadsKept
  <1>5. PreviewTypes' /\ PreviewInv'
    BY <1>1, <1>2, <1>3, <1>4, PreviewStays
  <1>6. WatcherTypes' /\ OneCurrent(watchers)' /\ WatcherInv'
    BY <1>1, <1>2, WatcherStays
  <1>7. NotSelectedAgain'
    BY <1>1, <1>2, <1>4 DEF NotSelectedAgain
  <1>8. QED
    BY <1>3, <1>4, <1>5, <1>6, <1>7, PanelsInvNext

(* A page replaces the list, and the preview follows the selection.        *)
LEMMA PanelsPageReplaces ==
  ASSUME PanelsInv, PanelsPageApplied
  PROVE  PanelsInv'
  <1>1. /\ ConnectionInv /\ SelectionInv /\ PreviewTypes /\ WatcherTypes
        /\ OneCurrent(watchers) /\ NotSelectedAgain /\ PreviewInv
        /\ WatcherInv
    BY PanelsInvIs
  <1>2. /\ PageApplied /\ FollowSelection /\ UNCHANGED watcherVars
        /\ UNCHANGED connectionVars
    BY DEF PanelsPageApplied
  <1>3. /\ ConnectionInv'
        /\ UNCHANGED <<connected, connectionGen, connectAttemptID>>
    BY <1>1, <1>2, PanelsConnectionKept
  <1>4. SelectionInv' /\ connected /\ galleryLoad' = NoLoad
    BY <1>1, <1>2, <1>3, PageShown
  <1>5. PreviewTypes' /\ PreviewInv'
    <2>1. PICK c : c = currentConnection
      OBVIOUS
    <2>2. client \in Daemons
      BY <1>1, <1>4 DEF ConnectionInv
    <2>3. c \in Connections /\ isCurrentOperation(c)'
      BY <1>1, <1>3, <2>1, <2>2, RequestOverPresent
    <2>4. PICK f \in Files \cup {NoFile}, items \in SUBSET Files :
            f = selectedFileID' /\ items = listed'
      BY <1>4 DEF SelectionInv, SelectionTypes
    <2>5. clearSelectedPreview \/ loadSelectedPreview(f, items, c)
      BY <1>2, <2>1, <2>4 DEF FollowSelection
    <2>6. QED
      BY <1>1, <2>3, <2>5, PreviewLoads, PreviewCleared
  <1>6. WatcherTypes' /\ OneCurrent(watchers)' /\ WatcherInv'
    BY <1>1, <1>2, WatcherStays
  <1>7. NotSelectedAgain'
    BY <1>4, NoLoadTypes DEF NotSelectedAgain
  <1>8. QED
    BY <1>3, <1>4, <1>5, <1>6, <1>7, PanelsInvNext

(* A page is appended: the selection may move, but not back onto the file  *)
(* of a preview that it has left.                                          *)
LEMMA PanelsPageGrows ==
  ASSUME PanelsInv, PanelsPageAppended
  PROVE  PanelsInv'
  <1>1. /\ ConnectionInv /\ SelectionInv /\ PreviewTypes /\ WatcherTypes
        /\ OneCurrent(watchers) /\ NotSelectedAgain /\ PreviewInv
        /\ WatcherInv
    BY PanelsInvIs
  <1>2. /\ PageAppended /\ galleryLoad.append /\ UNCHANGED connectionVars
        /\ UNCHANGED previewVars /\ UNCHANGED watcherVars
    BY DEF PanelsPageAppended, PageAppended, panelVars, previewVars,
           watcherVars
  <1>3. /\ ConnectionInv'
        /\ UNCHANGED <<connected, connectionGen, connectAttemptID>>
    BY <1>1, <1>2, PanelsConnectionKept
  <1>4. /\ SelectionInv' /\ galleryLoad' = NoLoad
        /\ \/ UNCHANGED selectedFileID
           \/ selectedFileID' \in {galleryLoad.preferred, NoFile}
    BY <1>1, <1>2, <1>3, PageShown
  <1>5. preview.shows = "loading" /\ selectedFileID' = preview.file =>
          selectedFileID = preview.file
    BY <1>1, <1>2, <1>4, SelectionAssumption
       DEF NotSelectedAgain, PreviewTypes
  <1>6. PreviewTypes' /\ PreviewInv'
    BY <1>1, <1>2, <1>3, <1>5, PreviewStays
  <1>7. WatcherTypes' /\ OneCurrent(watchers)' /\ WatcherInv'
    BY <1>1, <1>2, WatcherStays
  <1>8. NotSelectedAgain'
    BY <1>4, NoLoadTypes DEF NotSelectedAgain
  <1>9. QED
    BY <1>3, <1>4, <1>6, <1>7, <1>8, PanelsInvNext

(* A connect attempt cancels the requests of both panels; the preview is   *)
(* not looked at until the attempt has ended.                              *)
LEMMA PanelsConnectStep ==
  ASSUME PanelsInv, NEW d \in Daemons, PanelsConnect(d)
  PROVE  PanelsInv'
  <1>1. /\ ConnectionInv /\ SelectionInv /\ PreviewTypes /\ WatcherTypes
        /\ NotSelectedAgain
    BY PanelsInvIs
  <1>2. /\ BeginConnectAttempt(d) /\ ForgetPageLoad
        /\ previews' = Cancelled(previews)
        /\ watchers' = Cancelled(watchers) /\ UNCHANGED watcher
        /\ UNCHANGED <<preview, selectedPreviewCache>>
    BY DEF PanelsConnect
  <1>3. ConnectionInv' /\ ~connected'
    BY <1>1, <1>2, AttemptBegins
  <1>4. SelectionInv' /\ galleryLoad' = NoLoad
    BY <1>1, <1>2, PageLoadForgotten
  <1>5. PreviewTypes' /\ PreviewInv'
    <2>1. previews' \subseteq Fetches
      BY <1>1, <1>2, FetchesCancelled DEF PreviewTypes
    <2>2. QED
      BY <1>1, <1>2, <1>3, <2>1 DEF PreviewTypes, PreviewInv
  <1>6. WatcherTypes' /\ OneCurrent(watchers)' /\ WatcherInv'
    BY <1>1, <1>2, WatcherCancelled
  <1>7. NotSelectedAgain'
    BY <1>4, NoLoadTypes DEF NotSelectedAgain
  <1>8. QED
    BY <1>3, <1>4, <1>5, <1>6, <1>7, PanelsInvNext

(* The requests of an attempt, and its end without a connection: the       *)
(* preview of a client that is online again is loaded again.               *)
LEMMA PanelsAttemptStep ==
  ASSUME PanelsInv, NEW a \in AttemptIDs,
         PanelsAttemptRequests(a) \/ PanelsAttemptFails(a)
  PROVE  PanelsInv'
  <1>1. /\ ConnectionInv /\ SelectionInv /\ PreviewTypes /\ WatcherTypes
        /\ OneCurrent(watchers) /\ NotSelectedAgain /\ PreviewInv
        /\ WatcherInv
    BY PanelsInvIs
  <1>2. /\ AttemptRequests(a) \/ RestoreConnectedState(a)
        /\ UNCHANGED watcherVars /\ UNCHANGED selectionVars
    BY DEF PanelsAttemptRequests, PanelsAttemptFails, panelVars, watcherVars
  <1>3. ConnectionInv' /\ UNCHANGED <<client, connectionGen, connectAttemptID>>
    BY <1>1, <1>2, AttemptMoves
  <1>4. AttemptRequests(a) => UNCHANGED connected
    BY DEF AttemptRequests, RequestsSucceed, RequestsFail, AttemptOutdated
  <1>5. RestoreConnectedState(a) => ~connected
    <2>1. RestoreConnectedState(a) => AttemptUnderWay
      BY DEF RestoreConnectedState, AttemptUnderWay, NoAttempt
    <2>2. QED
      BY <1>1, <2>1 DEF ConnectionInv
  <1>6. SelectionInv' /\ UNCHANGED <<galleryLoad, selectedFileID, listed>>
    BY <1>1, <1>2, <1>4, <1>5, SelectionWaits DEF selectionVars, loadVars
  <1>7. PreviewTypes' /\ PreviewInv' /\ NotSelectedAgain'
    <2>1. CASE PanelsAttemptRequests(a)
      <3>1. UNCHANGED previewVars /\ UNCHANGED preview /\ UNCHANGED connected
        BY <1>4, <2>1 DEF PanelsAttemptRequests, panelVars, previewVars
      <3>2. QED
        BY <1>1, <1>3, <1>6, <3>1, PreviewStays DEF NotSelectedAgain
    <2>2. CASE PanelsAttemptFails(a)
      <3>1. /\ RestoreConnectedState(a) /\ connected' = attempts[a].was
            /\ IF attempts[a].was /\ selectedFileID # NoFile
               THEN loadSelectedPreview(selectedFileID, listed,
                                        currentConnection)
               ELSE UNCHANGED previewVars
        BY <2>2 DEF PanelsAttemptFails, RestoreConnectedState
      <3>2. CASE attempts[a].was /\ selectedFileID # NoFile
        <4>1. PICK c : c = currentConnection
          OBVIOUS
        <4>2. client \in Daemons
          BY <1>1, <3>2 DEF ConnectionInv
        <4>3. c \in Connections /\ isCurrentOperation(c)'
          BY <1>1, <1>3, <4>1, <4>2, RequestOverPresent
        <4>4. PICK f \in Files \cup {NoFile}, items \in SUBSET Files :
                f = selectedFileID /\ items = listed
          BY <1>1 DEF SelectionInv, SelectionTypes
        <4>5. loadSelectedPreview(f, items, c)
          BY <3>1, <3>2, <4>1, <4>4
        <4>6. /\ PreviewTypes' /\ PreviewInv'
              /\ preview'.shows = "loading" => preview'.file = selectedFileID
          BY <1>1, <4>3, <4>4, <4>5, PreviewLoads
        <4>7. QED
          BY <1>6, <4>6 DEF NotSelectedAgain
      <3>3. CASE ~(attempts[a].was /\ selectedFileID # NoFile)
        <4>1. UNCHANGED <<preview, selectedPreviewCache, previews>>
          BY <3>1, <3>3 DEF previewVars
        <4>2. ~(/\ connected' /\ preview'.shows = "loading"
                /\ preview'.file = selectedFileID')
          BY <1>1, <1>6, <3>1, <3>3, <4>1, SelectionAssumption
             DEF PreviewTypes
        <4>3. QED
          BY <1>1, <1>6, <4>1, <4>2
             DEF PreviewTypes, PreviewInv, NotSelectedAgain
      <3>4. QED
        BY <3>2, <3>3
    <2>3. QED
      BY <2>1, <2>2
  <1>8. WatcherTypes' /\ OneCurrent(watchers)' /\ WatcherInv'
    BY <1>1, <1>2, WatcherStays
  <1>9. QED
    BY <1>3, <1>6, <1>7, <1>8, PanelsInvNext

(* A new connection shows its first page, with an empty preview.           *)
LEMMA PanelsConnectedStep ==
  ASSUME PanelsInv, NEW a \in AttemptIDs, PanelsConnected(a)
  PROVE  PanelsInv'
  <1>1. /\ ConnectionInv /\ SelectionInv /\ PreviewTypes /\ WatcherTypes
        /\ OneCurrent(watchers) /\ WatcherInv
    BY PanelsInvIs
  <1>2. /\ InstallConnection(a) /\ FirstPage /\ clearSelectedPreview
        /\ UNCHANGED watcherVars /\ connected'
    BY DEF PanelsConnected, InstallConnection
  <1>3. ConnectionInv'
    <2>1. PICK new : new = [client |-> attempts[a].daemon,
                            generation |-> connectionGen + 1,
                            attemptID |-> connectAttemptID]
      OBVIOUS
    <2>2. QED
      BY <1>1, <1>2, <2>1, ConnectionInstalled
  <1>4. SelectionInv'
    BY <1>1, <1>2, FirstPageShown
  <1>5. PreviewTypes' /\ PreviewInv' /\ NotSelectedAgain'
    BY <1>1, <1>2, PreviewCleared DEF NotSelectedAgain
  <1>6. WatcherTypes' /\ OneCurrent(watchers)' /\ WatcherInv'
    BY <1>1, <1>2, WatcherStays
  <1>7. QED
    BY <1>3, <1>4, <1>5, <1>6, PanelsInvNext

(* A client that never connected shows nothing.                            *)
LEMMA PanelsInitial ==
  ConnectionInit /\ SelectionInit /\ PanelsInit => PanelsInv
  <1> SUFFICES ASSUME ConnectionInit, SelectionInit, PanelsInit
               PROVE  PanelsInv
    OBVIOUS
  <1>1. ConnectionInv /\ SelectionInv
    BY ConnectionInitial, SelectionInitial
  <1>2. preview.file = NoFile /\ preview.shows = "text"
    BY DEF PanelsInit, EmptyPreview, Panel
  <1>3. PreviewTypes
    <2>1. preview \in [file : Files \cup {NoFile},
                       shows : {"image", "text", "loading"}]
      BY DEF PanelsInit, EmptyPreview, Panel
    <2>2. QED
      BY <1>2, <2>1 DEF PreviewTypes, PanelsInit
  <1>4. PreviewInv /\ NotSelectedAgain
    BY <1>2 DEF PreviewInv, NotSelectedAgain
  <1>5. WatcherTypes /\ OneCurrent(watchers) /\ WatcherInv
    BY DEF PanelsInit, WatcherTypes, OneCurrent, WatcherInv
  <1>6. QED
    BY <1>1, <1>3, <1>4, <1>5, PanelsInvIs

(* However requests, pages, picked files and connect attempts overlap: the *)
(* panels follow, and an appended page never moves the selection back onto *)
(* a preview that has been left waiting.                                   *)
THEOREM PanelsInvariant == PanelsSpec => []PanelsInv
  <1>1. ConnectionInit /\ SelectionInit /\ PanelsInit => PanelsInv
    BY PanelsInitial
  <1>2. PanelsInv /\ [PanelsNext]_<<connectionVars, selectionVars, panelVars>>
          => PanelsInv'
    <2> SUFFICES ASSUME PanelsInv,
                        [PanelsNext]_<<connectionVars, selectionVars,
                                       panelVars>>
                 PROVE  PanelsInv'
      OBVIOUS
    <2>1. ASSUME UNCHANGED <<selectionVars, connectionVars>>,
                 FetchStep \/ (WatcherClosed /\ UNCHANGED previewVars)
          PROVE  PanelsInv'
      BY <2>1, PanelsFetchStep
    <2>2. ASSUME NEW f \in Files, SelectFile(f) \/ OpenFile(f)
          PROVE  PanelsInv'
      BY <2>2, PanelsUserStep
    <2>3. CASE LoadsBegin
      BY <2>3, PanelsLoadsBegin
    <2>4. CASE PanelsPageApplied
      BY <2>4, PanelsPageReplaces
    <2>5. CASE PanelsPageAppended
      BY <2>5, PanelsPageGrows
    <2>6. ASSUME NEW d \in Daemons, PanelsConnect(d)
          PROVE  PanelsInv'
      BY <2>6, PanelsConnectStep
    <2>7. ASSUME NEW a \in AttemptIDs,
                 PanelsAttemptRequests(a) \/ PanelsAttemptFails(a)
          PROVE  PanelsInv'
      BY <2>7, PanelsAttemptStep
    <2>8. ASSUME NEW a \in AttemptIDs, PanelsConnected(a)
          PROVE  PanelsInv'
      BY <2>8, PanelsConnectedStep
    <2>9. CASE UNCHANGED <<connectionVars, selectionVars, panelVars>>
      <3>1. /\ ConnectionInv /\ SelectionInv /\ PreviewTypes /\ WatcherTypes
            /\ OneCurrent(watchers) /\ NotSelectedAgain /\ PreviewInv
            /\ WatcherInv
        BY PanelsInvIs
      <3>2. /\ UNCHANGED <<connectionVars, selectionVars>>
            /\ UNCHANGED previewVars /\ UNCHANGED watcherVars
            /\ UNCHANGED <<preview, selectedFileID, galleryLoad>>
        BY <2>9 DEF panelVars, previewVars, watcherVars, selectionVars,
                    loadVars
      <3>3. /\ ConnectionInv'
            /\ UNCHANGED <<connected, connectionGen, connectAttemptID>>
        BY <3>1, <3>2, PanelsConnectionKept
      <3>4. SelectionInv'
        BY <3>1, <3>2, <3>3, SelectionWaits
      <3>5. PreviewTypes' /\ PreviewInv'
        BY <3>1, <3>2, <3>3, PreviewStays
      <3>6. WatcherTypes' /\ OneCurrent(watchers)' /\ WatcherInv'
        BY <3>1, <3>2, WatcherStays
      <3>7. NotSelectedAgain'
        BY <3>1, <3>2 DEF NotSelectedAgain
      <3>8. QED
        BY <3>3, <3>4, <3>5, <3>6, <3>7, PanelsInvNext
    <2>10. QED
      BY <2>1, <2>2, <2>3, <2>4, <2>5, <2>6, <2>7, <2>8, <2>9
         DEF PanelsNext, PanelsStep
  <1>3. QED
    BY <1>1, <1>2, PTL DEF PanelsSpec

(* A preview that says it is loading the selected file has its request     *)
(* under way, unless that ran into its timeout, and no watcher request     *)
(* that counts would open a closed window or show another file in it.      *)
THEOREM PanelsFollowSelection == PanelsSpec => []PanelsFollow
  <1>1. PanelsInv => PanelsFollow
    BY DEF PanelsInv
  <1>2. QED
    BY <1>1, PanelsInvariant, PTL

----------------------------------------------------------------------------
(***************************************************************************)
(* The tag editor.                                                         *)
(***************************************************************************)

(* Requests that keep the editor disabled.                                 *)
MainKinds == {"load", "stage", "commit"}

(* The requests of window e that are under way, of these kinds.            *)
SentOf(e, slots, kinds) ==
  {s \in EditorSlots : /\ slots[s].kind \in kinds
                       /\ slots[s].window = e.window}

(* OneAtATime of a window, of requests, and of the tags there are.         *)
Single(e, slots, there) ==
  /\ \A s, q \in SentOf(e, slots, MainKinds) : s = q
  /\ SentOf(e, slots, MainKinds) # {} => e.busy
  /\ e.stageEnabled \/ e.commitEnabled => ~e.busy
  /\ \A s \in SentOf(e, slots, {"stage"}) : slots[s].tags = e.entry
  /\ \A s \in SentOf(e, slots, {"load"}) :
       slots[s].phase = "done" => e.confirmed \subseteq slots[s].result
  /\ (~e.busy \/ SentOf(e, slots, {"stage", "commit"}) # {}) =>
       (e.label = "loaded" => e.confirmed \subseteq e.existing)
  /\ e.entered \subseteq e.entry \cup there

(* The tags the daemon of window e has for its file.                       *)
TagsOf(e) == daemonTags[e.connection.client][e.file]

(* What a window keeps as long as it is open.                              *)
WindowSound(e, slots) ==
  /\ e.window = windowsOpened /\ Snapshot(e.connection)
  /\ e.existing \subseteq TagsOf(e) /\ e.confirmed \subseteq TagsOf(e)
  /\ e.busy /\ isCurrentOperation(e.connection) =>
       SentOf(e, slots, MainKinds) # {}
  /\ e.tappedBusy \/ Single(e, slots, TagsOf(e))

(* Every request that is under way is as RequestInv says.                  *)
RequestsKnown ==
  \A s \in EditorSlots :
    editorRequests[s] # NoGoroutine => RequestInv(editorRequests[s])

(* The invariant, in parts that speak of a window and of the requests.     *)
LEMMA EditorInvIs ==
  EditorInv <=> /\ ConnectionInv /\ EditorTypes /\ RequestsKnown
                /\ editor.open => WindowSound(editor, editorRequests)
  <1>1. \A kinds : SentBefore(kinds) = SentOf(editor, editorRequests, kinds)
    BY DEF SentBefore, SentOf
  <1>2. OneAtATime <=> Single(editor, editorRequests, TagsOf(editor))
    BY <1>1 DEF OneAtATime, Single, MainKinds, TagsOf
  <1>3. BusyForAReason <=>
          (editor.busy /\ isCurrentOperation(editor.connection) =>
             SentOf(editor, editorRequests, MainKinds) # {})
    BY <1>1 DEF BusyForAReason, MainKinds
  <1>4. WindowInv <=>
          /\ editor.window = windowsOpened /\ Snapshot(editor.connection)
          /\ editor.existing \subseteq TagsOf(editor)
          /\ editor.confirmed \subseteq TagsOf(editor)
    BY DEF WindowInv, TagsOf
  <1>5. QED
    BY <1>2, <1>3, <1>4 DEF EditorInv, WindowSound, RequestsKnown

(* The next state satisfies the invariant when it satisfies each part.     *)
LEMMA EditorInvNext ==
  ASSUME ConnectionInv', EditorTypes', RequestsKnown',
         editor'.open => WindowSound(editor, editorRequests)'
  PROVE  EditorInv'
  <1>1. \A kinds : SentBefore(kinds)' = SentOf(editor, editorRequests, kinds)'
    BY DEF SentBefore, SentOf
  <1>2. OneAtATime' <=> Single(editor, editorRequests, TagsOf(editor))'
    BY <1>1 DEF OneAtATime, Single, MainKinds, TagsOf
  <1>3. BusyForAReason' <=>
          (editor'.busy /\ isCurrentOperation(editor.connection)' =>
             SentOf(editor, editorRequests, MainKinds)' # {})
    BY <1>1 DEF BusyForAReason, MainKinds
  <1>4. WindowInv' <=>
          /\ editor'.window = windowsOpened' /\ Snapshot(editor.connection)'
          /\ editor'.existing \subseteq TagsOf(editor)'
          /\ editor'.confirmed \subseteq TagsOf(editor)'
    BY DEF WindowInv, TagsOf
  <1>5. QED
    BY <1>2, <1>3, <1>4 DEF EditorInv, WindowSound, RequestsKnown

(* A goroutine that is there has a kind, and a request that is not has     *)
(* none.                                                                   *)
LEMMA GoroutineKinds ==
  /\ \A r \in Goroutines : r.kind \in MainKinds \cup {"suggest"}
  /\ \A r \in Goroutines : r # NoGoroutine
  /\ NoGoroutine.kind = "none" /\ NoGoroutine \notin Goroutines
  /\ "none" \notin MainKinds /\ "suggest" \notin MainKinds
  <1>1. \A r \in Goroutines : r.kind \in MainKinds \cup {"suggest"}
    BY DEF Goroutines, MainKinds
  <1>2. NoGoroutine.kind = "none"
    BY DEF NoGoroutine
  <1>3. "none" \notin MainKinds /\ "suggest" \notin MainKinds
    BY DEF MainKinds
  <1>4. QED
    BY <1>1, <1>2, <1>3

(* Nothing but suggestions is under way: the buttons may be enabled.       *)
LEMMA SingleNone ==
  ASSUME NEW e, NEW slots, NEW there,
         SentOf(e, slots, MainKinds) = {},
         e.stageEnabled \/ e.commitEnabled => ~e.busy,
         ~e.busy /\ e.label = "loaded" => e.confirmed \subseteq e.existing,
         e.entered \subseteq e.entry \cup there
  PROVE  Single(e, slots, there)
  <1>1. /\ SentOf(e, slots, {"stage"}) = {}
        /\ SentOf(e, slots, {"load"}) = {}
        /\ SentOf(e, slots, {"stage", "commit"}) = {}
    BY DEF SentOf, MainKinds
  <1>2. QED
    BY <1>1 DEF Single

(* A request was begun while none was under way: the editor is disabled.   *)
LEMMA SingleBegun ==
  ASSUME NEW e, NEW slots, NEW there, NEW s \in EditorSlots,
         SentOf(e, slots, MainKinds) = {s},
         e.busy, ~e.stageEnabled, ~e.commitEnabled,
         slots[s].kind = "stage" => slots[s].tags = e.entry,
         slots[s].kind = "load" => slots[s].phase = "sent",
         slots[s].kind # "load" /\ e.label = "loaded" =>
           e.confirmed \subseteq e.existing,
         e.entered \subseteq e.entry \cup there
  PROVE  Single(e, slots, there)
  <1>1. /\ SentOf(e, slots, {"stage"}) \subseteq {s}
        /\ SentOf(e, slots, {"load"}) \subseteq {s}
        /\ SentOf(e, slots, {"stage", "commit"}) \subseteq {s}
        /\ \A q \in SentOf(e, slots, {"stage"}) : slots[q].kind = "stage"
        /\ \A q \in SentOf(e, slots, {"load"}) : slots[q].kind = "load"
        /\ \A q \in SentOf(e, slots, {"stage", "commit"}) :
             slots[q].kind # "load"
    BY DEF SentOf, MainKinds
  <1>2. QED
    BY <1>1 DEF Single

(* The window changes, and one slot with it: what is to be shown of them.  *)
LEMMA WindowStep ==
  ASSUME EditorInv, UNCHANGED <<connectionVars, windowsOpened, daemonTags>>,
         editor.open, NEW e \in Editors, e = editor',
         e.window = editor.window, e.file = editor.file,
         e.connection = editor.connection,
         NEW s \in EditorSlots, NEW r \in Goroutines \cup {NoGoroutine},
         NEW written, written = [editorRequests EXCEPT ![s] = r],
         editorRequests' = written,
         r \in Goroutines =>
           /\ r.window = e.window /\ r.daemon = e.connection.client
           /\ r.file = e.file /\ r.phase = "sent",
         e.existing \subseteq TagsOf(e), e.confirmed \subseteq TagsOf(e),
         e.busy => \/ r.kind \in MainKinds
                   \/ editor.busy /\ editorRequests[s].kind \notin MainKinds,
         e.tappedBusy \/ Single(e, written, TagsOf(e))
  PROVE  EditorInv'
  <1>1. /\ ConnectionInv /\ EditorTypes /\ RequestsKnown
        /\ WindowSound(editor, editorRequests)
    BY EditorInvIs
  <1>2. ConnectionInv' /\ \A c : Snapshot(c) => Snapshot(c)'
    BY <1>1, ConnectionUnchanged
  <1>3. UNCHANGED <<connectionGen, connectAttemptID, client>>
    BY DEF connectionVars
  <1>4. \A x \in EditorSlots :
          editorRequests'[x] = IF x = s THEN r ELSE editorRequests[x]
    BY <1>1 DEF EditorTypes
  <1>5. EditorTypes'
    BY <1>1 DEF EditorTypes
  <1>6. RequestsKnown'
    <2> SUFFICES ASSUME NEW x \in EditorSlots,
                        editorRequests'[x] # NoGoroutine
                 PROVE  RequestInv(editorRequests[x])'
      BY DEF RequestsKnown
    <2>1. CASE x = s
      <3>1. editorRequests'[x] = r /\ r \in Goroutines
        BY <1>4, <2>1
      <3>2. r.window = windowsOpened /\ windowsOpened \in Nat
        BY <1>1, <3>1 DEF WindowSound, EditorTypes
      <3>3. QED
        BY <3>1, <3>2 DEF RequestInv
    <2>2. CASE x # s
      <3>1. editorRequests'[x] = editorRequests[x]
        BY <1>4, <2>2
      <3>2. RequestInv(editorRequests[x])
        BY <1>1, <3>1 DEF RequestsKnown
      <3>3. QED
        BY <3>1, <3>2 DEF RequestInv
    <2>3. QED
      BY <2>1, <2>2
  <1>7. WindowSound(editor, editorRequests)'
    <2>1. TagsOf(editor)' = TagsOf(e)
      BY DEF TagsOf
    <2>2. Snapshot(editor.connection)' /\ editor'.window = windowsOpened'
      BY <1>1, <1>2 DEF WindowSound
    <2>3. editor'.busy /\ isCurrentOperation(editor.connection)' =>
            SentOf(editor, editorRequests, MainKinds)' # {}
      <3> SUFFICES ASSUME e.busy, isCurrentOperation(e.connection)'
                   PROVE  SentOf(e, editorRequests, MainKinds)' # {}
        OBVIOUS
      <3>1. CASE r.kind \in MainKinds
        <4>1. r.window = e.window
          BY <3>1, GoroutineKinds
        <4>2. QED
          BY <1>4, <3>1, <4>1 DEF SentOf
      <3>2. CASE editor.busy /\ editorRequests[s].kind \notin MainKinds
        <4>1. isCurrentOperation(editor.connection)
          BY <1>3 DEF isCurrentOperation
        <4>2. PICK q \in SentOf(editor, editorRequests, MainKinds) : TRUE
          BY <1>1, <3>2, <4>1 DEF WindowSound
        <4>3. q # s /\ q \in EditorSlots
          BY <3>2, <4>2 DEF SentOf
        <4>4. QED
          BY <1>4, <4>2, <4>3 DEF SentOf
      <3>3. QED
        BY <3>1, <3>2
    <2>4. editor'.tappedBusy \/ Single(editor, editorRequests, TagsOf(editor))'
      <3>1. CASE e.tappedBusy
        BY <3>1
      <3>2. CASE Single(e, written, TagsOf(e))
        <4>1. \A kinds : SentOf(editor, editorRequests, kinds)' =
                SentOf(e, written, kinds)
          BY DEF SentOf
        <4>2. QED
          BY <2>1, <3>2, <4>1 DEF Single
      <3>3. QED
        BY <3>1, <3>2
    <2>5. QED
      BY <2>1, <2>2, <2>3, <2>4 DEF WindowSound
  <1>8. QED
    BY <1>2, <1>5, <1>6, <1>7, EditorInvNext

(* What holds of one request under way goes on to hold when one ends.      *)
LEMMA SingleFewer ==
  ASSUME NEW e, NEW slots \in [EditorSlots -> Goroutines \cup {NoGoroutine}],
         NEW there, NEW s \in EditorSlots, Single(e, slots, there),
         NEW fewer, fewer = [slots EXCEPT ![s] = NoGoroutine]
  PROVE  Single(e, fewer, there)
  <1>1. ASSUME NEW kinds \in SUBSET MainKinds
        PROVE  SentOf(e, fewer, kinds) = SentOf(e, slots, kinds) \ {s}
    <2>1. NoGoroutine.kind \notin kinds
      BY GoroutineKinds
    <2>2. QED
      BY <2>1 DEF SentOf
  <1>2. /\ MainKinds \in SUBSET MainKinds /\ {"stage"} \in SUBSET MainKinds
        /\ {"load"} \in SUBSET MainKinds
        /\ {"stage", "commit"} \in SUBSET MainKinds
    BY DEF MainKinds
  <1>3. \A q \in EditorSlots : q # s => fewer[q] = slots[q]
    OBVIOUS
  <1>4. /\ SentOf(e, fewer, MainKinds) = SentOf(e, slots, MainKinds) \ {s}
        /\ SentOf(e, fewer, {"stage"}) = SentOf(e, slots, {"stage"}) \ {s}
        /\ SentOf(e, fewer, {"load"}) = SentOf(e, slots, {"load"}) \ {s}
        /\ SentOf(e, fewer, {"stage", "commit"})
             \subseteq SentOf(e, slots, {"stage", "commit"})
    BY <1>1, <1>2
  <1>5. \A kinds : SentOf(e, slots, kinds) \subseteq EditorSlots
    BY DEF SentOf
  <1>6. QED
    BY <1>3, <1>4, <1>5 DEF Single

(* When the request that disables a window ends, nothing disables it.      *)
LEMMA MainAlone ==
  ASSUME NEW e, NEW slots \in [EditorSlots -> Goroutines \cup {NoGoroutine}],
         NEW there, NEW s \in SentOf(e, slots, MainKinds),
         Single(e, slots, there),
         NEW fewer, fewer = [slots EXCEPT ![s] = NoGoroutine]
  PROVE  SentOf(e, fewer, MainKinds) = {}
  <1>1. s \in EditorSlots /\ NoGoroutine.kind \notin MainKinds
    BY GoroutineKinds DEF SentOf
  <1>2. SentOf(e, fewer, MainKinds) = SentOf(e, slots, MainKinds) \ {s}
    BY <1>1 DEF SentOf
  <1>3. QED
    BY <1>2 DEF Single

(* Freeing a slot and writing it again is writing it.                      *)
LEMMA WrittenTwice ==
  ASSUME NEW slots \in [EditorSlots -> Goroutines \cup {NoGoroutine}],
         NEW s \in EditorSlots, NEW r
  PROVE  [[slots EXCEPT ![s] = NoGoroutine] EXCEPT ![s] = r] =
           [slots EXCEPT ![s] = r]
  OBVIOUS

(* A free slot.                                                            *)
LEMMA FreeSlot ==
  ASSUME EditorTypes, NEW s \in FreeSlots
  PROVE  /\ s \in EditorSlots /\ editorRequests[s] = NoGoroutine
         /\ editorRequests[s].kind \notin MainKinds
         /\ [editorRequests EXCEPT ![s] = NoGoroutine] = editorRequests
  BY GoroutineKinds DEF FreeSlots, EditorTypes

(* The request a window sends.                                             *)
LEMMA RequestShape ==
  ASSUME NEW e \in Editors, NEW kind \in MainKinds \cup {"suggest"},
         NEW tags \in SUBSET EditorTags, NEW r, r = Request(kind, e, tags)
  PROVE  /\ r \in Goroutines /\ r.kind = kind /\ r.tags = tags
         /\ r.window = e.window /\ r.daemon = e.connection.client
         /\ r.file = e.file /\ r.phase = "sent"
  <1>1. /\ e.connection \in Connections /\ e.window \in Nat
        /\ e.file \in EditedFiles
    BY DEF Editors
  <1>2. e.connection.client \in Daemons
    BY <1>1 DEF Connections
  <1>3. kind \in {"load", "stage", "commit", "suggest"}
    BY DEF MainKinds
  <1>4. QED
    BY <1>1, <1>2, <1>3 DEF Request, Goroutines

(* refreshSuggestions at the end of a closure or after the entry changed.  *)
LEMMA SuggestionsStep ==
  ASSUME EditorInv, UNCHANGED <<connectionVars, windowsOpened, daemonTags>>,
         editor.open, NEW e \in Editors, e.window = editor.window,
         e.file = editor.file, e.connection = editor.connection,
         NEW s \in EditorSlots,
         RefreshSuggestions(e, [editorRequests EXCEPT ![s] = NoGoroutine], s),
         e.existing \subseteq TagsOf(e), e.confirmed \subseteq TagsOf(e),
         e.busy => editor.busy /\ editorRequests[s].kind \notin MainKinds,
         \/ e.tappedBusy
         \/ /\ SentOf(e, [editorRequests EXCEPT ![s] = NoGoroutine],
                      MainKinds) = {}
            /\ ~e.busy
            /\ e.label = "loaded" => e.confirmed \subseteq e.existing
            /\ e.entered \subseteq e.entry \cup TagsOf(e)
  PROVE  EditorInv'
  <1> DEFINE freed == [editorRequests EXCEPT ![s] = NoGoroutine]
             asks == Request("suggest", e, e.existing)
  <1>1. editorRequests \in [EditorSlots -> Goroutines \cup {NoGoroutine}]
    BY EditorInvIs DEF EditorTypes
  <1>2. CASE e.prefix = NoTag
    <2>1. PICK new : new = [e EXCEPT !.suggestions = {}]
      OBVIOUS
    <2>2. editor' = new /\ editorRequests' = freed
      BY <1>2, <2>1 DEF RefreshSuggestions
    <2>3. /\ new \in Editors /\ new.window = e.window /\ new.file = e.file
          /\ new.connection = e.connection /\ new.existing = e.existing
          /\ new.confirmed = e.confirmed /\ new.busy = e.busy
          /\ new.tappedBusy = e.tappedBusy /\ new.label = e.label
          /\ new.entered = e.entered /\ new.entry = e.entry
      BY <2>1 DEF Editors
    <2>4. TagsOf(new) = TagsOf(e) /\ SentOf(new, freed, MainKinds) =
                                       SentOf(e, freed, MainKinds)
      BY <2>3 DEF TagsOf, SentOf
    <2>5. new.tappedBusy \/ Single(new, freed, TagsOf(new))
      BY <2>3, <2>4, SingleNone
    <2>6. NoGoroutine \in Goroutines \cup {NoGoroutine}
      OBVIOUS
    <2>7. QED
      BY <2>2, <2>3, <2>4, <2>5, <2>6, GoroutineKinds, WindowStep
  <1>3. CASE e.prefix # NoTag
    <2>1. PICK new : new = [e EXCEPT !.suggestionID = s]
      OBVIOUS
    <2>2. PICK r : r = asks
      OBVIOUS
    <2>3. editor' = new /\ editorRequests' = [editorRequests EXCEPT ![s] = r]
      BY <1>1, <1>3, <2>1, <2>2, WrittenTwice DEF RefreshSuggestions
    <2>4. /\ new \in Editors /\ new.window = e.window /\ new.file = e.file
          /\ new.connection = e.connection /\ new.existing = e.existing
          /\ new.confirmed = e.confirmed /\ new.busy = e.busy
          /\ new.tappedBusy = e.tappedBusy /\ new.label = e.label
          /\ new.entered = e.entered /\ new.entry = e.entry
      BY <2>1 DEF Editors
    <2>5. e.existing \in SUBSET EditorTags
      BY DEF Editors
    <2>6. /\ r \in Goroutines /\ r.kind = "suggest"
          /\ r.window = e.window /\ r.daemon = e.connection.client
          /\ r.file = e.file /\ r.phase = "sent"
      BY <2>2, <2>5, RequestShape
    <2>7. TagsOf(new) = TagsOf(e)
      BY <2>4 DEF TagsOf
    <2> DEFINE written == [editorRequests EXCEPT ![s] = r]
    <2>8. SentOf(new, written, MainKinds) = SentOf(e, freed, MainKinds)
      <3>1. \A kinds, slots :
              SentOf(new, slots, kinds) = SentOf(e, slots, kinds)
        BY <2>4 DEF SentOf
      <3>2. r.kind \notin MainKinds /\ NoGoroutine.kind \notin MainKinds
        BY <2>6, GoroutineKinds
      <3>3. SentOf(e, written, MainKinds) =
              SentOf(e, editorRequests, MainKinds) \ {s}
        BY <1>1, <3>2 DEF SentOf
      <3>4. SentOf(e, freed, MainKinds) =
              SentOf(e, editorRequests, MainKinds) \ {s}
        BY <1>1, <3>2 DEF SentOf
      <3>5. QED
        BY <3>1, <3>3, <3>4
    <2>9. new.tappedBusy \/ Single(new, written, TagsOf(new))
      BY <2>4, <2>7, <2>8, SingleNone
    <2>10. QED
      BY <2>3, <2>4, <2>6, <2>7, <2>9, WindowStep
  <1>4. QED
    BY <1>2, <1>3

(* A request that disables the window is sent: refreshMetadata, and the    *)
(* stage and commit buttons.                                               *)
LEMMA BusyStep ==
  ASSUME EditorInv, UNCHANGED <<connectionVars, windowsOpened, daemonTags>>,
         editor.open, NEW e \in Editors, e.window = editor.window,
         e.file = editor.file, e.connection = editor.connection,
         NEW s \in EditorSlots, NEW kind \in MainKinds,
         NEW tags \in SUBSET EditorTags, editor' = Busy(e),
         editorRequests' =
           [editorRequests EXCEPT ![s] = Request(kind, e, tags)],
         e.existing \subseteq TagsOf(e), e.confirmed \subseteq TagsOf(e),
         NEW freed, freed = [editorRequests EXCEPT ![s] = NoGoroutine],
         \/ e.tappedBusy
         \/ /\ SentOf(e, freed, MainKinds) = {}
            /\ kind = "stage" => tags = e.entry
            /\ kind # "load" /\ e.label = "loaded" =>
                 e.confirmed \subseteq e.existing
            /\ e.entered \subseteq e.entry \cup TagsOf(e)
  PROVE  EditorInv'
  <1>1. editorRequests \in [EditorSlots -> Goroutines \cup {NoGoroutine}]
    BY EditorInvIs DEF EditorTypes
  <1>2. PICK new : new = Busy(e)
    OBVIOUS
  <1>3. PICK r : r = Request(kind, e, tags)
    OBVIOUS
  <1>4. editor' = new /\ editorRequests' = [editorRequests EXCEPT ![s] = r]
    BY <1>2, <1>3
  <1>5. /\ new \in Editors /\ new.window = e.window /\ new.file = e.file
        /\ new.connection = e.connection /\ new.existing = e.existing
        /\ new.confirmed = e.confirmed /\ new.tappedBusy = e.tappedBusy
        /\ new.label = e.label /\ new.entered = e.entered
        /\ new.entry = e.entry /\ new.busy
        /\ ~new.stageEnabled /\ ~new.commitEnabled
    BY <1>2 DEF Editors, Busy
  <1>6. /\ r \in Goroutines /\ r.kind = kind /\ r.tags = tags
        /\ r.window = e.window /\ r.daemon = e.connection.client
        /\ r.file = e.file /\ r.phase = "sent"
    BY <1>3, RequestShape
  <1>7. TagsOf(new) = TagsOf(e)
    BY <1>5 DEF TagsOf
  <1>8. PICK written : written = [editorRequests EXCEPT ![s] = r]
    OBVIOUS
  <1>9. new.tappedBusy \/ Single(new, written, TagsOf(new))
    <2> SUFFICES ASSUME ~e.tappedBusy
                 PROVE  Single(new, written, TagsOf(new))
      BY <1>5
    <2>1. SentOf(new, written, MainKinds) = {s}
      <3>1. SentOf(e, freed, MainKinds) = {}
        OBVIOUS
      <3>2. \A q \in EditorSlots :
              q # s => written[q] = editorRequests[q] /\ freed[q] = written[q]
        BY <1>1, <1>8
      <3>3. \A q \in SentOf(new, written, MainKinds) : q = s
        BY <1>5, <3>1, <3>2 DEF SentOf
      <3>4. written[s] = r
        BY <1>1, <1>8
      <3>5. s \in SentOf(new, written, MainKinds)
        BY <1>5, <1>6, <3>4 DEF SentOf
      <3>6. QED
        BY <3>3, <3>5
    <2>2. written[s] = r
      BY <1>1, <1>8
    <2>3. QED
      BY <1>5, <1>6, <1>7, <2>1, <2>2, SingleBegun
  <1>10. r.kind \in MainKinds
    BY <1>6
  <1>11. /\ new.existing \subseteq TagsOf(new)
         /\ new.confirmed \subseteq TagsOf(new)
    BY <1>5, <1>7
  <1>12. QED
    BY <1>4, <1>5, <1>6, <1>8, <1>9, <1>10, <1>11, WindowStep

(* A request ends and nothing is under way after it.                       *)
LEMMA FreeStep ==
  ASSUME EditorInv, UNCHANGED <<connectionVars, windowsOpened, daemonTags>>,
         editor.open, NEW e \in Editors, e = editor',
         e.window = editor.window,
         e.file = editor.file, e.connection = editor.connection,
         NEW s \in EditorSlots, NEW freed,
         freed = [editorRequests EXCEPT ![s] = NoGoroutine],
         editorRequests' = freed,
         e.existing \subseteq TagsOf(e), e.confirmed \subseteq TagsOf(e),
         e.busy => editor.busy /\ editorRequests[s].kind \notin MainKinds,
         e.tappedBusy \/ Single(e, freed, TagsOf(e))
  PROVE  EditorInv'
  BY GoroutineKinds, WindowStep

(* The windows that are open.                                              *)
LEMMA EditorOpen ==
  ASSUME EditorTypes, editor.open
  PROVE  editor \in Editors
  BY DEF EditorTypes, NoEditor

(* entry.OnChanged.                                                        *)
LEMMA EntryStep ==
  ASSUME EditorInv, UNCHANGED <<connectionVars, windowsOpened, daemonTags>>,
         editor.open, NEW e \in Editors, e.window = editor.window,
         e.file = editor.file, e.connection = editor.connection,
         e.busy = editor.busy, e.label = editor.label,
         e.existing = editor.existing, e.confirmed = editor.confirmed,
         NEW entry \in SUBSET EditorTags,
         NEW prefix \in EditorTags \cup {NoTag}, EntryChanged(e, entry, prefix),
         \/ e.tappedBusy
         \/ /\ ~editor.tappedBusy /\ ~editor.busy
            /\ e.entered \subseteq entry \cup TagsOf(editor)
  PROVE  EditorInv'
  <1>1. EditorTypes /\ WindowSound(editor, editorRequests)
    BY EditorInvIs
  <1>2. PICK new : new = [e EXCEPT !.entry = entry, !.prefix = prefix,
                                   !.stageEnabled = entry # {}]
    OBVIOUS
  <1>3. PICK s \in FreeSlots : RefreshSuggestions(new, editorRequests, s)
    BY <1>2 DEF EntryChanged
  <1>4. /\ s \in EditorSlots /\ editorRequests[s].kind \notin MainKinds
        /\ [editorRequests EXCEPT ![s] = NoGoroutine] = editorRequests
    BY <1>1, FreeSlot
  <1>5. /\ new \in Editors /\ new.window = e.window /\ new.file = e.file
        /\ new.connection = e.connection /\ new.existing = e.existing
        /\ new.confirmed = e.confirmed /\ new.tappedBusy = e.tappedBusy
        /\ new.label = e.label /\ new.entered = e.entered
        /\ new.entry = entry /\ new.busy = e.busy
    BY <1>2 DEF Editors
  <1>6. TagsOf(new) = TagsOf(editor)
    BY <1>5 DEF TagsOf
  <1>7. /\ editor.existing \subseteq TagsOf(editor)
        /\ editor.confirmed \subseteq TagsOf(editor)
    BY <1>1 DEF WindowSound
  <1>8. ~new.tappedBusy =>
          /\ SentOf(new, editorRequests, MainKinds) = {} /\ ~new.busy
          /\ new.label = "loaded" => new.confirmed \subseteq new.existing
          /\ new.entered \subseteq new.entry \cup TagsOf(new)
    <2> SUFFICES ASSUME ~e.tappedBusy
                 PROVE  /\ SentOf(editor, editorRequests, MainKinds) = {}
                        /\ editor.label = "loaded" =>
                             editor.confirmed \subseteq editor.existing
      BY <1>5, <1>6 DEF SentOf
    <2>1. Single(editor, editorRequests, TagsOf(editor)) /\ ~editor.busy
      BY <1>1 DEF WindowSound
    <2>2. QED
      BY <2>1 DEF Single
  <1>9. QED
    BY <1>3, <1>4, <1>5, <1>6, <1>7, <1>8, SuggestionsStep

(* Typing, erasing, and tapping a suggestion.                              *)
LEMMA EntrySteps ==
  ASSUME EditorInv, NEW t \in EditorTags,
         TypeTag(t) \/ EraseTag(t) \/ TapSuggestion(t)
  PROVE  EditorInv'
  <1>1. /\ EditorTypes /\ WindowSound(editor, editorRequests) /\ editor.open
        /\ UNCHANGED <<connectionVars, windowsOpened, daemonTags>>
    BY EditorInvIs DEF TypeTag, EraseTag, TapSuggestion
  <1>2. editor \in Editors
    BY <1>1, EditorOpen
  <1>3. /\ editor.entry \in SUBSET EditorTags
        /\ editor.entered \in SUBSET EditorTags
    BY <1>2 DEF Editors
  <1>4. ~editor.busy /\ ~editor.tappedBusy =>
          editor.entered \subseteq editor.entry \cup TagsOf(editor)
    BY <1>1 DEF WindowSound, Single
  <1>5. CASE TypeTag(t)
    <2>1. PICK e : e = [editor EXCEPT !.entered = @ \cup {t}]
      OBVIOUS
    <2>2. ~editor.busy /\ EntryChanged(e, editor.entry \cup {t}, t)
      BY <1>5, <2>1 DEF TypeTag
    <2>3. /\ e \in Editors /\ e.window = editor.window /\ e.file = editor.file
          /\ e.connection = editor.connection /\ e.busy = editor.busy
          /\ e.label = editor.label /\ e.existing = editor.existing
          /\ e.confirmed = editor.confirmed /\ e.tappedBusy = editor.tappedBusy
          /\ e.entered = editor.entered \cup {t}
      BY <1>2, <1>3, <2>1 DEF Editors
    <2>4. e.tappedBusy \/ /\ ~editor.tappedBusy /\ ~editor.busy
                          /\ e.entered \subseteq (editor.entry \cup {t})
                               \cup TagsOf(editor)
      BY <1>4, <2>2, <2>3
    <2>5. /\ editor.entry \cup {t} \in SUBSET EditorTags
          /\ t \in EditorTags \cup {NoTag}
      BY <1>3
    <2>6. QED
      BY <1>1, <2>2, <2>3, <2>4, <2>5, EntryStep
  <1>6. CASE EraseTag(t)
    <2>1. PICK e : e = [editor EXCEPT !.entered = @ \ {t}]
      OBVIOUS
    <2>2. ~editor.busy /\ EntryChanged(e, editor.entry \ {t}, NoTag)
      BY <1>6, <2>1 DEF EraseTag
    <2>3. /\ e \in Editors /\ e.window = editor.window /\ e.file = editor.file
          /\ e.connection = editor.connection /\ e.busy = editor.busy
          /\ e.label = editor.label /\ e.existing = editor.existing
          /\ e.confirmed = editor.confirmed /\ e.tappedBusy = editor.tappedBusy
          /\ e.entered = editor.entered \ {t}
      BY <1>2, <1>3, <2>1 DEF Editors
    <2>4. e.tappedBusy \/ /\ ~editor.tappedBusy /\ ~editor.busy
                          /\ e.entered \subseteq (editor.entry \ {t})
                               \cup TagsOf(editor)
      BY <1>4, <2>2, <2>3
    <2>5. /\ editor.entry \ {t} \in SUBSET EditorTags
          /\ NoTag \in EditorTags \cup {NoTag}
      BY <1>3
    <2>6. QED
      BY <1>1, <2>2, <2>3, <2>4, <2>5, EntryStep
  <1>7. CASE TapSuggestion(t)
    <2>1. PICK e : e = [editor EXCEPT !.entered = @ \cup {t},
                                      !.tappedBusy = @ \/ editor.busy]
      OBVIOUS
    <2>2. EntryChanged(e, editor.entry \cup {t}, t)
      BY <1>7, <2>1 DEF TapSuggestion
    <2>3. e = [editor EXCEPT !.entered = editor.entered \cup {t},
                             !.tappedBusy = editor.tappedBusy \/ editor.busy]
      BY <2>1
    <2>4. PICK tapped \in BOOLEAN : tapped <=> editor.tappedBusy \/ editor.busy
      OBVIOUS
    <2>5. tapped = (editor.tappedBusy \/ editor.busy)
      BY <1>2, <2>4 DEF Editors
    <2>6. /\ e \in Editors /\ e.window = editor.window /\ e.file = editor.file
          /\ e.connection = editor.connection /\ e.busy = editor.busy
          /\ e.label = editor.label /\ e.existing = editor.existing
          /\ e.confirmed = editor.confirmed /\ e.tappedBusy = tapped
          /\ e.entered = editor.entered \cup {t}
      BY <1>2, <1>3, <2>3, <2>5 DEF Editors
    <2>7. e.tappedBusy \/ /\ ~editor.tappedBusy /\ ~editor.busy
                          /\ e.entered \subseteq (editor.entry \cup {t})
                               \cup TagsOf(editor)
      BY <1>4, <2>4, <2>6
    <2>8. /\ editor.entry \cup {t} \in SUBSET EditorTags
          /\ t \in EditorTags \cup {NoTag}
      BY <1>3
    <2>9. QED
      BY <1>1, <2>2, <2>6, <2>7, <2>8, EntryStep
  <1>8. QED
    BY <1>5, <1>6, <1>7

(* The buttons: only while nothing else is under way.                      *)
LEMMA ButtonSteps ==
  ASSUME EditorInv, StageTapped \/ CommitTapped \/ RefreshTapped
  PROVE  EditorInv'
  <1>1. /\ EditorTypes /\ WindowSound(editor, editorRequests) /\ editor.open
        /\ UNCHANGED <<connectionVars, windowsOpened, daemonTags>>
    BY EditorInvIs DEF StageTapped, CommitTapped, RefreshTapped
  <1>2. editor \in Editors
    BY <1>1, EditorOpen
  <1>3. PICK s \in FreeSlots, kind \in MainKinds, tags \in SUBSET EditorTags :
          /\ editor' = Busy(editor)
          /\ editorRequests' =
               [editorRequests EXCEPT ![s] = Request(kind, editor, tags)]
          /\ kind = "stage" => tags = editor.entry
    <2>1. editor.entry \in SUBSET EditorTags /\ {} \in SUBSET EditorTags
      BY <1>2 DEF Editors
    <2>2. {"load", "stage", "commit"} \subseteq MainKinds
      BY DEF MainKinds
    <2>3. CASE StageTapped
      BY <2>1, <2>2, <2>3 DEF StageTapped
    <2>4. CASE CommitTapped
      BY <2>1, <2>2, <2>4 DEF CommitTapped
    <2>5. CASE RefreshTapped
      BY <2>1, <2>2, <2>5 DEF RefreshTapped, RefreshMetadata
    <2>6. QED
      BY <2>3, <2>4, <2>5
  <1>4. s \in EditorSlots /\ [editorRequests EXCEPT ![s] = NoGoroutine] =
                               editorRequests
    BY <1>1, FreeSlot
  <1>5. /\ editor.existing \subseteq TagsOf(editor)
        /\ editor.confirmed \subseteq TagsOf(editor)
    BY <1>1 DEF WindowSound
  <1>6. ~editor.tappedBusy =>
          /\ SentOf(editor, editorRequests, MainKinds) = {}
          /\ editor.label = "loaded" =>
               editor.confirmed \subseteq editor.existing
          /\ editor.entered \subseteq editor.entry \cup TagsOf(editor)
    <2> SUFFICES ASSUME ~editor.tappedBusy
                 PROVE  /\ SentOf(editor, editorRequests, MainKinds) = {}
                        /\ editor.label = "loaded" =>
                             editor.confirmed \subseteq editor.existing
                        /\ editor.entered \subseteq
                             editor.entry \cup TagsOf(editor)
      OBVIOUS
    <2>1. Single(editor, editorRequests, TagsOf(editor))
      BY <1>1 DEF WindowSound
    <2>2. ~editor.busy
      <3>1. editor.stageEnabled \/ editor.commitEnabled \/ ~editor.busy
        BY DEF StageTapped, CommitTapped, RefreshTapped
      <3>2. QED
        BY <2>1, <3>1 DEF Single
    <2>3. QED
      BY <2>1, <2>2 DEF Single
  <1>7. QED
    BY <1>1, <1>2, <1>3, <1>4, <1>5, <1>6, BusyStep

(* A request is under way in a slot of its own.                            *)
LEMMA SlotUnderWay ==
  ASSUME EditorInv, NEW s \in EditorSlots,
         NEW kind \in MainKinds \cup {"suggest"}, NEW phase,
         Closure(s, kind, phase)
  PROVE  /\ EditorTypes /\ WindowSound(editor, editorRequests)
         /\ editor.open /\ editor \in Editors
         /\ UNCHANGED <<connectionVars, windowsOpened, daemonTags>>
         /\ editorRequests[s] \in Goroutines /\ editorRequests[s].kind = kind
         /\ editorRequests[s].phase = phase /\ RequestInv(editorRequests[s])
         /\ \A kinds : kind \in kinds =>
              s \in SentOf(editor, editorRequests, kinds)
         /\ editorRequests[s].daemon = editor.connection.client
         /\ editorRequests[s].file = editor.file
         /\ editorRequests \in [EditorSlots -> Goroutines \cup {NoGoroutine}]
  <1>1. /\ EditorTypes /\ RequestsKnown
        /\ editor.open => WindowSound(editor, editorRequests)
    BY EditorInvIs
  <1>2. /\ editor.open
        /\ UNCHANGED <<connectionVars, windowsOpened, daemonTags>>
        /\ editorRequests[s].kind = kind /\ editorRequests[s].phase = phase
        /\ editorRequests[s].window = editor.window
    BY DEF Closure, Counts
  <1>3. editor \in Editors
    BY <1>1, <1>2, EditorOpen
  <1>4. editorRequests[s] \in Goroutines /\ editorRequests[s] # NoGoroutine
    <2>1. kind # "none"
      BY DEF MainKinds
    <2>2. QED
      BY <1>1, <1>2, <2>1, GoroutineKinds DEF EditorTypes
  <1>5. RequestInv(editorRequests[s])
    BY <1>1, <1>4 DEF RequestsKnown
  <1>6. /\ editorRequests[s].daemon = editor.connection.client
        /\ editorRequests[s].file = editor.file
    BY <1>2, <1>5 DEF RequestInv
  <1>7. QED
    BY <1>1, <1>2, <1>3, <1>4, <1>5, <1>6 DEF SentOf, EditorTypes

(* The metadata came.                                                      *)
LEMMA MetadataLoadedStep ==
  ASSUME EditorInv, NEW s \in EditorSlots, MetadataLoaded(s)
  PROVE  EditorInv'
  <1>1. Closure(s, "load", "done")
    BY DEF MetadataLoaded
  <1> DEFINE q == editorRequests[s]
  <1>2. /\ EditorTypes /\ WindowSound(editor, editorRequests)
        /\ editor.open /\ editor \in Editors
        /\ UNCHANGED <<connectionVars, windowsOpened, daemonTags>>
        /\ q \in Goroutines /\ q.kind = "load" /\ q.phase = "done"
        /\ RequestInv(q) /\ q.daemon = editor.connection.client
        /\ q.file = editor.file
        /\ s \in SentOf(editor, editorRequests, {"load"})
        /\ s \in SentOf(editor, editorRequests, MainKinds)
        /\ editorRequests \in [EditorSlots -> Goroutines \cup {NoGoroutine}]
    BY <1>1, SlotUnderWay DEF MainKinds
  <1>3. PICK e : e = Released([editor EXCEPT !.existing = q.result,
                                             !.label = "loaded"])
    OBVIOUS
  <1>4. RefreshSuggestions(e, [editorRequests EXCEPT ![s] = NoGoroutine], s)
    BY <1>3 DEF MetadataLoaded, Freed
  <1>5. q.result \subseteq TagsOf(editor) /\ q.result \in SUBSET EditorTags
    BY <1>2 DEF RequestInv, TagsOf, Goroutines
  <1>6. /\ e \in Editors /\ e.window = editor.window /\ e.file = editor.file
        /\ e.connection = editor.connection /\ ~e.busy
        /\ e.existing = q.result /\ e.confirmed = editor.confirmed
        /\ e.tappedBusy = editor.tappedBusy /\ e.entered = editor.entered
        /\ e.entry = editor.entry
    <2>1. PICK new : new = [editor EXCEPT !.existing = q.result,
                                          !.label = "loaded"]
      OBVIOUS
    <2>2. /\ new \in Editors /\ new.window = editor.window
          /\ new.file = editor.file /\ new.connection = editor.connection
          /\ new.existing = q.result /\ new.confirmed = editor.confirmed
          /\ new.tappedBusy = editor.tappedBusy /\ new.entered = editor.entered
          /\ new.entry = editor.entry
      BY <1>2, <1>5, <2>1 DEF Editors
    <2>3. e = [new EXCEPT !.busy = FALSE, !.stageEnabled = new.entry # {},
                          !.commitEnabled = TRUE]
      BY <1>3, <2>1 DEF Released
    <2>4. QED
      BY <2>2, <2>3 DEF Editors
  <1>7. TagsOf(e) = TagsOf(editor) /\ editor.confirmed \subseteq TagsOf(editor)
    BY <1>2, <1>6 DEF TagsOf, WindowSound
  <1>8. PICK freed : freed = [editorRequests EXCEPT ![s] = NoGoroutine]
    OBVIOUS
  <1>9. ~e.tappedBusy =>
          /\ SentOf(e, freed, MainKinds) = {} /\ ~e.busy
          /\ e.label = "loaded" => e.confirmed \subseteq e.existing
          /\ e.entered \subseteq e.entry \cup TagsOf(e)
    <2> SUFFICES ASSUME ~editor.tappedBusy
                 PROVE  /\ SentOf(editor, freed, MainKinds) = {}
                        /\ editor.confirmed \subseteq q.result
                        /\ editor.entered \subseteq
                             editor.entry \cup TagsOf(editor)
      BY <1>6, <1>7 DEF SentOf
    <2>1. Single(editor, editorRequests, TagsOf(editor))
      BY <1>2 DEF WindowSound
    <2>2. SentOf(editor, freed, MainKinds) = {}
      BY <1>2, <1>8, <2>1, MainAlone
    <2>3. QED
      BY <1>2, <2>1, <2>2 DEF Single
  <1>10. QED
    BY <1>2, <1>4, <1>5, <1>6, <1>7, <1>8, <1>9, SuggestionsStep

(* A load, a staging or a commit failed: the window is released, and what  *)
(* it shows holds no more than before.                                     *)
LEMMA FailureSteps ==
  ASSUME EditorInv, NEW s \in EditorSlots,
         MetadataFailed(s) \/ StagingFailed(s) \/ CommitFailed(s)
  PROVE  EditorInv'
  <1>1. PICK kind \in MainKinds : Closure(s, kind, "failed")
    BY DEF MetadataFailed, StagingFailed, CommitFailed, MainKinds
  <1> DEFINE q == editorRequests[s]
  <1>2. /\ EditorTypes /\ WindowSound(editor, editorRequests)
        /\ editor.open /\ editor \in Editors
        /\ UNCHANGED <<connectionVars, windowsOpened, daemonTags>>
        /\ q.kind = kind
        /\ s \in SentOf(editor, editorRequests, MainKinds)
        /\ kind # "load" => s \in SentOf(editor, editorRequests,
                                         {"stage", "commit"})
        /\ editorRequests \in [EditorSlots -> Goroutines \cup {NoGoroutine}]
    <2>1. kind # "load" => kind \in {"stage", "commit"}
      BY DEF MainKinds
    <2>2. QED
      BY <1>1, <2>1, SlotUnderWay
  <1>3. PICK freed : freed = [editorRequests EXCEPT ![s] = NoGoroutine]
    OBVIOUS
  <1>4. editorRequests' = freed
    BY <1>3 DEF MetadataFailed, StagingFailed, CommitFailed, Freed
  <1>5. PICK released : released = Released(editor)
    OBVIOUS
  <1>6. /\ released \in Editors /\ released.window = editor.window
        /\ released.file = editor.file
        /\ released.connection = editor.connection /\ ~released.busy
        /\ released.existing = editor.existing
        /\ released.confirmed = editor.confirmed
        /\ released.tappedBusy = editor.tappedBusy
        /\ released.entered = editor.entered /\ released.entry = editor.entry
        /\ released.label = editor.label
    BY <1>2, <1>5 DEF Editors, Released
  <1>7. /\ editor.existing \subseteq TagsOf(editor)
        /\ editor.confirmed \subseteq TagsOf(editor)
    BY <1>2 DEF WindowSound
  <1>8. PICK e : e = editor'
    OBVIOUS
  <1>9. /\ e \in Editors /\ e.window = editor.window
        /\ e.file = editor.file /\ e.connection = editor.connection
        /\ ~e.busy /\ e.existing \subseteq TagsOf(editor)
        /\ e.confirmed = editor.confirmed
        /\ e.tappedBusy = editor.tappedBusy
        /\ e.entered = editor.entered /\ e.entry = editor.entry
        /\ e.label = "loaded" =>
             /\ kind # "load" /\ editor.label = "loaded"
             /\ e.existing = editor.existing
    <2>1. CASE MetadataFailed(s)
      <3>1. e = [released EXCEPT !.existing = {}, !.label = "failed",
                   !.suggestions = {}, !.commitEnabled = FALSE]
        BY <1>5, <1>8, <2>1 DEF MetadataFailed
      <3>2. QED
        BY <1>6, <3>1 DEF Editors
    <2>2. CASE StagingFailed(s) \/ CommitFailed(s)
      <3>1. e = released
        BY <1>5, <1>8, <2>2 DEF StagingFailed, CommitFailed
      <3>2. kind # "load"
        BY <1>2, <2>2 DEF StagingFailed, CommitFailed, Closure
      <3>3. QED
        BY <1>6, <1>7, <3>1, <3>2
    <2>3. QED
      BY <2>1, <2>2
  <1>10. TagsOf(e) = TagsOf(editor)
    BY <1>9 DEF TagsOf
  <1>11. e.tappedBusy \/ Single(e, freed, TagsOf(e))
    <2> SUFFICES ASSUME ~editor.tappedBusy
                 PROVE  Single(e, freed, TagsOf(e))
      BY <1>9
    <2>1. Single(editor, editorRequests, TagsOf(editor))
      BY <1>2 DEF WindowSound
    <2>2. SentOf(editor, freed, MainKinds) = {}
      BY <1>2, <1>3, <2>1, MainAlone
    <2>3. SentOf(e, freed, MainKinds) = {}
      BY <1>9, <2>2 DEF SentOf
    <2>4. e.label = "loaded" => e.confirmed \subseteq e.existing
      BY <1>2, <1>9, <2>1 DEF Single
    <2>5. e.entered \subseteq e.entry \cup TagsOf(e)
      BY <1>9, <1>10, <2>1 DEF Single
    <2>6. QED
      BY <1>9, <2>3, <2>4, <2>5, SingleNone
  <1>12. QED
    BY <1>2, <1>3, <1>4, <1>7, <1>8, <1>9, <1>10, <1>11, FreeStep

(* The tags are staged, or a commit is done: both load the tags again.     *)
LEMMA ReloadSteps ==
  ASSUME EditorInv, NEW s \in EditorSlots, Staged(s) \/ Committed(s)
  PROVE  EditorInv'
  <1>1. PICK kind \in {"stage", "commit"} : Closure(s, kind, "done")
    BY DEF Staged, Committed
  <1> DEFINE q == editorRequests[s]
  <1>2. /\ EditorTypes /\ WindowSound(editor, editorRequests)
        /\ editor.open /\ editor \in Editors
        /\ UNCHANGED <<connectionVars, windowsOpened, daemonTags>>
        /\ q \in Goroutines /\ q.kind = kind /\ q.phase = "done"
        /\ RequestInv(q) /\ q.daemon = editor.connection.client
        /\ q.file = editor.file
        /\ s \in SentOf(editor, editorRequests, MainKinds)
        /\ kind = "stage" => s \in SentOf(editor, editorRequests, {"stage"})
        /\ editorRequests \in [EditorSlots -> Goroutines \cup {NoGoroutine}]
    BY <1>1, SlotUnderWay DEF MainKinds
  <1>3. PICK freed : freed = [editorRequests EXCEPT ![s] = NoGoroutine]
    OBVIOUS
  <1>4. /\ editor.existing \subseteq TagsOf(editor)
        /\ editor.confirmed \subseteq TagsOf(editor)
        /\ editor.confirmed \in SUBSET EditorTags
    BY <1>2 DEF WindowSound, Editors
  <1>5. ~editor.tappedBusy =>
          /\ SentOf(editor, freed, MainKinds) = {}
          /\ kind = "stage" => q.tags = editor.entry
          /\ editor.entered \subseteq editor.entry \cup TagsOf(editor)
    <2> SUFFICES ASSUME ~editor.tappedBusy
                 PROVE  /\ SentOf(editor, freed, MainKinds) = {}
                        /\ kind = "stage" => q.tags = editor.entry
                        /\ editor.entered \subseteq
                             editor.entry \cup TagsOf(editor)
      OBVIOUS
    <2>1. Single(editor, editorRequests, TagsOf(editor))
      BY <1>2 DEF WindowSound
    <2>2. SentOf(editor, freed, MainKinds) = {}
      BY <1>2, <1>3, <2>1, MainAlone
    <2>3. QED
      BY <1>2, <2>1, <2>2 DEF Single
  <1>6. "load" \in MainKinds /\ {} \in SUBSET EditorTags
    BY DEF MainKinds
  <1>7. CASE Committed(s)
    <2>1. /\ editor' = Busy(editor)
          /\ editorRequests' =
               [editorRequests EXCEPT ![s] = Request("load", editor, {})]
      BY <1>7 DEF Committed, RefreshMetadata
    <2>2. QED
      BY <1>2, <1>3, <1>4, <1>5, <1>6, <2>1, BusyStep
  <1>8. CASE Staged(s)
    <2>1. q.tags \in SUBSET EditorTags /\ kind = "stage"
      BY <1>2, <1>8 DEF Goroutines, Staged, Closure
    <2>2. q.tags \subseteq TagsOf(editor)
      BY <1>2, <2>1 DEF RequestInv, TagsOf
    <2>3. PICK e : e = [editor EXCEPT !.entry = {}, !.prefix = NoTag,
                          !.suggestions = {},
                          !.confirmed = editor.confirmed \cup q.tags]
      OBVIOUS
    <2>4. /\ editor' = Busy(e)
          /\ editorRequests' =
               [editorRequests EXCEPT ![s] = Request("load", e, {})]
      BY <1>8, <2>3 DEF Staged, RefreshMetadata
    <2>5. /\ e \in Editors /\ e.window = editor.window
          /\ e.file = editor.file /\ e.connection = editor.connection
          /\ e.existing = editor.existing
          /\ e.confirmed = editor.confirmed \cup q.tags
          /\ e.tappedBusy = editor.tappedBusy
          /\ e.entered = editor.entered /\ e.entry = {}
      BY <1>2, <1>4, <2>1, <2>3 DEF Editors
    <2>6. TagsOf(e) = TagsOf(editor)
      BY <2>5 DEF TagsOf
    <2>7. SentOf(e, freed, MainKinds) = SentOf(editor, freed, MainKinds)
      BY <2>5 DEF SentOf
    <2>8. e.existing \subseteq TagsOf(e) /\ e.confirmed \subseteq TagsOf(e)
      BY <1>4, <2>2, <2>5, <2>6
    <2>9. ~e.tappedBusy => /\ SentOf(e, freed, MainKinds) = {}
                           /\ e.entered \subseteq e.entry \cup TagsOf(e)
      BY <1>5, <2>1, <2>2, <2>5, <2>6, <2>7
    <2>10. QED
      BY <1>2, <1>3, <1>6, <2>4, <2>5, <2>8, <2>9, BusyStep
  <1>9. QED
    BY <1>7, <1>8

(* The suggestions came, or did not.                                       *)
LEMMA SuggestedStep ==
  ASSUME EditorInv, NEW s \in EditorSlots, Suggested(s)
  PROVE  EditorInv'
  <1>1. PICK phase : Closure(s, "suggest", phase)
    BY DEF Suggested
  <1> DEFINE q == editorRequests[s]
  <1>2. /\ EditorTypes /\ WindowSound(editor, editorRequests)
        /\ editor.open /\ editor \in Editors
        /\ UNCHANGED <<connectionVars, windowsOpened, daemonTags>>
        /\ q \in Goroutines /\ q.kind = "suggest"
        /\ editorRequests \in [EditorSlots -> Goroutines \cup {NoGoroutine}]
    BY <1>1, SlotUnderWay
  <1>3. PICK freed : freed = [editorRequests EXCEPT ![s] = NoGoroutine]
    OBVIOUS
  <1>4. editorRequests' = freed
    BY <1>3 DEF Suggested, Freed
  <1>5. PICK e : e = editor'
    OBVIOUS
  <1>6. e = editor \/ e = [editor EXCEPT !.suggestions = q.result]
    BY <1>5 DEF Suggested
  <1>7. q.result \in SUBSET EditorTags
    BY <1>2 DEF Goroutines
  <1>8. /\ e \in Editors /\ e.window = editor.window
        /\ e.file = editor.file /\ e.connection = editor.connection
        /\ e.busy = editor.busy /\ e.stageEnabled = editor.stageEnabled
        /\ e.commitEnabled = editor.commitEnabled
        /\ e.existing = editor.existing /\ e.confirmed = editor.confirmed
        /\ e.tappedBusy = editor.tappedBusy /\ e.label = editor.label
        /\ e.entered = editor.entered /\ e.entry = editor.entry
    BY <1>2, <1>6, <1>7 DEF Editors
  <1>9. /\ TagsOf(e) = TagsOf(editor)
        /\ editor.existing \subseteq TagsOf(editor)
        /\ editor.confirmed \subseteq TagsOf(editor)
    BY <1>2, <1>8 DEF TagsOf, WindowSound
  <1>10. e.tappedBusy \/ Single(e, freed, TagsOf(e))
    <2>1. editor.tappedBusy \/ Single(editor, freed, TagsOf(editor))
      BY <1>2, <1>3, SingleFewer DEF WindowSound
    <2>2. \A kinds : SentOf(e, freed, kinds) = SentOf(editor, freed, kinds)
      BY <1>8 DEF SentOf
    <2>3. CASE editor.tappedBusy
      BY <1>8, <2>3
    <2>4. CASE Single(editor, freed, TagsOf(editor))
      BY <1>8, <1>9, <2>2, <2>4 DEF Single
    <2>5. QED
      BY <2>1, <2>3, <2>4
  <1>11. e.busy => editor.busy /\ q.kind \notin MainKinds
    BY <1>2, <1>8, GoroutineKinds
  <1>12. QED
    BY <1>2, <1>3, <1>4, <1>5, <1>8, <1>9, <1>10, <1>11, FreeStep

(* The daemon answers, or the request fails: it stays the window's, and    *)
(* what it brought is of the file.                                         *)
LEMMA RequestEnds ==
  ASSUME EditorInv, NEW s \in EditorSlots, RequestHandled(s) \/ RequestLost(s)
  PROVE  EditorInv'
  <1>1. /\ ConnectionInv /\ EditorTypes /\ RequestsKnown
        /\ editor.open => WindowSound(editor, editorRequests)
    BY EditorInvIs
  <1>2. PICK q : q = editorRequests[s]
    OBVIOUS
  <1>3. /\ q \in Goroutines /\ q.phase = "sent" /\ RequestInv(q)
        /\ UNCHANGED <<editor, windowsOpened, connectionVars>>
    <2>1. /\ q.kind # "none" /\ q.phase = "sent"
          /\ UNCHANGED <<editor, windowsOpened, connectionVars>>
      BY <1>2 DEF RequestHandled, RequestLost
    <2>2. q \in Goroutines
      BY <1>1, <1>2, <2>1, GoroutineKinds DEF EditorTypes
    <2>3. RequestInv(q)
      BY <1>1, <1>2, <2>2, GoroutineKinds DEF RequestsKnown
    <2>4. QED
      BY <2>1, <2>2, <2>3
  <1>4. /\ q.daemon \in Daemons /\ q.file \in EditedFiles
        /\ q.tags \in SUBSET EditorTags
    BY <1>3 DEF Goroutines
  <1>5. /\ daemonTags' \in [Daemons -> [EditedFiles -> SUBSET EditorTags]]
        /\ \A d \in Daemons, f \in EditedFiles :
             daemonTags[d][f] \subseteq daemonTags'[d][f]
        /\ RequestHandled(s) /\ q.kind = "stage" =>
             q.tags \subseteq daemonTags'[q.daemon][q.file]
    <2>1. \/ UNCHANGED daemonTags /\ ~(RequestHandled(s) /\ q.kind = "stage")
          \/ daemonTags' = [daemonTags EXCEPT
               ![q.daemon][q.file] = daemonTags[q.daemon][q.file] \cup q.tags]
      <3>1. CASE RequestHandled(s)
        <4>1. daemonTags' = [daemonTags EXCEPT ![q.daemon][q.file] =
                IF q.kind = "stage"
                THEN daemonTags[q.daemon][q.file] \cup q.tags
                ELSE daemonTags[q.daemon][q.file]]
          BY <1>2, <3>1 DEF RequestHandled
        <4>2. q.kind # "stage" => UNCHANGED daemonTags
          BY <1>1, <1>4, <4>1 DEF EditorTypes
        <4>3. QED
          BY <4>1, <4>2
      <3>2. CASE RequestLost(s) /\ ~RequestHandled(s)
        BY <1>2, <3>2 DEF RequestLost
      <3>3. QED
        BY <3>1, <3>2
    <2>2. PICK there : there = daemonTags[q.daemon][q.file] \cup q.tags
      OBVIOUS
    <2>3. there \in SUBSET EditorTags
      BY <1>1, <1>4, <2>2 DEF EditorTypes
    <2>4. CASE UNCHANGED daemonTags /\ ~(RequestHandled(s) /\ q.kind = "stage")
      BY <1>1, <2>4 DEF EditorTypes
    <2>5. CASE daemonTags' = [daemonTags EXCEPT ![q.daemon][q.file] = there]
      BY <1>1, <1>4, <2>2, <2>3, <2>5 DEF EditorTypes
    <2>6. QED
      BY <2>1, <2>2, <2>4, <2>5
  <1>6. PICK r \in Goroutines :
          /\ editorRequests' = [editorRequests EXCEPT ![s] = r]
          /\ r.kind = q.kind /\ r.window = q.window /\ r.daemon = q.daemon
          /\ r.file = q.file /\ r.tags = q.tags
          /\ r.phase = "done" => RequestHandled(s)
          /\ r.phase = "done" /\ q.kind = "load" =>
               r.result = daemonTags[q.daemon][q.file]
    <2> DEFINE Ends(r) ==
          /\ editorRequests' = [editorRequests EXCEPT ![s] = r]
          /\ r.kind = q.kind /\ r.window = q.window /\ r.daemon = q.daemon
          /\ r.file = q.file /\ r.tags = q.tags
          /\ r.phase = "done" => RequestHandled(s)
          /\ r.phase = "done" /\ q.kind = "load" =>
               r.result = daemonTags[q.daemon][q.file]
    <2>1. ASSUME NEW phase \in {"done", "failed"},
                 NEW result \in SUBSET EditorTags, Answer(s, phase, result),
                 phase = "done" => RequestHandled(s),
                 phase = "done" /\ q.kind = "load" =>
                   result = daemonTags[q.daemon][q.file]
          PROVE  \E r \in Goroutines : Ends(r)
      <3>1. PICK r : r = [q EXCEPT !.phase = phase, !.result = result]
        OBVIOUS
      <3>2. /\ r \in Goroutines /\ r.kind = q.kind /\ r.window = q.window
            /\ r.daemon = q.daemon /\ r.file = q.file /\ r.tags = q.tags
            /\ r.phase = phase /\ r.result = result
        BY <1>3, <3>1 DEF Goroutines
      <3>3. editorRequests' = [editorRequests EXCEPT ![s] = r]
        BY <1>2, <2>1, <3>1 DEF Answer
      <3>4. Ends(r)
        BY <2>1, <3>2, <3>3
      <3>5. QED
        BY <3>2, <3>4
    <2>2. CASE RequestLost(s)
      <3>1. Answer(s, "failed", {})
        BY <2>2 DEF RequestLost
      <3>2. {} \in SUBSET EditorTags /\ "failed" \in {"done", "failed"}
        OBVIOUS
      <3>3. QED
        BY <2>1, <3>1, <3>2
    <2>3. CASE RequestHandled(s)
      <3>1. daemonTags[q.daemon][q.file] \in SUBSET EditorTags
        BY <1>1, <1>4 DEF EditorTypes
      <3>2. PICK result \in SUBSET EditorTags :
              /\ Answer(s, "done", result)
              /\ q.kind = "load" => result = daemonTags[q.daemon][q.file]
        <4>1. CASE q.kind = "load"
          BY <1>2, <2>3, <3>1, <4>1 DEF RequestHandled
        <4>2. CASE q.kind \in {"stage", "commit"}
          <5>1. Answer(s, "done", {}) /\ q.kind # "load"
            BY <1>2, <2>3, <4>2 DEF RequestHandled
          <5>2. QED
            BY <5>1
        <4>3. CASE q.kind = "suggest"
          <5>1. PICK found \in {{}, EditorTags} :
                  Answer(s, "done", found \ q.tags)
            BY <1>2, <2>3, <4>3 DEF RequestHandled
          <5>2. found \ q.tags \in SUBSET EditorTags
            OBVIOUS
          <5>3. QED
            BY <4>3, <5>1, <5>2
        <4>4. QED
          BY <1>3, <4>1, <4>2, <4>3 DEF Goroutines
      <3>3. "done" \in {"done", "failed"}
        OBVIOUS
      <3>4. QED
        BY <2>1, <2>3, <3>2, <3>3
    <2>4. QED
      BY <2>2, <2>3
  <1>7. \A x \in EditorSlots :
          editorRequests'[x] = IF x = s THEN r ELSE editorRequests[x]
    BY <1>1, <1>6 DEF EditorTypes
  <1>8. ConnectionInv' /\ \A c : Snapshot(c) => Snapshot(c)'
    BY <1>1, <1>3, ConnectionUnchanged
  <1>9. EditorTypes'
    BY <1>1, <1>3, <1>5, <1>6 DEF EditorTypes
  <1>10. RequestInv(r)'
    BY <1>3, <1>4, <1>5, <1>6 DEF RequestInv
  <1>11. ASSUME NEW x \in EditorSlots, x # s, editorRequests[x] # NoGoroutine
         PROVE  RequestInv(editorRequests[x])'
    <2>1. PICK p : p = editorRequests[x]
      OBVIOUS
    <2>2. p \in Goroutines /\ RequestInv(p) /\ editorRequests'[x] = p
      BY <1>1, <1>7, <1>11, <2>1 DEF RequestsKnown, EditorTypes
    <2>3. p.daemon \in Daemons /\ p.file \in EditedFiles
      BY <2>2 DEF Goroutines
    <2>4. QED
      BY <1>3, <1>5, <2>2, <2>3 DEF RequestInv
  <1>12. RequestsKnown'
    BY <1>6, <1>7, <1>10, <1>11 DEF RequestsKnown
  <1>13. ASSUME editor.open
         PROVE  WindowSound(editor, editorRequests)'
    <2>1. WindowSound(editor, editorRequests) /\ editor \in Editors
      BY <1>1, <1>13, EditorOpen
    <2>2. TagsOf(editor) \subseteq TagsOf(editor)'
      <3>1. editor.connection.client \in Daemons /\ editor.file \in EditedFiles
        BY <2>1 DEF Editors, Connections
      <3>2. QED
        BY <1>3, <1>5, <3>1 DEF TagsOf
    <2>3. \A kinds : SentOf(editor, editorRequests, kinds)' =
                       SentOf(editor, editorRequests, kinds)
      <3>1. \A x \in EditorSlots :
              /\ editorRequests'[x].kind = editorRequests[x].kind
              /\ editorRequests'[x].window = editorRequests[x].window
        BY <1>2, <1>6, <1>7
      <3>2. QED
        BY <1>3, <3>1 DEF SentOf
    <2>4. isCurrentOperation(editor.connection)' =>
            isCurrentOperation(editor.connection)
      BY <1>3 DEF isCurrentOperation, connectionVars
    <2>5. ASSUME Single(editor, editorRequests, TagsOf(editor))
          PROVE  Single(editor, editorRequests, TagsOf(editor))'
      <3>1. \A x \in SentOf(editor, editorRequests, {"stage"}) :
              editorRequests'[x].tags = editor.entry
        <4>1. \A x \in EditorSlots :
                editorRequests'[x].tags = editorRequests[x].tags
          BY <1>2, <1>6, <1>7
        <4>2. QED
          BY <2>5, <4>1 DEF Single, SentOf
      <3>2. \A x \in SentOf(editor, editorRequests, {"load"}) :
              editorRequests'[x].phase = "done" =>
                editor.confirmed \subseteq editorRequests'[x].result
        <4> SUFFICES ASSUME NEW x \in SentOf(editor, editorRequests, {"load"}),
                            editorRequests'[x].phase = "done"
                     PROVE  editor.confirmed \subseteq editorRequests'[x].result
          OBVIOUS
        <4>1. x \in EditorSlots /\ editorRequests[x].kind = "load"
              /\ editorRequests[x].window = editor.window
          BY DEF SentOf
        <4>2. CASE x # s
          BY <1>7, <2>5, <4>1, <4>2 DEF Single
        <4>3. CASE x = s
          <5>1. q.daemon = editor.connection.client /\ q.file = editor.file
            BY <1>2, <1>3, <1>13, <4>1, <4>3 DEF RequestInv
          <5>2. editorRequests'[x].result = TagsOf(editor)
            BY <1>2, <1>6, <1>7, <4>1, <4>3, <5>1 DEF TagsOf
          <5>3. QED
            BY <2>1, <5>2 DEF WindowSound
        <4>4. QED
          BY <4>2, <4>3
      <3>3. QED
        BY <1>3, <2>2, <2>3, <2>5, <3>1, <3>2 DEF Single
    <2>6. /\ editor.window = windowsOpened /\ Snapshot(editor.connection)
          /\ editor.existing \subseteq TagsOf(editor)
          /\ editor.confirmed \subseteq TagsOf(editor)
          /\ editor.busy /\ isCurrentOperation(editor.connection) =>
               SentOf(editor, editorRequests, MainKinds) # {}
          /\ editor.tappedBusy \/ Single(editor, editorRequests, TagsOf(editor))
      BY <2>1 DEF WindowSound
    <2>7. /\ editor'.window = windowsOpened' /\ Snapshot(editor.connection)'
          /\ editor'.existing \subseteq TagsOf(editor)'
          /\ editor'.confirmed \subseteq TagsOf(editor)'
      BY <1>3, <1>8, <2>2, <2>6
    <2>8. editor'.busy /\ isCurrentOperation(editor.connection)' =>
            SentOf(editor, editorRequests, MainKinds)' # {}
      BY <1>3, <2>3, <2>4, <2>6
    <2>9. editor'.tappedBusy \/ Single(editor, editorRequests, TagsOf(editor))'
      BY <1>3, <2>5, <2>6
    <2>10. QED
      BY <2>7, <2>8, <2>9 DEF WindowSound
  <1>14. QED
    BY <1>3, <1>8, <1>9, <1>12, <1>13, EditorInvNext

(* An answer that no longer counts: the window stays as it is, and what it *)
(* waits for is another request, or is of a connection that is outdated.   *)
LEMMA DroppedStep ==
  ASSUME EditorInv, NEW s \in EditorSlots, Dropped(s)
  PROVE  EditorInv'
  <1>1. /\ ConnectionInv /\ EditorTypes /\ RequestsKnown
        /\ editor.open => WindowSound(editor, editorRequests)
    BY EditorInvIs
  <1>2. PICK freed : freed = [editorRequests EXCEPT ![s] = NoGoroutine]
    OBVIOUS
  <1>3. /\ editorRequests' = freed /\ ~Counts(s)
        /\ UNCHANGED <<editor, windowsOpened, daemonTags, connectionVars>>
    BY <1>2 DEF Dropped, Freed
  <1>4. ConnectionInv' /\ \A c : Snapshot(c) => Snapshot(c)'
    BY <1>1, <1>3, ConnectionUnchanged
  <1>5. EditorTypes' /\ \A x \in EditorSlots :
          editorRequests'[x] = IF x = s THEN NoGoroutine ELSE editorRequests[x]
    BY <1>1, <1>2, <1>3 DEF EditorTypes
  <1>6. RequestsKnown'
    BY <1>1, <1>3, <1>5 DEF RequestsKnown, RequestInv
  <1>7. ASSUME editor.open
        PROVE  WindowSound(editor, editorRequests)'
    <2>1. /\ editor.window = windowsOpened /\ Snapshot(editor.connection)
          /\ editor.existing \subseteq TagsOf(editor)
          /\ editor.confirmed \subseteq TagsOf(editor)
          /\ editor.busy /\ isCurrentOperation(editor.connection) =>
               SentOf(editor, editorRequests, MainKinds) # {}
          /\ editor.tappedBusy \/ Single(editor, editorRequests, TagsOf(editor))
      BY <1>1, <1>7 DEF WindowSound
    <2>2. /\ editor'.window = windowsOpened' /\ Snapshot(editor.connection)'
          /\ editor'.existing \subseteq TagsOf(editor)'
          /\ editor'.confirmed \subseteq TagsOf(editor)'
      BY <1>3, <1>4, <2>1 DEF TagsOf
    <2>3. editor'.busy /\ isCurrentOperation(editor.connection)' =>
            SentOf(editor, editorRequests, MainKinds)' # {}
      <3> SUFFICES ASSUME editor.busy, isCurrentOperation(editor.connection)'
                   PROVE  SentOf(editor, editorRequests, MainKinds)' # {}
        BY <1>3
      <3>1. isCurrentOperation(editor.connection)
        BY <1>3 DEF isCurrentOperation, connectionVars
      <3>2. PICK q \in SentOf(editor, editorRequests, MainKinds) : TRUE
        BY <2>1, <3>1
      <3>3. /\ q \in EditorSlots /\ editorRequests[q].kind \in MainKinds
            /\ editorRequests[q].window = editor.window
        BY DEF SentOf
      <3>4. q # s
        BY <1>3, <1>7, <3>1, <3>3 DEF Counts, MainKinds
      <3>5. QED
        BY <1>3, <1>5, <3>3, <3>4 DEF SentOf
    <2>4. editor'.tappedBusy \/ Single(editor, editorRequests, TagsOf(editor))'
      <3>1. CASE editor.tappedBusy
        BY <1>3, <3>1
      <3>2. CASE Single(editor, editorRequests, TagsOf(editor))
        <4>1. editorRequests \in [EditorSlots -> Goroutines \cup {NoGoroutine}]
          BY <1>1 DEF EditorTypes
        <4>2. Single(editor, freed, TagsOf(editor))
          BY <1>2, <3>2, <4>1, SingleFewer
        <4>3. TagsOf(editor)' = TagsOf(editor)
          BY <1>3 DEF TagsOf
        <4>4. \A kinds : SentOf(editor, editorRequests, kinds)' =
                           SentOf(editor, freed, kinds)
          BY <1>3 DEF SentOf
        <4>5. QED
          BY <1>3, <4>2, <4>3, <4>4 DEF Single
      <3>3. QED
        BY <2>1, <3>1, <3>2
    <2>5. QED
      BY <2>2, <2>3, <2>4 DEF WindowSound
  <1>8. QED
    BY <1>3, <1>4, <1>5, <1>6, <1>7, EditorInvNext

(* showEditTagsDialog: no request is of the new window but its first one.  *)
LEMMA OpenStep ==
  ASSUME EditorInv, NEW f \in EditedFiles, ShowEditTagsDialog(f)
  PROVE  EditorInv'
  <1>1. ConnectionInv /\ EditorTypes /\ RequestsKnown
    BY EditorInvIs
  <1>2. /\ Online /\ windowsOpened' = windowsOpened + 1
        /\ UNCHANGED <<daemonTags, connectionVars>>
    BY DEF ShowEditTagsDialog
  <1>3. PICK s \in FreeSlots :
          RefreshMetadata(
            [open |-> TRUE, window |-> windowsOpened + 1, file |-> f,
             connection |-> currentConnection, busy |-> FALSE,
             stageEnabled |-> FALSE, commitEnabled |-> FALSE,
             entry |-> {}, prefix |-> NoTag, suggestions |-> {},
             suggestionID |-> s, existing |-> {}, label |-> "loading",
             entered |-> {}, confirmed |-> {}, tappedBusy |-> FALSE], s)
    BY DEF ShowEditTagsDialog
  <1>4. s \in EditorSlots /\ editorRequests[s] = NoGoroutine
    BY <1>1, FreeSlot
  <1>5. PICK new :
          new = [open |-> TRUE, window |-> windowsOpened + 1, file |-> f,
                 connection |-> currentConnection, busy |-> FALSE,
                 stageEnabled |-> FALSE, commitEnabled |-> FALSE,
                 entry |-> {}, prefix |-> NoTag, suggestions |-> {},
                 suggestionID |-> s, existing |-> {}, label |-> "loading",
                 entered |-> {}, confirmed |-> {}, tappedBusy |-> FALSE]
    OBVIOUS
  <1>6. /\ Snapshot(currentConnection) /\ currentConnection \in Connections
        /\ windowsOpened \in Nat /\ windowsOpened + 1 \in Nat
    BY <1>1, <1>2, SnapshotTaken DEF Online, Snapshot, EditorTypes
  <1>7. new \in Editors
    BY <1>4, <1>5, <1>6 DEF Editors
  <1>8. PICK e : e = Busy(new)
    OBVIOUS
  <1>9. PICK r : r = Request("load", new, {})
    OBVIOUS
  <1>10. editor' = e /\ editorRequests' = [editorRequests EXCEPT ![s] = r]
    BY <1>3, <1>5, <1>8, <1>9 DEF RefreshMetadata
  <1>11. /\ e \in Editors /\ e.window = windowsOpened + 1 /\ e.file = f
         /\ e.connection = currentConnection /\ e.busy /\ e.existing = {}
         /\ e.confirmed = {} /\ e.entered = {} /\ e.label = "loading"
         /\ ~e.stageEnabled /\ ~e.commitEnabled
    <2>1. /\ new.window = windowsOpened + 1 /\ new.file = f
          /\ new.connection = currentConnection /\ new.existing = {}
          /\ new.confirmed = {} /\ new.entered = {} /\ new.label = "loading"
      BY <1>5
    <2>2. QED
      BY <1>7, <1>8, <2>1 DEF Editors, Busy
  <1>12. /\ r \in Goroutines /\ r.kind = "load" /\ r.window = e.window
         /\ r.daemon = e.connection.client /\ r.file = e.file
         /\ r.phase = "sent"
    <2>1. new.window = e.window /\ new.file = e.file
          /\ new.connection = e.connection
      BY <1>5, <1>11
    <2>2. "load" \in MainKinds \cup {"suggest"} /\ {} \in SUBSET EditorTags
      BY DEF MainKinds
    <2>3. /\ r \in Goroutines /\ r.kind = "load" /\ r.window = new.window
          /\ r.daemon = new.connection.client /\ r.file = new.file
          /\ r.phase = "sent"
      BY <1>7, <1>9, <2>2, RequestShape
    <2>4. QED
      BY <2>1, <2>3
  <1>13. \A x \in EditorSlots :
           editorRequests'[x] = IF x = s THEN r ELSE editorRequests[x]
    BY <1>1, <1>10 DEF EditorTypes
  <1>14. ConnectionInv' /\ \A c : Snapshot(c) => Snapshot(c)'
    BY <1>1, <1>2, ConnectionUnchanged
  <1>15. EditorTypes'
    BY <1>1, <1>2, <1>6, <1>10, <1>11, <1>12 DEF EditorTypes
  <1>16. \A x \in EditorSlots :
           editorRequests[x] # NoGoroutine =>
             /\ editorRequests[x] \in Goroutines
             /\ editorRequests[x].window \in Nat
             /\ editorRequests[x].window <= windowsOpened
    BY <1>1 DEF RequestsKnown, RequestInv, EditorTypes, Goroutines
  <1>17. RequestsKnown'
    <2>1. RequestInv(r)'
      BY <1>2, <1>6, <1>10, <1>11, <1>12 DEF RequestInv
    <2>2. ASSUME NEW x \in EditorSlots, x # s, editorRequests[x] # NoGoroutine
          PROVE  RequestInv(editorRequests[x])'
      <3>1. PICK p : p = editorRequests[x]
        OBVIOUS
      <3>2. /\ RequestInv(p) /\ editorRequests'[x] = p /\ p.window \in Nat
            /\ p.window <= windowsOpened
        BY <1>1, <1>13, <1>16, <2>2, <3>1 DEF RequestsKnown
      <3>3. p.window # editor'.window /\ p.window <= windowsOpened'
        BY <1>2, <1>6, <1>10, <1>11, <3>2
      <3>4. QED
        BY <1>2, <3>2, <3>3 DEF RequestInv
    <2>3. QED
      BY <1>12, <1>13, <2>1, <2>2 DEF RequestsKnown
  <1>18. SentOf(editor, editorRequests, MainKinds)' = {s}
    <2>1. "load" \in MainKinds
      BY DEF MainKinds
    <2>2. s \in SentOf(editor, editorRequests, MainKinds)'
      BY <1>4, <1>10, <1>12, <1>13, <2>1 DEF SentOf
    <2>3. ASSUME NEW x \in SentOf(editor, editorRequests, MainKinds)', x # s
          PROVE  FALSE
      <3>1. /\ x \in EditorSlots /\ editorRequests[x].kind \in MainKinds
            /\ editorRequests[x].window = windowsOpened + 1
        BY <1>10, <1>11, <1>13, <2>3 DEF SentOf
      <3>2. editorRequests[x] # NoGoroutine
        BY <3>1, GoroutineKinds
      <3>3. QED
        BY <1>6, <1>16, <3>1, <3>2
    <2>4. QED
      BY <2>2, <2>3
  <1>19. WindowSound(editor, editorRequests)'
    <2>1. PICK slots, there : /\ slots = editorRequests'
                                 /\ there = TagsOf(editor)'
      OBVIOUS
    <2>2. SentOf(e, slots, MainKinds) = {s} /\ slots[s] = r
      BY <1>4, <1>10, <1>13, <1>18, <2>1 DEF SentOf
    <2>3. Single(e, slots, there)
      BY <1>4, <1>11, <1>12, <2>2, SingleBegun
    <2>4. Single(editor, editorRequests, TagsOf(editor))'
      BY <1>10, <2>1, <2>3 DEF Single, SentOf
    <2>5. /\ editor'.window = windowsOpened' /\ Snapshot(editor.connection)'
          /\ editor'.existing \subseteq TagsOf(editor)'
          /\ editor'.confirmed \subseteq TagsOf(editor)'
      BY <1>2, <1>6, <1>10, <1>11, <1>14
    <2>6. QED
      BY <1>18, <2>4, <2>5 DEF WindowSound
  <1>20. QED
    BY <1>14, <1>15, <1>17, <1>19, EditorInvNext

(* The window is closed.                                                   *)
LEMMA CloseStep == EditorInv /\ CloseEditor => EditorInv'
  <1> SUFFICES ASSUME EditorInv, CloseEditor
               PROVE  EditorInv'
    OBVIOUS
  <1>1. /\ ConnectionInv /\ EditorTypes /\ RequestsKnown
        /\ editor' = NoEditor /\ ~editor'.open
        /\ UNCHANGED <<windowsOpened, editorRequests, daemonTags,
                       connectionVars>>
    BY EditorInvIs DEF CloseEditor, NoEditor
  <1>2. ConnectionInv'
    BY <1>1, ConnectionUnchanged
  <1>3. EditorTypes' /\ RequestsKnown'
    BY <1>1 DEF EditorTypes, RequestsKnown, RequestInv
  <1>4. QED
    BY <1>1, <1>2, <1>3, EditorInvNext

(* The editor is as it was, and its connection has not come back.          *)
LEMMA EditorKept ==
  ASSUME EditorInv, UNCHANGED editorVars, ConnectionInv',
         \A c : /\ Snapshot(c) => Snapshot(c)'
                /\ Snapshot(c) /\ isCurrentOperation(c)' =>
                     isCurrentOperation(c)
  PROVE  EditorInv'
  <1>1. /\ EditorTypes /\ RequestsKnown
        /\ editor.open => WindowSound(editor, editorRequests)
    BY EditorInvIs
  <1>2. UNCHANGED <<editor, windowsOpened, editorRequests, daemonTags>>
    BY DEF editorVars
  <1>3. EditorTypes' /\ RequestsKnown'
    BY <1>1, <1>2 DEF EditorTypes, RequestsKnown, RequestInv
  <1>4. ASSUME editor.open
        PROVE  WindowSound(editor, editorRequests)'
    <2>1. WindowSound(editor, editorRequests)
      BY <1>1, <1>4
    <2>2. Single(editor, editorRequests, TagsOf(editor)) =>
            Single(editor, editorRequests, TagsOf(editor))'
      BY <1>2 DEF Single, SentOf, TagsOf
    <2>3. /\ TagsOf(editor)' = TagsOf(editor)
          /\ SentOf(editor, editorRequests, MainKinds)' =
               SentOf(editor, editorRequests, MainKinds)
      BY <1>2 DEF SentOf, TagsOf
    <2>4. QED
      BY <1>2, <2>1, <2>2, <2>3 DEF WindowSound
  <1>5. QED
    BY <1>2, <1>3, <1>4, EditorInvNext

(* A connect attempt goes on.                                              *)
LEMMA EditorConnectsStep == EditorInv /\ EditorConnects => EditorInv'
  <1> SUFFICES ASSUME EditorInv, EditorConnects
               PROVE  EditorInv'
    OBVIOUS
  <1>1. ConnectionInv /\ UNCHANGED editorVars
    BY EditorInvIs DEF EditorConnects
  <1>2. ASSUME NEW d \in Daemons, BeginConnectAttempt(d)
        PROVE  EditorInv'
    BY <1>1, <1>2, AttemptBegins, EditorKept
  <1>3. ASSUME NEW a \in AttemptIDs,
               AttemptRequests(a) \/ RestoreConnectedState(a)
        PROVE  EditorInv'
    <2>1. /\ ConnectionInv' /\ \A c : Snapshot(c) => Snapshot(c)'
          /\ UNCHANGED <<client, connectionGen, connectAttemptID>>
      BY <1>1, <1>3, AttemptMoves
    <2>2. \A c : isCurrentOperation(c)' => isCurrentOperation(c)
      BY <2>1 DEF isCurrentOperation
    <2>3. QED
      BY <1>1, <2>1, <2>2, EditorKept
  <1>4. ASSUME NEW a \in AttemptIDs, InstallConnection(a)
        PROVE  EditorInv'
    <2>1. PICK new : new = [client |-> attempts[a].daemon,
                            generation |-> connectionGen + 1,
                            attemptID |-> connectAttemptID]
      OBVIOUS
    <2>2. /\ ConnectionInv'
          /\ \A c : Snapshot(c) => Snapshot(c)' /\ ~isCurrentOperation(c)'
      BY <1>1, <1>4, <2>1, ConnectionInstalled
    <2>3. QED
      BY <1>1, <2>2, EditorKept
  <1>5. QED
    BY <1>2, <1>3, <1>4 DEF EditorConnects

(* No window, no request.                                                  *)
LEMMA EditorInitial == ConnectionInit /\ EditorInit => EditorInv
  <1> SUFFICES ASSUME ConnectionInit, EditorInit
               PROVE  EditorInv
    OBVIOUS
  <1>1. ConnectionInv
    BY ConnectionInitial
  <1>2. EditorTypes
    BY DEF EditorInit, EditorTypes
  <1>3. RequestsKnown
    BY DEF EditorInit, RequestsKnown
  <1>4. ~editor.open
    BY DEF EditorInit, NoEditor
  <1>5. QED
    BY <1>1, <1>2, <1>3, <1>4, EditorInvIs

(* However requests, answers, failures, windows and connect attempts       *)
(* overlap: what an answer brings is of the window's file, one request     *)
(* besides suggestions is under way at a time unless a suggestion was      *)
(* tapped meanwhile, and a disabled window waits for a request.            *)
THEOREM EditorInvariant == EditorSpec => []EditorInv
  <1>1. ConnectionInit /\ EditorInit => EditorInv
    BY EditorInitial
  <1>2. EditorInv /\ [EditorNext]_<<connectionVars, editorVars>> => EditorInv'
    <2> SUFFICES ASSUME EditorInv, [EditorNext]_<<connectionVars, editorVars>>
                 PROVE  EditorInv'
      OBVIOUS
    <2>1. CASE UserEdits
      <3>1. ASSUME NEW f \in EditedFiles, ShowEditTagsDialog(f)
            PROVE  EditorInv'
        BY <3>1, OpenStep
      <3>2. ASSUME NEW t \in EditorTags,
                   TypeTag(t) \/ EraseTag(t) \/ TapSuggestion(t)
            PROVE  EditorInv'
        BY <3>2, EntrySteps
      <3>3. CASE CloseEditor
        BY <3>3, CloseStep
      <3>4. CASE StageTapped \/ CommitTapped \/ RefreshTapped
        BY <3>4, ButtonSteps
      <3>5. QED
        BY <2>1, <3>1, <3>2, <3>3, <3>4 DEF UserEdits
    <2>2. ASSUME NEW s \in EditorSlots, EditorStep(s)
          PROVE  EditorInv'
      <3>1. CASE RequestHandled(s) \/ RequestLost(s)
        BY <3>1, RequestEnds
      <3>2. CASE Dropped(s)
        BY <3>2, DroppedStep
      <3>3. CASE MetadataLoaded(s)
        BY <3>3, MetadataLoadedStep
      <3>4. CASE MetadataFailed(s) \/ StagingFailed(s) \/ CommitFailed(s)
        BY <3>4, FailureSteps
      <3>5. CASE Staged(s) \/ Committed(s)
        BY <3>5, ReloadSteps
      <3>6. CASE Suggested(s)
        BY <3>6, SuggestedStep
      <3>7. QED
        BY <2>2, <3>1, <3>2, <3>3, <3>4, <3>5, <3>6 DEF EditorStep
    <2>3. CASE EditorConnects
      BY <2>3, EditorConnectsStep
    <2>4. CASE UNCHANGED <<connectionVars, editorVars>>
      <3>1. ConnectionInv
        BY EditorInvIs
      <3>2. /\ ConnectionInv' /\ \A c : Snapshot(c) => Snapshot(c)'
            /\ UNCHANGED editorVars
        BY <2>4, <3>1, ConnectionUnchanged
      <3>3. \A c : isCurrentOperation(c)' => isCurrentOperation(c)
        BY <2>4 DEF isCurrentOperation, connectionVars
      <3>4. QED
        BY <3>2, <3>3, EditorKept
    <2>5. QED
      BY <2>1, <2>2, <2>3, <2>4 DEF EditorNext
  <1>3. QED
    BY <1>1, <1>2, PTL DEF EditorSpec

(* What the user enters into the tag editor is in the entry or at the      *)
(* daemon, the tags shown are the file's and include what was staged, and  *)
(* a disabled editor waits for an answer: for every number of files, tags, *)
(* windows and requests, and every interleaving.                           *)
THEOREM EditorKeepsTags == EditorSpec => []EditorSound
  <1>1. EditorInv => EditorSound
    <2> SUFFICES ASSUME EditorInv, editor.open
                 PROVE  /\ editor.tappedBusy \/ (NothingEnteredLost /\
                                                 ShowsWhatWasStaged)
                        /\ BusyForAReason
      BY DEF EditorSound
    <2>1. /\ WindowInv /\ BusyForAReason /\ (editor.tappedBusy \/ OneAtATime)
      BY DEF EditorInv
    <2>2. OneAtATime => NothingEnteredLost
      BY DEF OneAtATime, NothingEnteredLost
    <2>3. WindowInv /\ OneAtATime => ShowsWhatWasStaged
      BY DEF WindowInv, OneAtATime, ShowsWhatWasStaged
    <2>4. QED
      BY <2>1, <2>2, <2>3
  <1>2. QED
    BY <1>1, EditorInvariant, PTL

----------------------------------------------------------------------------
(***************************************************************************)
(* The search tabs.  Tabs and rows differ by the requests under way, from  *)
(* the end of a load on (EditedInv); during one nothing else may be under  *)
(* way, or the load is crossed (ListedInv).                                *)
(***************************************************************************)

(* InOrder lists every member of a finite set of numbers once: the number  *)
(* of members up to n is its place.                                        *)
LEMMA InOrderLists ==
  ASSUME NEW S \in SUBSET Nat, IsFiniteSet(S)
  PROVE  /\ InOrder(S) \in [1..Cardinality(S) -> S]
         /\ Cardinality(S) \in Nat
         /\ \A i, j \in 1..Cardinality(S) :
              InOrder(S)[i] = InOrder(S)[j] => i = j
         /\ \A n \in S : \E k \in 1..Cardinality(S) : InOrder(S)[k] = n
  <1> DEFINE upTo(n) == {m \in S : m <= n}
             c == Cardinality(S)
             rank == [n \in S |-> Cardinality(upTo(n))]
  <1>1. c \in Nat
    BY FS_CardinalityType
  <1>2. ASSUME NEW n \in S
        PROVE  IsFiniteSet(upTo(n)) /\ Cardinality(upTo(n)) \in 1..c
    <2>1. upTo(n) \in SUBSET S /\ n \in upTo(n)
      OBVIOUS
    <2>2. IsFiniteSet(upTo(n)) /\ Cardinality(upTo(n)) <= c
      BY <2>1, FS_Subset
    <2>3. Cardinality(upTo(n)) \in Nat
      BY <2>2, FS_CardinalityType
    <2>4. Cardinality(upTo(n)) # 0
      BY <2>1, <2>2, FS_EmptySet
    <2>5. QED
      BY <1>1, <2>2, <2>3, <2>4
  <1>3. ASSUME NEW m \in S, NEW n \in S, m < n
        PROVE  Cardinality(upTo(m)) < Cardinality(upTo(n))
    <2>1. upTo(m) \in SUBSET upTo(n) /\ n \in upTo(n) /\ n \notin upTo(m)
      <3>1. m \in Nat /\ n \in Nat
        OBVIOUS
      <3>2. \A k \in S : k \in Nat /\ (k <= m => k <= n)
        BY <1>3, <3>1
      <3>3. n <= n /\ ~(n <= m)
        BY <1>3, <3>1
      <3>4. QED
        BY <3>2, <3>3
    <2>2. /\ Cardinality(upTo(m)) <= Cardinality(upTo(n))
          /\ Cardinality(upTo(n)) = Cardinality(upTo(m)) => upTo(n) = upTo(m)
      BY <1>2, <2>1, FS_Subset
    <2>3. Cardinality(upTo(m)) \in 1..c /\ Cardinality(upTo(n)) \in 1..c
      BY <1>2
    <2>4. QED
      BY <1>1, <2>1, <2>2, <2>3
  <1>4. rank \in Injection(S, 1..c)
    <2>1. rank \in [S -> 1..c]
      BY <1>2
    <2>2. ASSUME NEW m \in S, NEW n \in S, rank[m] = rank[n]
          PROVE  m = n
      <3>1. Cardinality(upTo(m)) = Cardinality(upTo(n))
        BY <2>2
      <3>2. Cardinality(upTo(m)) \in 1..c /\ Cardinality(upTo(n)) \in 1..c
        BY <1>2
      <3> HIDE DEF upTo, c
      <3>3. ~(m < n) /\ ~(n < m)
        BY <1>1, <1>3, <3>1, <3>2
      <3>4. QED
        BY <3>3
    <2>3. QED
      BY <2>1, <2>2 DEF Injection, IsInjective
  <1>5. IsFiniteSet(1..c) /\ Cardinality(1..c) = c
    <2>1. /\ IsFiniteSet(1..c)
          /\ Cardinality(1..c) = IF 1 > c THEN 0 ELSE c - 1 + 1
      BY <1>1, FS_Interval
    <2>2. QED
      BY <1>1, <2>1
  <1> HIDE DEF rank, upTo
  <1>6. rank \in Surjection(S, 1..c)
    BY <1>4, <1>5, FS_Injection
  <1>7. ASSUME NEW k \in 1..c
        PROVE  /\ InOrder(S)[k] \in S
               /\ Cardinality(upTo(InOrder(S)[k])) = k
    <2>1. \E n \in S : Cardinality(upTo(n)) = k
      BY <1>6 DEF Surjection, rank
    <2>2. InOrder(S)[k] = CHOOSE n \in S : Cardinality(upTo(n)) = k
      BY DEF InOrder, upTo
    <2>3. QED
      BY <2>1, <2>2
  <1>8. InOrder(S) \in [1..c -> S]
    BY <1>7 DEF InOrder
  <1>9. \A i, j \in 1..c : InOrder(S)[i] = InOrder(S)[j] => i = j
    BY <1>7
  <1>10. ASSUME NEW n \in S
         PROVE  \E k \in 1..c : InOrder(S)[k] = n
    <2>1. /\ Cardinality(upTo(n)) \in 1..c
          /\ InOrder(S)[Cardinality(upTo(n))] \in S
          /\ Cardinality(upTo(InOrder(S)[Cardinality(upTo(n))]))
               = Cardinality(upTo(n))
      BY <1>2, <1>7
    <2>2. InOrder(S)[Cardinality(upTo(n))] = n
      BY <1>4, <2>1 DEF Injection, IsInjective, rank
    <2>3. QED
      BY <2>1, <2>2
  <1>11. QED
    BY <1>1, <1>8, <1>9, <1>10

WithCopy(B, x) == B (+) SetToBag({x})

(* One copy more or less of a request.                                     *)
LEMMA CopyAdded ==
  ASSUME NEW B, B \in [DOMAIN B -> Nat \ {0}], NEW x
  PROVE  LET C == WithCopy(B, x)
         IN /\ DOMAIN C = DOMAIN B \cup {x} /\ C \in [DOMAIN C -> Nat \ {0}]
            /\ \A y \in DOMAIN B : y # x => C[y] = B[y]
            /\ x \notin DOMAIN B => C[x] = 1
  <1> DEFINE C == WithCopy(B, x)
  <1>1. /\ DOMAIN C = DOMAIN B \cup {x}
        /\ \A y \in DOMAIN C : C[y] = (IF y \in DOMAIN B THEN B[y] ELSE 0)
                                      + (IF y = x THEN 1 ELSE 0)
    BY DEF WithCopy, (+), SetToBag
  <1>2. C = [y \in DOMAIN C |-> C[y]]
    BY DEF WithCopy, (+)
  <1> HIDE DEF C
  <1>3. /\ DOMAIN C = DOMAIN B \cup {x} /\ C \in [DOMAIN C -> Nat \ {0}]
        /\ \A y \in DOMAIN B : y # x => C[y] = B[y]
        /\ x \notin DOMAIN B => C[x] = 1
    BY <1>1, <1>2
  <1>4. QED
    BY <1>3 DEF C

(* One copy less: the last one takes the request out of the bag.           *)
LEMMA CopyRemoved ==
  ASSUME NEW B, B \in [DOMAIN B -> Nat \ {0}], NEW x,
         NEW C, C = B (-) SetToBag({x})
  PROVE  /\ DOMAIN C \subseteq DOMAIN B /\ C \in [DOMAIN C -> Nat \ {0}]
         /\ \A y \in DOMAIN B : y # x => y \in DOMAIN C /\ C[y] = B[y]
         /\ x \in DOMAIN B /\ B[x] = 1 => x \notin DOMAIN C
  <1> DEFINE left(y) == IF y = x THEN B[y] - 1 ELSE B[y]
  <1>1. C = [y \in {z \in DOMAIN B : left(z) > 0} |-> left(y)]
    BY DEF (-), SetToBag
  <1>2. /\ DOMAIN C = {z \in DOMAIN B : left(z) > 0}
        /\ \A y \in DOMAIN C : C[y] = left(y)
        /\ C = [y \in DOMAIN C |-> C[y]]
    BY <1>1
  <1>3. \A y \in DOMAIN B : B[y] \in Nat /\ B[y] > 0 /\ left(y) \in Nat
    OBVIOUS
  <1>4. QED
    BY <1>2, <1>3

(* The requests of these kinds, and their copies, stay as they are.        *)
Untouched(kinds) ==
  /\ UnderWayOf(kinds)' = UnderWayOf(kinds)
  /\ \A r \in UnderWayOf(kinds) : sessionRequests'[r] = sessionRequests[r]

(* BeginRequest leaves the requests of other kinds, and every copy of      *)
(* another request, as they are.                                           *)
LEMMA SessionRequestBegins ==
  ASSUME TabsTypes, NEW r, BeginRequest(r)
  PROVE  /\ BagToSet(sessionRequests)' = BagToSet(sessionRequests) \cup {r}
         /\ sessionRequests' \in [BagToSet(sessionRequests)' -> Nat \ {0}]
         /\ \A kinds : r.kind \notin kinds => Untouched(kinds)
         /\ \A kinds : r.kind \in kinds =>
              UnderWayOf(kinds)' = UnderWayOf(kinds) \cup {r}
         /\ \A q \in BagToSet(sessionRequests) : q # r =>
              sessionRequests'[q] = sessionRequests[q]
         /\ r \notin BagToSet(sessionRequests) => sessionRequests'[r] = 1
  <1>1. /\ sessionRequests \in [DOMAIN sessionRequests -> Nat \ {0}]
        /\ sessionRequests' = WithCopy(sessionRequests, r)
    BY DEF TabsTypes, SessionRequestTypes, BeginRequest, BagToSet, WithCopy
  <1>2. /\ DOMAIN sessionRequests' = DOMAIN sessionRequests \cup {r}
        /\ sessionRequests' \in [DOMAIN sessionRequests' -> Nat \ {0}]
        /\ \A y \in DOMAIN sessionRequests :
             y # r => sessionRequests'[y] = sessionRequests[y]
        /\ r \notin DOMAIN sessionRequests => sessionRequests'[r] = 1
    <2> DEFINE B == sessionRequests
               C == WithCopy(B, r)
    <2>1. B \in [DOMAIN B -> Nat \ {0}]
      BY <1>1
    <2> HIDE DEF B
    <2>2. DOMAIN C = DOMAIN B \cup {r}
      BY <2>1, CopyAdded
    <2>3. C \in [DOMAIN C -> Nat \ {0}]
      BY <2>1, CopyAdded
    <2>4. \A y \in DOMAIN B : y # r => C[y] = B[y]
      BY <2>1, CopyAdded
    <2>5. r \notin DOMAIN B => C[r] = 1
      BY <2>1, CopyAdded
    <2>6. QED
      BY <1>1, <2>2, <2>3, <2>4, <2>5 DEF B
  <1>3. ASSUME NEW kinds, r.kind \notin kinds
        PROVE  Untouched(kinds)
    BY <1>2, <1>3 DEF Untouched, UnderWayOf, BagToSet
  <1>4. ASSUME NEW kinds, r.kind \in kinds
        PROVE  UnderWayOf(kinds)' = UnderWayOf(kinds) \cup {r}
    BY <1>2, <1>4 DEF UnderWayOf, BagToSet
  <1>5. QED
    BY <1>2, <1>3, <1>4 DEF BagToSet

(* EndRequest takes out one copy of one request.                           *)
LEMMA SessionRequestEnds ==
  ASSUME TabsTypes, NEW r, r \in BagToSet(sessionRequests), EndRequest(r)
  PROVE  /\ BagToSet(sessionRequests)' \subseteq BagToSet(sessionRequests)
         /\ sessionRequests' \in [BagToSet(sessionRequests)' -> Nat \ {0}]
         /\ \A kinds : r.kind \notin kinds => Untouched(kinds)
         /\ \A kinds : /\ UnderWayOf(kinds)' \subseteq UnderWayOf(kinds)
                       /\ UnderWayOf(kinds) \ {r} \subseteq UnderWayOf(kinds)'
         /\ \A q \in BagToSet(sessionRequests) : q # r =>
              sessionRequests'[q] = sessionRequests[q]
         /\ sessionRequests[r] = 1 => r \notin BagToSet(sessionRequests)'
  <1>1. /\ sessionRequests \in [DOMAIN sessionRequests -> Nat \ {0}]
        /\ sessionRequests' = sessionRequests (-) SetToBag({r})
        /\ r \in DOMAIN sessionRequests
    BY DEF TabsTypes, SessionRequestTypes, EndRequest,
           BagToSet
  <1>2. /\ DOMAIN sessionRequests' \subseteq DOMAIN sessionRequests
        /\ sessionRequests' \in [DOMAIN sessionRequests' -> Nat \ {0}]
        /\ \A y \in DOMAIN sessionRequests : y # r =>
             y \in DOMAIN sessionRequests'
             /\ sessionRequests'[y] = sessionRequests[y]
        /\ sessionRequests[r] = 1 => r \notin DOMAIN sessionRequests'
    BY <1>1, CopyRemoved
  <1>3. ASSUME NEW kinds, r.kind \notin kinds
        PROVE  Untouched(kinds)
    BY <1>2, <1>3 DEF Untouched, UnderWayOf, BagToSet
  <1>4. ASSUME NEW kinds
        PROVE  /\ UnderWayOf(kinds)' \subseteq UnderWayOf(kinds)
               /\ UnderWayOf(kinds) \ {r} \subseteq UnderWayOf(kinds)'
    BY <1>2 DEF UnderWayOf, BagToSet
  <1>5. QED
    BY <1>2, <1>3, <1>4 DEF BagToSet

(* Becomes takes out one copy of a request and brings in another.          *)
LEMMA SessionRequestBecomes ==
  ASSUME TabsTypes, NEW r, r \in BagToSet(sessionRequests), NEW next,
         Becomes(r, next), next # r
  PROVE  /\ BagToSet(sessionRequests)' \subseteq
              BagToSet(sessionRequests) \cup {next}
         /\ sessionRequests' \in [BagToSet(sessionRequests)' -> Nat \ {0}]
         /\ \A kinds : r.kind \notin kinds /\ next.kind \notin kinds =>
              Untouched(kinds)
         /\ \A kinds : next.kind \in kinds =>
              /\ UnderWayOf(kinds)' \subseteq UnderWayOf(kinds) \cup {next}
              /\ (UnderWayOf(kinds) \ {r}) \cup {next}
                   \subseteq UnderWayOf(kinds)'
         /\ \A q \in BagToSet(sessionRequests) : q # r /\ q # next =>
              sessionRequests'[q] = sessionRequests[q]
         /\ next \notin BagToSet(sessionRequests) =>
              sessionRequests'[next] = 1
         /\ sessionRequests[r] = 1 => r \notin BagToSet(sessionRequests)'
  <1> DEFINE without == sessionRequests (-) SetToBag({r})
  <1>1. /\ sessionRequests \in [DOMAIN sessionRequests -> Nat \ {0}]
        /\ sessionRequests' = WithCopy(without, next)
        /\ r \in DOMAIN sessionRequests
    BY DEF TabsTypes, SessionRequestTypes, Becomes, BagToSet, WithCopy
  <1>2. /\ DOMAIN without \subseteq DOMAIN sessionRequests
        /\ without \in [DOMAIN without -> Nat \ {0}]
        /\ \A y \in DOMAIN sessionRequests : y # r =>
             y \in DOMAIN without /\ without[y] = sessionRequests[y]
        /\ sessionRequests[r] = 1 => r \notin DOMAIN without
    BY <1>1, CopyRemoved
  <1> HIDE DEF without
  <1>3. /\ DOMAIN sessionRequests' = DOMAIN without \cup {next}
        /\ sessionRequests' \in [DOMAIN sessionRequests' -> Nat \ {0}]
        /\ \A y \in DOMAIN without :
             y # next => sessionRequests'[y] = without[y]
        /\ next \notin DOMAIN without => sessionRequests'[next] = 1
    <2> DEFINE C == WithCopy(without, next)
    <2>1. without \in [DOMAIN without -> Nat \ {0}]
      BY <1>2
    <2>2. DOMAIN C = DOMAIN without \cup {next}
      BY <2>1, CopyAdded
    <2>3. C \in [DOMAIN C -> Nat \ {0}]
      BY <2>1, CopyAdded
    <2>4. \A y \in DOMAIN without : y # next => C[y] = without[y]
      BY <2>1, CopyAdded
    <2>5. next \notin DOMAIN without => C[next] = 1
      BY <2>1, CopyAdded
    <2>6. QED
      BY <1>1, <2>2, <2>3, <2>4, <2>5
  <1>4. ASSUME NEW kinds, r.kind \notin kinds, next.kind \notin kinds
        PROVE  Untouched(kinds)
    BY <1>2, <1>3, <1>4 DEF Untouched, UnderWayOf, BagToSet
  <1>5. ASSUME NEW kinds, next.kind \in kinds
        PROVE  /\ UnderWayOf(kinds)' \subseteq UnderWayOf(kinds) \cup {next}
               /\ (UnderWayOf(kinds) \ {r}) \cup {next}
                    \subseteq UnderWayOf(kinds)'
    BY <1>2, <1>3, <1>5 DEF UnderWayOf, BagToSet
  <1>6. QED
    BY <1>2, <1>3, <1>4, <1>5 DEF BagToSet

(* A step that sends no update and answers none, and changes no query of a *)
(* row, leaves every row the last query of its session.                    *)
LEMMA QueriesKept ==
  ASSUME UpdateInv, LastTypedStored, Untouched({"update"}),
         UNCHANGED lastTyped,
         \A id \in DOMAIN client_sessions' :
           \/ /\ id \in DOMAIN client_sessions
              /\ client_sessions'[id] = client_sessions[id]
           \/ client_sessions'[id].query = lastTyped[id]
  PROVE  UpdateInv' /\ LastTypedStored'
  <1>1. UpdateInv'
    BY DEF UpdateInv, Untouched
  <1>2. \A id : Updating(id)' <=> Updating(id)
    BY DEF Updating, Untouched
  <1>3. ASSUME NEW id \in DOMAIN client_sessions'
        PROVE  \/ Updating(id)'
               \/ lastTyped'[id] \in {Unordered, client_sessions'[id].query}
    BY <1>2 DEF LastTypedStored
  <1>4. QED
    BY <1>1, <1>3 DEF LastTypedStored

(* A step that concerns neither tabs nor the requests for them.            *)
LEMMA TabsAside ==
  ASSUME CreatedInv, ListedInv, EditedInv,
         Untouched({"list"}), Untouched({"default"}), Untouched({"create"}),
         Untouched({"delete"}),
         UNCHANGED <<closing, crossed, client>>,
         DOMAIN client_sessions' = DOMAIN client_sessions,
         UNCHANGED sessions
  PROVE  CreatedInv' /\ ListedInv' /\ EditedInv'
  <1>1. Untouched({"list", "default"}) /\ Untouched({"create", "delete"})
    BY DEF Untouched, UnderWayOf
  <1>2. /\ (Loading' <=> Loading) /\ (Editing' <=> Editing)
        /\ CreateAnswers' = CreateAnswers
        /\ Created' = Created /\ Deleting' = Deleting
    BY <1>1 DEF Loading, Editing, CreateAnswers, Created, Deleting, Untouched
  <1>3. CreatedInv'
    BY <1>2 DEF CreatedInv, Untouched, CreateAnswers
  <1>4. ListedInv'
    BY <1>1, <1>2 DEF ListedInv, Untouched
  <1>5. EditedInv'
    BY <1>2 DEF EditedInv
  <1>6. QED
    BY <1>3, <1>4, <1>5

(* Without a request that begins or ends all are untouched.                *)
LEMMA RequestsUnchanged ==
  ASSUME UNCHANGED sessionRequests
  PROVE  \A kinds : Untouched(kinds)
  BY DEF Untouched, UnderWayOf

(* The requests after a step that creates no row.                          *)
LEMMA RequestsSound ==
  ASSUME UNCHANGED lastSessionID, SessionRequestTypes,
         sessionRequests' \in [BagToSet(sessionRequests)' -> Nat \ {0}],
         \A r \in BagToSet(sessionRequests)' :
           r \in BagToSet(sessionRequests) \/ SoundRequest(r)
  PROVE  SessionRequestTypes'
  <1>1. SessionRecords' = SessionRecords
    BY DEF SessionRecords
  <1>2. SessionRequests' = SessionRequests
    BY <1>1 DEF SessionRequests
  <1>3. \A r : SoundRequest(r) => SoundRequest(r)'
    BY <1>2 DEF SoundRequest
  <1>4. QED
    BY <1>3 DEF SessionRequestTypes

(* The requests that name no session are sound when they are sent.         *)
LEMMA NewRequestSound ==
  ASSUME SessionRowTypes, NEW kind \in {"list", "default", "create"}
  PROVE  /\ SoundRequest(SessionRequest(kind, 0, NoQuery))
         /\ SessionRequest(kind, 0, NoQuery).kind = kind
         /\ SessionRequest(kind, 0, NoQuery).phase = "sent"
  <1>1. <<>> \in Seq(SessionRecords) /\ 0 \in 0..lastSessionID
    BY DEF SessionRowTypes
  <1>2. NoQuery \in SearchTexts
    BY DEF SearchTexts
  <1>3. QED
    BY <1>1, <1>2 DEF SessionRequest, SoundRequest, SessionRequests

(* The session of a tab is one of the sessions.                            *)
LEMMA SessionFound ==
  ASSUME TabTypes, NEW i \in DOMAIN sessions
  PROVE  /\ \E j \in DOMAIN sessions : SessionOfTab(i) = sessions[j]
         /\ SessionOfTab(i) \in SessionRecords
  <1> DEFINE named == {j \in 1..Len(sessions) :
                         sessions[j].name = sessions[i].name}
  <1>1. /\ DOMAIN sessions = 1..Len(sessions) /\ Len(sessions) \in Nat
        /\ \A j \in DOMAIN sessions : sessions[j] \in SessionRecords
    BY DEF TabTypes
  <1>2. named \in SUBSET Nat /\ named # {}
    BY <1>1
  <1>3. Min(named) \in named
    <2>1. \E n \in named : \A k \in named : n <= k
      BY <1>2, LeastOfNaturals
    <2>2. QED
      BY <2>1 DEF Min
  <1>4. SelectInSeq(sessions, LAMBDA s : s.name = sessions[i].name)
          = Min(named)
    BY <1>2 DEF SelectInSeq
  <1>5. SessionOfTab(i) = sessions[Min(named)]
    BY <1>4 DEF SessionOfTab
  <1>6. QED
    BY <1>1, <1>3, <1>5

(* Remaining takes one id out.                                             *)
LEMMA RemainingAre ==
  ASSUME TabTypes, NEW id
  PROVE  /\ Remaining(id) \in Seq(SessionRecords)
         /\ IdsOf(Remaining(id)) = IdsOf(sessions) \ {id}
         /\ Distinct(sessions) => Distinct(Remaining(id))
  <1> DEFINE S == {i \in DOMAIN sessions : sessions[i].id # id}
             kept == InOrder(S)
             c == Cardinality(S)
  <1>1. /\ DOMAIN sessions = 1..Len(sessions) /\ Len(sessions) \in Nat
        /\ \A i \in DOMAIN sessions : sessions[i] \in SessionRecords
    BY DEF TabTypes
  <1>2. S \in SUBSET Nat /\ IsFiniteSet(S)
    <2>1. IsFiniteSet(1..Len(sessions))
      BY <1>1, FS_Interval
    <2>2. S \in SUBSET (1..Len(sessions))
      BY <1>1
    <2>3. QED
      BY <1>1, <2>1, <2>2, FS_Subset
  <1> HIDE DEF S
  <1>3. /\ kept \in [1..c -> S] /\ c \in Nat
        /\ \A i, j \in 1..c : kept[i] = kept[j] => i = j
        /\ \A n \in S : \E k \in 1..c : kept[k] = n
    BY <1>2, InOrderLists
  <1> HIDE DEF kept, c
  <1>4. Remaining(id) = [k \in 1..c |-> sessions[kept[k]]]
    BY <1>3 DEF Remaining, kept, S
  <1>5. \A k \in 1..c :
          kept[k] \in DOMAIN sessions /\ sessions[kept[k]].id # id
    BY <1>3 DEF S
  <1>6. Remaining(id) \in Seq(SessionRecords)
    BY <1>1, <1>3, <1>4, <1>5
  <1>7. IdsOf(Remaining(id)) = IdsOf(sessions) \ {id}
    <2>1. IdsOf(Remaining(id)) = {sessions[kept[k]].id : k \in 1..c}
      BY <1>4 DEF IdsOf
    <2>2. IdsOf(sessions) \ {id} = {sessions[n].id : n \in S}
      BY DEF IdsOf, S
    <2>3. {sessions[kept[k]].id : k \in 1..c} = {sessions[n].id : n \in S}
      BY <1>3
    <2>4. QED
      BY <2>1, <2>2, <2>3
  <1>8. ASSUME Distinct(sessions) PROVE Distinct(Remaining(id))
    BY <1>3, <1>4, <1>5, <1>8 DEF Distinct
  <1>9. QED
    BY <1>6, <1>7, <1>8

(* What ListSessions answers.                                              *)
LEMMA ListingIs ==
  ASSUME SessionRowTypes,
         NEW listing,
         listing = [i \in DOMAIN InOrder(DOMAIN client_sessions) |->
           Session(InOrder(DOMAIN client_sessions)[i],
             client_sessions[InOrder(DOMAIN client_sessions)[i]].name,
             client_sessions[InOrder(DOMAIN client_sessions)[i]].query)]
  PROVE  /\ listing \in Seq(SessionRecords) /\ Distinct(listing)
         /\ IdsOf(listing) = DOMAIN client_sessions
  <1> DEFINE R == DOMAIN client_sessions
             ids == InOrder(R)
             c == Cardinality(R)
  <1>1. R \in SUBSET Nat /\ IsFiniteSet(R)
    <2>1. lastSessionID \in Nat /\ R \in SUBSET (1..lastSessionID)
      BY TabsAssumption DEF SessionRowTypes
    <2>2. IsFiniteSet(1..lastSessionID)
      BY <2>1, FS_Interval
    <2>3. QED
      BY <2>1, <2>2, FS_Subset
  <1>2. /\ ids \in [1..c -> R] /\ c \in Nat
        /\ \A i, j \in 1..c : ids[i] = ids[j] => i = j
        /\ \A n \in R : \E k \in 1..c : ids[k] = n
    BY <1>1, InOrderLists
  <1>3. listing = [i \in 1..c |-> Session(ids[i], client_sessions[ids[i]].name,
                                          client_sessions[ids[i]].query)]
    BY <1>2
  <1>4. \A n \in R : /\ n \in 1..lastSessionID
                     /\ client_sessions[n].name \in Names
                     /\ client_sessions[n].query \in SearchTexts
    BY DEF SessionRowTypes
  <1> HIDE DEF R, ids, c
  <1>5. \A i \in 1..c : listing[i] \in SessionRecords /\ listing[i].id = ids[i]
    BY <1>2, <1>3, <1>4 DEF Session, SessionRecords
  <1>6. DOMAIN listing = 1..c
    BY <1>3
  <1>7. listing \in Seq(SessionRecords)
    <2>1. listing \in [1..c -> SessionRecords]
      BY <1>3, <1>5
    <2>2. QED
      BY <1>2, <2>1
  <1>8. Distinct(listing)
    <2>1. ASSUME NEW i \in 1..c, NEW j \in 1..c,
                 listing[i].id = listing[j].id
          PROVE  i = j
      <3>1. listing[i].id = ids[i] /\ listing[j].id = ids[j]
        BY <1>5
      <3>2. ids[i] = ids[j]
        BY <2>1, <3>1
      <3>3. QED
        BY <1>2, <3>2
    <2>2. QED
      BY <1>6, <2>1 DEF Distinct
  <1>9. IdsOf(listing) = R
    <2>1. IdsOf(listing) = {ids[i] : i \in 1..c}
      BY <1>5, <1>6 DEF IdsOf
    <2>2. \A i \in 1..c : ids[i] \in R
      BY <1>2
    <2>3. \A n \in R : \E k \in 1..c : ids[k] = n
      BY <1>2
    <2>4. QED
      BY <2>1, <2>2, <2>3
  <1>10. QED
    BY <1>7, <1>8, <1>9 DEF R

(* Rows have numbers up to the last one given.                             *)
LEMMA RowNumbers ==
  ASSUME SessionRowTypes
  PROVE  /\ lastSessionID \in Nat /\ MaxSessions \in Nat
         /\ \A id \in 1..lastSessionID : id \in SessionIDs /\ id # 0
         /\ \A id \in DOMAIN client_sessions : id \in 1..lastSessionID
         /\ NoQuery \in SearchTexts
  <1>1. lastSessionID \in 0..MaxSessions /\ MaxSessions \in Nat
    BY TabsAssumption DEF SessionRowTypes
  <1>2. \A id \in 1..lastSessionID : id \in SessionIDs /\ id # 0
    BY <1>1 DEF SessionIDs
  <1>3. QED
    BY <1>1, <1>2 DEF SessionRowTypes, SearchTexts

(* The tabs and rows have the types they had when nothing changes them.    *)
LEMMA TabTypesKept ==
  ASSUME TabTypes, UNCHANGED <<sessions, activeSessionID, searchEntry,
                               closing, lastSessionID>>,
         crossed' \in BOOLEAN
  PROVE  TabTypes'
  BY DEF TabTypes, SessionRecords

(* So do the rows.                                                         *)
LEMMA RowTypesKept ==
  ASSUME SessionRowTypes,
         UNCHANGED <<client_sessions, lastSessionID, lastTyped>>
  PROVE  SessionRowTypes'
  BY DEF SessionRowTypes

(* The active session stays one of the tabs.                               *)
LEMMA ActiveKept ==
  ASSUME ActiveInv, UNCHANGED <<sessions, activeSessionID>>
  PROVE  ActiveInv'
  BY DEF ActiveInv, IdsOf

(* A request to store a query is the last one typed in its session.        *)
LEMMA TypeQueryInv ==
  ASSUME TabsInv, NEW t \in SearchTexts, TypeQuery(t)
  PROVE  TabsInv'
  <1>1. /\ TabsTypes /\ TabTypes /\ SessionRequestTypes /\ SessionRowTypes
        /\ ConnectionInv /\ UpdateInv /\ LastTypedStored /\ ActiveInv
        /\ CreatedInv /\ ListedInv /\ EditedInv
    BY DEF TabsInv, TabsTypes
  <1>2. /\ UNCHANGED <<sessions, activeSessionID, closing, client_sessions,
                       lastSessionID, crossed>>
        /\ UNCHANGED connectionVars /\ UNCHANGED client /\ searchEntry' = t
    BY DEF TypeQuery, connectionVars
  <1>3. ConnectionInv' /\ ActiveInv' /\ TabTypes'
    <2>1. ConnectionInv'
      BY <1>1, <1>2, ConnectionUnchanged
    <2>2. TabTypes'
      BY <1>1, <1>2 DEF TabTypes, SessionRecords
    <2>3. QED
      BY <1>1, <1>2, <2>1, <2>2, ActiveKept
  <1>4. CASE UNCHANGED <<sessionRequests, lastTyped>>
    <2>1. \A kinds : Untouched(kinds)
      BY <1>4, RequestsUnchanged
    <2>2. UpdateInv' /\ LastTypedStored'
      BY <1>1, <1>2, <1>4, <2>1, QueriesKept
    <2>3. CreatedInv' /\ ListedInv' /\ EditedInv'
      BY <1>1, <1>2, <2>1, TabsAside
    <2>4. SessionRowTypes'
      BY <1>1, <1>2, <1>4, RowTypesKept
    <2>5. SessionRequestTypes'
      BY <1>1, <1>2, <1>4
         DEF SessionRequestTypes, SoundRequest, SessionRequests,
             SessionRecords
    <2>6. QED
      BY <1>3, <2>2, <2>3, <2>4, <2>5 DEF TabsInv, TabsTypes
  <1>5. CASE ~UNCHANGED <<sessionRequests, lastTyped>>
    <2> DEFINE id == activeSessionID
               r == SessionRequest("update", id, t)
    <2>1. /\ BeginRequest(r) /\ id > 0
          /\ lastTyped' = [lastTyped EXCEPT ![id] =
               IF Updating(id) THEN Unordered ELSE t]
      BY <1>5 DEF TypeQuery, Send
    <2>2. id \in 1..lastSessionID /\ id \in SessionIDs
      BY <1>1, <2>1, RowNumbers DEF TabTypes
    <2>3. SoundRequest(r)
      BY <2>2 DEF SoundRequest, SessionRequest, SessionRequests
    <2>4. r.kind = "update" /\ r.id = id /\ r.query = t
      BY DEF SessionRequest
    <2> HIDE DEF r, id
    <2>5. /\ BagToSet(sessionRequests)' = BagToSet(sessionRequests) \cup {r}
          /\ sessionRequests' \in [BagToSet(sessionRequests)' -> Nat \ {0}]
          /\ \A kinds : r.kind \notin kinds => Untouched(kinds)
          /\ \A q \in BagToSet(sessionRequests) : q # r =>
               sessionRequests'[q] = sessionRequests[q]
          /\ r \notin BagToSet(sessionRequests) => sessionRequests'[r] = 1
      BY <1>1, <2>1, SessionRequestBegins
    <2>6. UnderWayOf({"update"})' = UnderWayOf({"update"}) \cup {r}
      BY <1>1, <2>1, <2>4, SessionRequestBegins
    <2>7. SessionRequestTypes'
      BY <1>1, <1>2, <2>3, <2>5, RequestsSound
    <2>8. CreatedInv' /\ ListedInv' /\ EditedInv'
      <3>1. /\ Untouched({"list"}) /\ Untouched({"default"})
            /\ Untouched({"create"}) /\ Untouched({"delete"})
        BY <2>4, <2>5
      <3>2. QED
        BY <1>1, <1>2, <3>1, TabsAside
    <2>9. /\ lastTyped \in [SessionIDs -> SearchTexts \cup {Unordered}]
          /\ lastTyped'[id] = IF Updating(id) THEN Unordered ELSE t
          /\ \A k \in SessionIDs : k # id => lastTyped'[k] = lastTyped[k]
      BY <1>1, <2>1, <2>2 DEF SessionRowTypes
    <2>10. SessionRowTypes'
      <3>1. lastTyped' \in [SessionIDs -> SearchTexts \cup {Unordered}]
        BY <2>1, <2>9
      <3>2. \A k \in SessionIDs : k > lastSessionID => lastTyped'[k] = NoQuery
        <4>1. \A k \in SessionIDs : k > lastSessionID => k # id
          BY <1>1, <2>2, RowNumbers
        <4>2. QED
          BY <1>1, <2>9, <4>1 DEF SessionRowTypes
      <3>3. QED
        BY <1>1, <1>2, <3>1, <3>2 DEF SessionRowTypes
    <2>11. \A q \in UnderWayOf({"update"}) :
             q \in BagToSet(sessionRequests) /\ q.id \in SessionIDs
      BY <1>1, RowNumbers
         DEF UnderWayOf, SessionRequestTypes, SoundRequest
    <2>12. UpdateInv'
      <3>1. ASSUME NEW p \in UnderWayOf({"update"})',
                   NEW q \in UnderWayOf({"update"})',
                   p.id = q.id, lastTyped'[p.id] # Unordered
            PROVE  /\ p = q /\ sessionRequests'[p] = 1
                   /\ lastTyped'[p.id] = p.query
        <4>1. CASE p.id = id
          <5>1. ~Updating(id) /\ lastTyped'[id] = t
            BY <2>9, <3>1, <4>1
          <5>2. p = r /\ q = r /\ r \notin BagToSet(sessionRequests)
            BY <2>4, <2>6, <3>1, <4>1, <5>1 DEF Updating, UnderWayOf
          <5>3. QED
            BY <2>4, <2>5, <5>1, <5>2
        <4>2. CASE p.id # id
          <5>1. /\ p \in UnderWayOf({"update"}) /\ p # r
                /\ q \in UnderWayOf({"update"})
            BY <2>4, <2>6, <3>1, <4>2
          <5>2. lastTyped'[p.id] = lastTyped[p.id]
            BY <2>9, <2>11, <4>2, <5>1
          <5>3. sessionRequests'[p] = sessionRequests[p]
            BY <2>5, <2>11, <5>1
          <5>4. QED
            BY <1>1, <3>1, <5>1, <5>2, <5>3 DEF UpdateInv
        <4>3. QED
          BY <4>1, <4>2
      <3>2. QED
        BY <3>1 DEF UpdateInv
    <2>13. LastTypedStored'
      <3>1. ASSUME NEW k \in DOMAIN client_sessions
            PROVE  \/ Updating(k)'
                   \/ lastTyped'[k] \in {Unordered, client_sessions[k].query}
        <4>1. CASE k = id
          BY <2>4, <2>6, <4>1 DEF Updating
        <4>2. CASE k # id
          <5>1. lastTyped'[k] = lastTyped[k]
            BY <1>1, <2>9, <4>2, RowNumbers
          <5>2. Updating(k) => Updating(k)'
            BY <2>6 DEF Updating
          <5>3. QED
            BY <1>1, <5>1, <5>2 DEF LastTypedStored
        <4>3. QED
          BY <4>1, <4>2
      <3>2. QED
        BY <1>2, <3>1 DEF LastTypedStored
    <2>14. QED
      BY <1>3, <2>7, <2>8, <2>10, <2>12, <2>13 DEF TabsInv, TabsTypes
  <1>6. QED
    BY <1>4, <1>5

(* What a request that has ended leaves of the others like it.             *)
LEMMA UpdatesAfter ==
  ASSUME TabsTypes, UpdateInv, NEW r \in UnderWayOf({"update"}),
         EndRequest(r)
  PROVE  /\ UnderWayOf({"update"})' \subseteq UnderWayOf({"update"})
         /\ UnderWayOf({"update"}) \ {r} \subseteq UnderWayOf({"update"})'
         /\ \A p, q \in UnderWayOf({"update"})' :
              p.id = q.id /\ lastTyped[p.id] # Unordered =>
                /\ p = q /\ p # r /\ sessionRequests'[p] = 1
                /\ lastTyped[p.id] = p.query
  <1>1. r \in BagToSet(sessionRequests) /\ r.kind = "update"
    BY DEF UnderWayOf
  <1>2. /\ UnderWayOf({"update"})' \subseteq UnderWayOf({"update"})
        /\ UnderWayOf({"update"}) \ {r} \subseteq UnderWayOf({"update"})'
    BY <1>1, SessionRequestEnds
  <1>3. /\ \A q \in BagToSet(sessionRequests) : q # r =>
             sessionRequests'[q] = sessionRequests[q]
        /\ sessionRequests[r] = 1 => r \notin BagToSet(sessionRequests)'
    BY <1>1, SessionRequestEnds
  <1>4. ASSUME NEW p \in UnderWayOf({"update"})',
               NEW q \in UnderWayOf({"update"})',
               p.id = q.id, lastTyped[p.id] # Unordered
        PROVE  /\ p = q /\ p # r /\ sessionRequests'[p] = 1
               /\ lastTyped[p.id] = p.query
    <2>1. p = q /\ sessionRequests[p] = 1 /\ lastTyped[p.id] = p.query
      BY <1>2, <1>4 DEF UpdateInv
    <2>2. p # r
      BY <1>3, <2>1 DEF UnderWayOf
    <2>3. p \in BagToSet(sessionRequests)
      BY <1>2 DEF UnderWayOf
    <2>4. QED
      BY <1>3, <2>1, <2>2, <2>3
  <1>5. QED
    BY <1>2, <1>4

(* Storing a query at the daemon: the row has what was typed last.         *)
LEMMA UpdateSessionInv ==
  ASSUME TabsInv, NEW r \in BagToSet(sessionRequests), UpdateSession(r),
         UNCHANGED <<sessions, activeSessionID, searchEntry, closing,
                     lastTyped, crossed, connectionVars>>
  PROVE  TabsInv'
  <1>1. /\ TabsTypes /\ TabTypes /\ SessionRequestTypes /\ SessionRowTypes
        /\ ConnectionInv /\ UpdateInv /\ LastTypedStored /\ ActiveInv
        /\ CreatedInv /\ ListedInv /\ EditedInv
    BY DEF TabsInv, TabsTypes
  <1>2. /\ UNCHANGED <<sessions, activeSessionID, searchEntry, closing,
                       lastSessionID, crossed>>
        /\ UNCHANGED connectionVars /\ UNCHANGED <<client, lastTyped>>
        /\ r.kind = "update" /\ EndRequest(r)
    BY DEF UpdateSession, connectionVars
  <1>3. r \in UnderWayOf({"update"}) /\ SoundRequest(r)
    BY <1>1, <1>2 DEF UnderWayOf, SessionRequestTypes
  <1>4. ConnectionInv' /\ ActiveInv' /\ TabTypes'
    BY <1>1, <1>2, ConnectionUnchanged, ActiveKept, TabTypesKept DEF TabTypes
  <1>5. /\ DOMAIN client_sessions' = DOMAIN client_sessions
        /\ \A k \in DOMAIN client_sessions :
             /\ client_sessions'[k].name = client_sessions[k].name
             /\ client_sessions'[k].query =
                  IF k = r.id THEN r.query ELSE client_sessions[k].query
        /\ client_sessions' \in
             [DOMAIN client_sessions -> [name : Names, query : SearchTexts]]
    <2>1. client_sessions \in
            [DOMAIN client_sessions -> [name : Names, query : SearchTexts]]
      BY <1>1 DEF SessionRowTypes
    <2>2. r.query \in SearchTexts
      BY <1>3 DEF SoundRequest, SessionRequests
    <2>3. CASE r.id \notin DOMAIN client_sessions
      BY <2>1, <2>3 DEF UpdateSession
    <2>4. CASE r.id \in DOMAIN client_sessions
      <3>1. client_sessions' =
              [client_sessions EXCEPT ![r.id].query = r.query]
        BY <2>4 DEF UpdateSession
      <3>2. QED
        BY <2>1, <2>2, <3>1
    <2>5. QED
      BY <2>3, <2>4
  <1>6. SessionRowTypes'
    BY <1>1, <1>2, <1>5 DEF SessionRowTypes
  <1>7. /\ BagToSet(sessionRequests)' \subseteq BagToSet(sessionRequests)
        /\ sessionRequests' \in [BagToSet(sessionRequests)' -> Nat \ {0}]
        /\ \A kinds : r.kind \notin kinds => Untouched(kinds)
    BY <1>1, <1>2, SessionRequestEnds
  <1>8. SessionRequestTypes'
    BY <1>1, <1>2, <1>7, RequestsSound
  <1>9. CreatedInv' /\ ListedInv' /\ EditedInv'
    <2>1. /\ Untouched({"list"}) /\ Untouched({"default"})
          /\ Untouched({"create"}) /\ Untouched({"delete"})
      BY <1>2, <1>7
    <2>2. QED
      BY <1>1, <1>2, <1>5, <2>1, TabsAside
  <1>10. /\ UnderWayOf({"update"}) \ {r} \subseteq UnderWayOf({"update"})'
         /\ \A p, q \in UnderWayOf({"update"})' :
              p.id = q.id /\ lastTyped[p.id] # Unordered =>
                /\ p = q /\ p # r /\ sessionRequests'[p] = 1
                /\ lastTyped[p.id] = p.query
    BY <1>1, <1>2, <1>3, UpdatesAfter
  <1>11. UpdateInv'
    BY <1>2, <1>10 DEF UpdateInv
  <1>12. LastTypedStored'
    <2>1. ASSUME NEW k \in DOMAIN client_sessions
          PROVE  \/ Updating(k)'
                 \/ lastTyped[k] \in {Unordered, client_sessions'[k].query}
      <3>1. CASE k = r.id
        <4>1. lastTyped[k] \in {Unordered, r.query}
          BY <1>1, <1>3, <3>1 DEF UpdateInv
        <4>2. QED
          BY <1>5, <3>1, <4>1
      <3>2. CASE k # r.id
        <4>1. Updating(k) => Updating(k)'
          BY <1>10, <3>2 DEF Updating
        <4>2. client_sessions'[k].query = client_sessions[k].query
          BY <1>5, <3>2
        <4>3. QED
          BY <1>1, <4>1, <4>2 DEF LastTypedStored
      <3>3. QED
        BY <3>1, <3>2
    <2>2. QED
      BY <1>2, <1>5, <2>1 DEF LastTypedStored
  <1>13. QED
    BY <1>4, <1>6, <1>8, <1>9, <1>11, <1>12 DEF TabsInv, TabsTypes

(* An update that fails leaves it open which query is stored.              *)
LEMMA UpdateFailsInv ==
  ASSUME TabsInv, NEW r \in BagToSet(sessionRequests),
         SessionRequestFails(r), r.kind = "update"
  PROVE  TabsInv'
  <1>1. /\ TabsTypes /\ TabTypes /\ SessionRequestTypes /\ SessionRowTypes
        /\ ConnectionInv /\ UpdateInv /\ LastTypedStored /\ ActiveInv
        /\ CreatedInv /\ ListedInv /\ EditedInv
    BY DEF TabsInv, TabsTypes
  <1>2. /\ UNCHANGED <<sessions, activeSessionID, searchEntry, closing,
                       client_sessions, lastSessionID>>
        /\ UNCHANGED connectionVars /\ UNCHANGED client
        /\ EndRequest(r) /\ crossed' = crossed
        /\ lastTyped' = [lastTyped EXCEPT ![r.id] = Unordered]
    BY <1>1 DEF SessionRequestFails, connectionVars, TabTypes
  <1>3. /\ r \in UnderWayOf({"update"}) /\ SoundRequest(r)
        /\ r.id \in 1..lastSessionID /\ r.id \in SessionIDs
    BY <1>1, RowNumbers DEF UnderWayOf, SessionRequestTypes, SoundRequest
  <1>4. ConnectionInv' /\ ActiveInv' /\ TabTypes'
    BY <1>1, <1>2, ConnectionUnchanged, ActiveKept, TabTypesKept DEF TabTypes
  <1>5. /\ lastTyped' \in [SessionIDs -> SearchTexts \cup {Unordered}]
        /\ lastTyped'[r.id] = Unordered
        /\ \A k \in SessionIDs : k # r.id => lastTyped'[k] = lastTyped[k]
    BY <1>1, <1>2, <1>3 DEF SessionRowTypes
  <1>6. SessionRowTypes'
    <2>1. \A k \in SessionIDs : k > lastSessionID => lastTyped'[k] = NoQuery
      <3>1. \A k \in SessionIDs : k > lastSessionID => k # r.id
        BY <1>1, <1>3, RowNumbers
      <3>2. QED
        BY <1>1, <1>5, <3>1 DEF SessionRowTypes
    <2>2. QED
      BY <1>1, <1>2, <1>5, <2>1 DEF SessionRowTypes
  <1>7. /\ BagToSet(sessionRequests)' \subseteq BagToSet(sessionRequests)
        /\ sessionRequests' \in [BagToSet(sessionRequests)' -> Nat \ {0}]
        /\ \A kinds : r.kind \notin kinds => Untouched(kinds)
    BY <1>1, <1>2, SessionRequestEnds
  <1>8. SessionRequestTypes'
    BY <1>1, <1>2, <1>7, RequestsSound
  <1>9. CreatedInv' /\ ListedInv' /\ EditedInv'
    <2>1. /\ Untouched({"list"}) /\ Untouched({"default"})
          /\ Untouched({"create"}) /\ Untouched({"delete"})
      BY <1>7
    <2>2. QED
      BY <1>1, <1>2, <2>1, TabsAside
  <1>10. /\ UnderWayOf({"update"})' \subseteq UnderWayOf({"update"})
         /\ UnderWayOf({"update"}) \ {r} \subseteq UnderWayOf({"update"})'
         /\ \A p, q \in UnderWayOf({"update"})' :
              p.id = q.id /\ lastTyped[p.id] # Unordered =>
                /\ p = q /\ p # r /\ sessionRequests'[p] = 1
                /\ lastTyped[p.id] = p.query
    BY <1>1, <1>2, <1>3, UpdatesAfter
  <1>11. UpdateInv'
    <2>1. ASSUME NEW p \in UnderWayOf({"update"})',
                 NEW q \in UnderWayOf({"update"})',
                 p.id = q.id, lastTyped'[p.id] # Unordered
          PROVE  p = q /\ sessionRequests'[p] = 1 /\ lastTyped'[p.id] = p.query
      <3>1. p.id # r.id
        BY <1>5, <2>1
      <3>2. p.id \in SessionIDs
        BY <1>1, <1>10, RowNumbers
           DEF UnderWayOf, SessionRequestTypes, SoundRequest
      <3>3. lastTyped'[p.id] = lastTyped[p.id]
        BY <1>5, <3>1, <3>2
      <3>4. QED
        BY <1>10, <2>1, <3>3
    <2>2. QED
      BY <2>1 DEF UpdateInv
  <1>12. LastTypedStored'
    <2>1. ASSUME NEW k \in DOMAIN client_sessions, k # r.id
          PROVE  \/ Updating(k)'
                 \/ lastTyped'[k] \in {Unordered, client_sessions[k].query}
      <3>1. Updating(k) => Updating(k)'
        BY <1>10, <2>1 DEF Updating
      <3>2. lastTyped'[k] = lastTyped[k]
        BY <1>1, <1>5, <2>1, RowNumbers
      <3>3. QED
        BY <1>1, <3>1, <3>2 DEF LastTypedStored
    <2>2. QED
      BY <1>2, <1>5, <2>1 DEF LastTypedStored
  <1>13. QED
    BY <1>4, <1>6, <1>8, <1>9, <1>11, <1>12 DEF TabsInv, TabsTypes

(* Selecting a tab and the steps of an attempt before the last one.        *)
LEMMA SelectTabInv ==
  ASSUME TabsInv, NEW i \in DOMAIN sessions, SelectTab(i)
  PROVE  TabsInv'
  <1>1. /\ TabsTypes /\ TabTypes /\ SessionRequestTypes /\ SessionRowTypes
        /\ ConnectionInv /\ UpdateInv /\ LastTypedStored /\ ActiveInv
        /\ CreatedInv /\ ListedInv /\ EditedInv
    BY DEF TabsInv, TabsTypes
  <1>2. /\ UNCHANGED <<sessions, sessionRequests, closing, client_sessions,
                       lastSessionID, lastTyped, crossed>>
        /\ UNCHANGED connectionVars /\ UNCHANGED client
        /\ activeSessionID' = SessionOfTab(i).id
        /\ searchEntry' = SessionOfTab(i).query
    BY DEF SelectTab, ActivateSession, connectionVars
  <1>3. /\ \E j \in DOMAIN sessions : SessionOfTab(i) = sessions[j]
        /\ SessionOfTab(i) \in SessionRecords
    BY <1>1, SessionFound
  <1>4. ConnectionInv'
    BY <1>1, <1>2, ConnectionUnchanged
  <1>5. TabTypes' /\ ActiveInv'
    <2>1. activeSessionID' \in 0..lastSessionID /\ searchEntry' \in SearchTexts
      BY <1>1, <1>2, <1>3, RowNumbers DEF SessionRecords
    <2>2. activeSessionID' \in IdsOf(sessions)
      BY <1>2, <1>3 DEF IdsOf
    <2>3. TabTypes'
      BY <1>1, <1>2, <2>1 DEF TabTypes, SessionRecords
    <2>4. ActiveInv'
      BY <1>2, <2>2 DEF ActiveInv, IdsOf
    <2>5. QED
      BY <2>3, <2>4
  <1>6. \A kinds : Untouched(kinds)
    BY <1>2, RequestsUnchanged
  <1>7. UpdateInv' /\ LastTypedStored'
    BY <1>1, <1>2, <1>6, QueriesKept
  <1>8. CreatedInv' /\ ListedInv' /\ EditedInv'
    BY <1>1, <1>2, <1>6, TabsAside
  <1>9. SessionRowTypes'
    BY <1>1, <1>2, RowTypesKept
  <1>10. SessionRequestTypes'
    BY <1>1, <1>2
       DEF SessionRequestTypes, SoundRequest, SessionRequests, SessionRecords
  <1>11. QED
    BY <1>4, <1>5, <1>7, <1>8, <1>9, <1>10 DEF TabsInv, TabsTypes

(* A connect attempt before its last step leaves the tabs alone.           *)
LEMMA TabsAttemptInv ==
  ASSUME TabsInv, UNCHANGED tabVars, UNCHANGED client, ConnectionInv'
  PROVE  TabsInv'
  <1>1. /\ TabsTypes /\ TabTypes /\ SessionRequestTypes /\ SessionRowTypes
        /\ UpdateInv /\ LastTypedStored /\ ActiveInv
        /\ CreatedInv /\ ListedInv /\ EditedInv
    BY DEF TabsInv, TabsTypes
  <1>2. /\ UNCHANGED <<sessions, activeSessionID, searchEntry, closing>>
        /\ UNCHANGED <<sessionRequests, client_sessions, lastSessionID>>
        /\ UNCHANGED <<lastTyped, crossed>>
    BY DEF tabVars
  <1>3. TabTypes' /\ ActiveInv' /\ SessionRowTypes'
    BY <1>1, <1>2, ActiveKept, TabTypesKept, RowTypesKept DEF TabTypes
  <1>4. \A kinds : Untouched(kinds)
    BY <1>2, RequestsUnchanged
  <1>5. UpdateInv' /\ LastTypedStored'
    BY <1>1, <1>2, <1>4, QueriesKept
  <1>6. CreatedInv' /\ ListedInv' /\ EditedInv'
    BY <1>1, <1>2, <1>4, TabsAside
  <1>7. SessionRequestTypes'
    BY <1>1, <1>2
       DEF SessionRequestTypes, SoundRequest, SessionRequests, SessionRecords
  <1>8. QED
    BY <1>3, <1>5, <1>6, <1>7 DEF TabsInv, TabsTypes

(* Requests for new tabs that are not answered change nothing of those     *)
(* that are.                                                               *)
LEMMA AnswersKept ==
  ASSUME CreatedInv, CreateAnswers' = CreateAnswers,
         \A q \in CreateAnswers : sessionRequests'[q] = sessionRequests[q]
  PROVE  CreatedInv' /\ Created' = Created
  BY DEF CreatedInv, Created

(* A request that begins or ends while no load is under way, or while one  *)
(* is under way that this step crosses.                                    *)
LEMMA TabsEdited ==
  ASSUME ListedInv, EditedInv, Loading' <=> Loading,
         UNCHANGED client,
         crossed' = (crossed \/ Loading),
         ~crossed /\ ~Loading /\ client # NoDaemon =>
           /\ Distinct(sessions')
           /\ (IdsOf(sessions') \ closing') \cup Created'
                = DOMAIN client_sessions' \ Deleting'
           /\ Created' \cap (IdsOf(sessions') \cup closing' \cup Deleting')
                = {}
  PROVE  ListedInv' /\ EditedInv'
  <1>1. ListedInv'
    BY DEF ListedInv
  <1>2. EditedInv'
    BY DEF EditedInv, Distinct, IdsOf
  <1>3. QED
    BY <1>1, <1>2

(* Sending one of the requests for tabs.                                   *)
LEMMA TabRequestBegins ==
  ASSUME TabsTypes, UpdateInv, LastTypedStored, CreatedInv, NEW r,
         BeginRequest(r), SoundRequest(r), r.phase = "sent",
         r.kind # "update",
         UNCHANGED <<lastSessionID, client_sessions, lastTyped>>
  PROVE  /\ SessionRequestTypes' /\ SessionRowTypes'
         /\ UpdateInv' /\ LastTypedStored'
         /\ CreatedInv' /\ Created' = Created
  <1>1. SessionRequestTypes /\ SessionRowTypes
    BY DEF TabsTypes
  <1>2. /\ BagToSet(sessionRequests)' = BagToSet(sessionRequests) \cup {r}
        /\ sessionRequests' \in [BagToSet(sessionRequests)' -> Nat \ {0}]
        /\ \A kinds : r.kind \notin kinds => Untouched(kinds)
        /\ \A q \in BagToSet(sessionRequests) : q # r =>
             sessionRequests'[q] = sessionRequests[q]
    BY SessionRequestBegins
  <1>3. SessionRequestTypes'
    BY <1>1, <1>2, RequestsSound
  <1>4. SessionRowTypes'
    BY <1>1, RowTypesKept
  <1>5. UpdateInv' /\ LastTypedStored'
    <2>1. Untouched({"update"})
      BY <1>2
    <2>2. QED
      BY <2>1, QueriesKept
  <1>6. CreateAnswers' = CreateAnswers
    BY <1>2 DEF CreateAnswers, UnderWayOf
  <1>7. \A q \in CreateAnswers : sessionRequests'[q] = sessionRequests[q]
    BY <1>2 DEF CreateAnswers, UnderWayOf
  <1>8. QED
    BY <1>3, <1>4, <1>5, <1>6, <1>7, AnswersKept

(* The request for a new tab adds nothing until it is answered.            *)
LEMMA NewSearchSessionInv ==
  ASSUME TabsInv, NewSearchSession
  PROVE  TabsInv'
  <1> DEFINE r == SessionRequest("create", 0, NoQuery)
  <1>1. /\ TabsTypes /\ TabTypes /\ SessionRequestTypes /\ SessionRowTypes
        /\ ConnectionInv /\ UpdateInv /\ LastTypedStored /\ ActiveInv
        /\ CreatedInv /\ ListedInv /\ EditedInv
    BY DEF TabsInv, TabsTypes
  <1>2. /\ UNCHANGED <<sessions, activeSessionID, searchEntry, closing>>
        /\ UNCHANGED <<client_sessions, lastSessionID, lastTyped>>
        /\ UNCHANGED connectionVars /\ UNCHANGED client
        /\ BeginRequest(r) /\ crossed' = (crossed \/ Loading)
    BY DEF NewSearchSession, Send, connectionVars
  <1>3. SoundRequest(r) /\ r.kind = "create" /\ r.phase = "sent"
    BY <1>1, NewRequestSound
  <1> HIDE DEF r
  <1>4. ConnectionInv' /\ ActiveInv' /\ TabTypes'
    BY <1>1, <1>2, ConnectionUnchanged, ActiveKept, TabTypesKept DEF TabTypes
  <1>5. /\ SessionRequestTypes' /\ SessionRowTypes'
        /\ UpdateInv' /\ LastTypedStored'
        /\ CreatedInv' /\ Created' = Created
    BY <1>1, <1>2, <1>3, TabRequestBegins
  <1>6. /\ Untouched({"list", "default"}) /\ Untouched({"delete"})
    <2>1. \A kinds : r.kind \notin kinds => Untouched(kinds)
      BY <1>1, <1>2, SessionRequestBegins
    <2>2. QED
      BY <1>3, <2>1
  <1>7. (Loading' <=> Loading) /\ Deleting' = Deleting
    BY <1>6 DEF Untouched, Loading, Deleting
  <1>8. ListedInv' /\ EditedInv'
    BY <1>1, <1>2, <1>5, <1>7, TabsEdited DEF EditedInv
  <1>9. QED
    BY <1>4, <1>5, <1>8 DEF TabsInv, TabsTypes

(* The request to delete a row, and the closure that takes its tab out,    *)
(* take the same session from both sides.                                  *)
LEMMA CloseSearchSessionInv ==
  ASSUME TabsInv, NEW i \in DOMAIN sessions, CloseSearchSession(i)
  PROVE  TabsInv'
  <1> DEFINE id == SessionOfTab(i).id
             r == SessionRequest("delete", id, NoQuery)
  <1>1. /\ TabsTypes /\ TabTypes /\ SessionRequestTypes /\ SessionRowTypes
        /\ ConnectionInv /\ UpdateInv /\ LastTypedStored /\ ActiveInv
        /\ CreatedInv /\ ListedInv /\ EditedInv
    BY DEF TabsInv, TabsTypes
  <1>2. /\ UNCHANGED <<sessions, activeSessionID, searchEntry>>
        /\ UNCHANGED <<client_sessions, lastSessionID, lastTyped>>
        /\ UNCHANGED connectionVars /\ UNCHANGED client
        /\ BeginRequest(r) /\ closing' = closing \cup {id}
        /\ crossed' = (crossed \/ Loading)
    BY DEF CloseSearchSession, Send, connectionVars
  <1>3. id \in IdsOf(sessions) /\ id \in 1..lastSessionID
    <2>1. /\ \E j \in DOMAIN sessions : SessionOfTab(i) = sessions[j]
          /\ SessionOfTab(i) \in SessionRecords
      BY <1>1, SessionFound
    <2>2. QED
      BY <2>1 DEF IdsOf, SessionRecords
  <1>4. SoundRequest(r)
    <2>1. <<>> \in Seq(SessionRecords) /\ id \in 0..lastSessionID
      BY <1>1, <1>3, RowNumbers
    <2>2. QED
      BY <1>1, <1>3, <2>1, RowNumbers
         DEF SoundRequest, SessionRequest, SessionRequests
  <1>5. r.kind = "delete" /\ r.phase = "sent" /\ r.id = id
    BY DEF SessionRequest
  <1> HIDE DEF r, id
  <1>6. ConnectionInv' /\ ActiveInv'
    BY <1>1, <1>2, ConnectionUnchanged, ActiveKept
  <1>7. TabTypes'
    BY <1>1, <1>2, <1>3 DEF TabTypes, SessionRecords
  <1>8. /\ SessionRequestTypes' /\ SessionRowTypes'
        /\ UpdateInv' /\ LastTypedStored'
        /\ CreatedInv' /\ Created' = Created
    BY <1>1, <1>2, <1>4, <1>5, TabRequestBegins
  <1>9. Untouched({"list", "default"})
    <2>1. \A kinds : r.kind \notin kinds => Untouched(kinds)
      BY <1>1, <1>2, SessionRequestBegins
    <2>2. QED
      BY <1>5, <2>1
  <1>10. Loading' <=> Loading
    BY <1>9 DEF Untouched, Loading
  <1>11. Deleting' = Deleting \cup {id}
    <2>1. UnderWayOf({"delete"})' = UnderWayOf({"delete"}) \cup {r}
      BY <1>1, <1>2, <1>5, SessionRequestBegins
    <2>2. QED
      BY <1>5, <2>1 DEF Deleting
  <1>12. ListedInv' /\ EditedInv'
    <2>1. ASSUME ~crossed, ~Loading, client # NoDaemon
          PROVE  /\ Distinct(sessions')
                 /\ (IdsOf(sessions') \ closing') \cup Created'
                      = DOMAIN client_sessions' \ Deleting'
                 /\ Created' \cap
                      (IdsOf(sessions') \cup closing' \cup Deleting') = {}
      <3>1. /\ Distinct(sessions)
            /\ (IdsOf(sessions) \ closing) \cup Created
                 = DOMAIN client_sessions \ Deleting
            /\ Created \cap (IdsOf(sessions) \cup closing \cup Deleting) = {}
        BY <1>1, <2>1 DEF EditedInv
      <3>2. id \notin Created
        BY <1>3, <3>1
      <3>3. QED
        BY <1>2, <1>3, <1>8, <1>11, <3>1, <3>2
    <2>2. QED
      BY <1>1, <1>2, <1>10, <2>1, TabsEdited
  <1>13. QED
    BY <1>6, <1>7, <1>8, <1>12 DEF TabsInv, TabsTypes

(* The closure takes out the tab of the session that was being closed.     *)
LEMMA SessionClosedInv ==
  ASSUME TabsInv, NEW id \in closing, SessionClosed(id)
  PROVE  TabsInv'
  <1> DEFINE remaining == Remaining(id)
             r == SessionRequest("create", 0, NoQuery)
  <1>1. /\ TabsTypes /\ TabTypes /\ SessionRequestTypes /\ SessionRowTypes
        /\ ConnectionInv /\ UpdateInv /\ LastTypedStored /\ ActiveInv
        /\ CreatedInv /\ ListedInv /\ EditedInv
    BY DEF TabsInv, TabsTypes
  <1>2. /\ UNCHANGED <<client_sessions, lastSessionID, lastTyped>>
        /\ UNCHANGED connectionVars /\ UNCHANGED client
        /\ sessions' = remaining /\ closing' = closing \ {id}
        /\ crossed' = (crossed \/ Loading)
    BY DEF SessionClosed, connectionVars
  <1>3. /\ remaining \in Seq(SessionRecords)
        /\ IdsOf(remaining) = IdsOf(sessions) \ {id}
        /\ Distinct(sessions) => Distinct(remaining)
    BY <1>1, RemainingAre
  <1>4. SoundRequest(r) /\ r.kind = "create" /\ r.phase = "sent"
    BY <1>1, NewRequestSound
  <1>5. \/ UNCHANGED sessionRequests
        \/ BeginRequest(r)
    BY DEF SessionClosed, ActivateSession, Send
  <1>6. \/ remaining = <<>> /\ UNCHANGED <<activeSessionID, searchEntry>>
        \/ /\ remaining # <<>> /\ activeSessionID = id
           /\ activeSessionID' = remaining[1].id
           /\ searchEntry' = remaining[1].query
        \/ /\ remaining # <<>> /\ activeSessionID # id
           /\ UNCHANGED <<activeSessionID, searchEntry>>
    BY DEF SessionClosed, ActivateSession
  <1> HIDE DEF r, remaining
  <1>7. ConnectionInv'
    BY <1>1, <1>2, ConnectionUnchanged
  <1>8. remaining # <<>> =>
          /\ 1 \in DOMAIN remaining /\ remaining[1] \in SessionRecords
          /\ remaining[1].id \in IdsOf(remaining)
    <2>1. remaining # <<>> =>
            1 \in DOMAIN remaining /\ remaining[1] \in SessionRecords
      BY <1>3
    <2>2. QED
      BY <2>1 DEF IdsOf
  <1>9. ActiveInv'
    <2>1. remaining # <<>> => activeSessionID' \in IdsOf(remaining)
      <3>1. CASE /\ remaining # <<>> /\ activeSessionID # id
                 /\ UNCHANGED <<activeSessionID, searchEntry>>
        <4>1. sessions # <<>>
          <5>1. CASE sessions = <<>>
            <6>1. IdsOf(sessions) = {}
              BY <5>1 DEF IdsOf
            <6>2. QED
              BY <1>3, <1>8, <3>1, <6>1
          <5>2. QED
            BY <5>1
        <4>2. QED
          BY <1>1, <1>3, <3>1, <4>1 DEF ActiveInv
      <3>2. QED
        BY <1>6, <1>8, <3>1
    <2>2. QED
      BY <1>2, <2>1 DEF ActiveInv, IdsOf
  <1>10. TabTypes'
    <2>1. activeSessionID' \in 0..lastSessionID /\ searchEntry' \in SearchTexts
      <3>1. remaining # <<>> =>
              /\ remaining[1].id \in 0..lastSessionID
              /\ remaining[1].query \in SearchTexts
        BY <1>1, <1>8, RowNumbers DEF SessionRecords
      <3>2. QED
        BY <1>1, <1>6, <3>1 DEF TabTypes
    <2>2. QED
      BY <1>1, <1>2, <1>3, <2>1 DEF TabTypes, SessionRecords
  <1>11. /\ SessionRequestTypes' /\ SessionRowTypes'
         /\ UpdateInv' /\ LastTypedStored'
         /\ CreatedInv' /\ Created' = Created
    <2>1. CASE BeginRequest(r)
      BY <1>1, <1>2, <1>4, <2>1, TabRequestBegins
    <2>2. CASE UNCHANGED sessionRequests
      <3>1. \A kinds : Untouched(kinds)
        BY <2>2, RequestsUnchanged
      <3>2. UpdateInv' /\ LastTypedStored'
        BY <1>1, <1>2, <3>1, QueriesKept
      <3>3. SessionRequestTypes'
        BY <1>1, <1>2, <2>2
           DEF SessionRequestTypes, SoundRequest, SessionRequests,
               SessionRecords
      <3>4. CreatedInv' /\ Created' = Created
        BY <1>1, <2>2 DEF CreatedInv, Created, CreateAnswers, UnderWayOf
      <3>5. QED
        BY <1>1, <1>2, <3>2, <3>3, <3>4, RowTypesKept
    <2>3. QED
      BY <1>5, <2>1, <2>2
  <1>12. Untouched({"list", "default"}) /\ Untouched({"delete"})
    <2>1. CASE BeginRequest(r)
      <3>1. \A kinds : r.kind \notin kinds => Untouched(kinds)
        BY <1>1, <2>1, SessionRequestBegins
      <3>2. QED
        BY <1>4, <3>1
    <2>2. QED
      BY <1>5, <2>1, RequestsUnchanged
  <1>13. (Loading' <=> Loading) /\ Deleting' = Deleting
    BY <1>12 DEF Untouched, Loading, Deleting
  <1>14. ListedInv' /\ EditedInv'
    <2>1. ASSUME ~crossed, ~Loading, client # NoDaemon
          PROVE  /\ Distinct(sessions')
                 /\ (IdsOf(sessions') \ closing') \cup Created'
                      = DOMAIN client_sessions' \ Deleting'
                 /\ Created' \cap
                      (IdsOf(sessions') \cup closing' \cup Deleting') = {}
      <3>1. /\ Distinct(sessions)
            /\ (IdsOf(sessions) \ closing) \cup Created
                 = DOMAIN client_sessions \ Deleting
            /\ Created \cap (IdsOf(sessions) \cup closing \cup Deleting) = {}
        BY <1>1, <2>1 DEF EditedInv
      <3>2. IdsOf(remaining) \ closing' = IdsOf(sessions) \ closing
        BY <1>2, <1>3
      <3>3. IdsOf(remaining) \cup closing'
              \subseteq IdsOf(sessions) \cup closing
        BY <1>2, <1>3
      <3>4. QED
        BY <1>2, <1>3, <1>11, <1>13, <3>1, <3>2, <3>3
    <2>2. QED
      BY <1>1, <1>2, <1>13, <2>1, TabsEdited
  <1>15. QED
    BY <1>7, <1>9, <1>10, <1>11, <1>14 DEF TabsInv, TabsTypes

(* Ending one of the requests for tabs.                                    *)
LEMMA TabRequestEnds ==
  ASSUME TabsTypes, UpdateInv, CreatedInv, LastTypedStored,
         NEW r \in BagToSet(sessionRequests),
         EndRequest(r), r.kind # "update",
         UNCHANGED <<lastSessionID, lastTyped>>,
         DOMAIN client_sessions' \subseteq DOMAIN client_sessions,
         \A id \in DOMAIN client_sessions' :
           client_sessions'[id] = client_sessions[id],
         client_sessions' = [id \in DOMAIN client_sessions' |->
                               client_sessions'[id]]
  PROVE  /\ SessionRequestTypes' /\ SessionRowTypes'
         /\ UpdateInv' /\ LastTypedStored' /\ CreatedInv'
         /\ CreateAnswers' = CreateAnswers \ {r}
  <1>1. SessionRequestTypes /\ SessionRowTypes
    BY DEF TabsTypes
  <1>2. /\ BagToSet(sessionRequests)' \subseteq BagToSet(sessionRequests)
        /\ sessionRequests' \in [BagToSet(sessionRequests)' -> Nat \ {0}]
        /\ \A kinds : r.kind \notin kinds => Untouched(kinds)
        /\ \A kinds : /\ UnderWayOf(kinds)' \subseteq UnderWayOf(kinds)
                      /\ UnderWayOf(kinds) \ {r} \subseteq UnderWayOf(kinds)'
        /\ \A q \in BagToSet(sessionRequests) : q # r =>
             sessionRequests'[q] = sessionRequests[q]
        /\ sessionRequests[r] = 1 => r \notin BagToSet(sessionRequests)'
    BY SessionRequestEnds
  <1>3. SessionRequestTypes'
    BY <1>1, <1>2, RequestsSound
  <1>4. SessionRowTypes'
    <2>1. client_sessions' \in [DOMAIN client_sessions' ->
                                  [name : Names, query : SearchTexts]]
      BY <1>1 DEF SessionRowTypes
    <2>2. QED
      BY <1>1, <2>1 DEF SessionRowTypes
  <1>5. UpdateInv' /\ LastTypedStored'
    <2>1. Untouched({"update"})
      BY <1>2
    <2>2. QED
      BY <2>1, QueriesKept
  <1>6. CreateAnswers' = CreateAnswers \ {r}
    <2>1. /\ UnderWayOf({"create"})' \subseteq UnderWayOf({"create"})
          /\ UnderWayOf({"create"}) \ {r} \subseteq UnderWayOf({"create"})'
      BY <1>2
    <2>2. r \in CreateAnswers => r \notin UnderWayOf({"create"})'
      BY <1>2 DEF CreatedInv, UnderWayOf, CreateAnswers
    <2>3. QED
      BY <2>1, <2>2 DEF CreateAnswers
  <1>7. CreatedInv'
    BY <1>2, <1>6 DEF CreatedInv, CreateAnswers, UnderWayOf
  <1>8. QED
    BY <1>3, <1>4, <1>5, <1>6, <1>7

(* A row goes with the request to delete it.                               *)
LEMMA DeleteSessionInv ==
  ASSUME TabsInv, NEW r \in BagToSet(sessionRequests), DeleteSession(r),
         UNCHANGED <<sessions, activeSessionID, searchEntry, closing,
                     lastTyped, crossed, connectionVars>>
  PROVE  TabsInv'
  <1>1. /\ TabsTypes /\ TabTypes /\ SessionRequestTypes /\ SessionRowTypes
        /\ ConnectionInv /\ UpdateInv /\ LastTypedStored /\ ActiveInv
        /\ CreatedInv /\ ListedInv /\ EditedInv
    BY DEF TabsInv, TabsTypes
  <1>2. /\ UNCHANGED <<sessions, activeSessionID, searchEntry, closing,
                       lastSessionID, crossed>>
        /\ UNCHANGED connectionVars /\ UNCHANGED <<client, lastTyped>>
        /\ r.kind = "delete" /\ EndRequest(r)
        /\ DOMAIN client_sessions' = DOMAIN client_sessions \ {r.id}
        /\ \A id \in DOMAIN client_sessions' :
             client_sessions'[id] = client_sessions[id]
        /\ client_sessions' = [id \in DOMAIN client_sessions' |->
                                 client_sessions'[id]]
    BY DEF DeleteSession, connectionVars
  <1>3. ConnectionInv' /\ ActiveInv' /\ TabTypes'
    BY <1>1, <1>2, ConnectionUnchanged, ActiveKept, TabTypesKept DEF TabTypes
  <1>4. /\ SessionRequestTypes' /\ SessionRowTypes'
        /\ UpdateInv' /\ LastTypedStored' /\ CreatedInv'
        /\ CreateAnswers' = CreateAnswers \ {r}
    BY <1>1, <1>2, TabRequestEnds
  <1>5. Created' = Created
    BY <1>2, <1>4 DEF Created, CreateAnswers, UnderWayOf
  <1>6. /\ Untouched({"list", "default"})
        /\ UnderWayOf({"delete"})' \subseteq UnderWayOf({"delete"})
        /\ UnderWayOf({"delete"}) \ {r} \subseteq UnderWayOf({"delete"})'
    <2>1. /\ \A kinds : r.kind \notin kinds => Untouched(kinds)
          /\ \A kinds :
               /\ UnderWayOf(kinds)' \subseteq UnderWayOf(kinds)
               /\ UnderWayOf(kinds) \ {r} \subseteq UnderWayOf(kinds)'
      BY <1>1, <1>2, SessionRequestEnds
    <2>2. QED
      BY <1>2, <2>1
  <1>7. Loading' <=> Loading
    BY <1>6 DEF Untouched, Loading
  <1>8. Deleting' \subseteq Deleting /\ Deleting \ {r.id} \subseteq Deleting'
    BY <1>6 DEF Deleting
  <1>9. r.id \in Deleting /\ Editing
    BY <1>2 DEF Deleting, Editing, UnderWayOf
  <1>10. ListedInv'
    BY <1>1, <1>2, <1>7, <1>9 DEF ListedInv
  <1>11. EditedInv'
    <2>1. ASSUME ~crossed, ~Loading, client # NoDaemon
          PROVE  /\ Distinct(sessions)
                 /\ (IdsOf(sessions) \ closing) \cup Created
                      = DOMAIN client_sessions' \ Deleting'
                 /\ Created \cap (IdsOf(sessions) \cup closing \cup Deleting')
                      = {}
      BY <1>1, <1>2, <1>8, <1>9, <2>1 DEF EditedInv
    <2>2. QED
      BY <1>2, <1>5, <1>7, <2>1 DEF EditedInv, Distinct, IdsOf
  <1>12. QED
    BY <1>3, <1>4, <1>10, <1>11 DEF TabsInv, TabsTypes

(* What the request for a new row becomes.                                 *)
AnswerTo(r) ==
  [r EXCEPT !.phase = "done",
            !.result = <<Session(lastSessionID + 1,
                                 IF r.kind = "default" THEN "My Files"
                                 ELSE "New Tab", NoQuery)>>]

(* A new row: its answer is a request nobody has made before.              *)
LEMMA RowCreated ==
  ASSUME TabsTypes, UpdateInv, LastTypedStored,
         NEW r \in BagToSet(sessionRequests), r.phase = "sent",
         CreateSession(r), UNCHANGED <<lastTyped, sessions, closing>>,
         UNCHANGED <<activeSessionID, searchEntry, crossed>>
  PROVE  /\ TabTypes' /\ SessionRequestTypes' /\ SessionRowTypes'
         /\ UpdateInv' /\ LastTypedStored'
         /\ Becomes(r, AnswerTo(r))
         /\ AnswerTo(r).kind = r.kind /\ AnswerTo(r).phase = "done"
         /\ AnswerTo(r) \notin BagToSet(sessionRequests)
         /\ AnswerTo(r).result[1].id = lastSessionID + 1
         /\ DOMAIN client_sessions' =
              DOMAIN client_sessions \cup {lastSessionID + 1}
  <1>1. PICK id : id = lastSessionID + 1
    OBVIOUS
  <1>2. PICK name \in Names :
          name = IF r.kind = "default" THEN "My Files" ELSE "New Tab"
    BY DEF Names
  <1>3. PICK next : next = AnswerTo(r)
    OBVIOUS
  <1>4. next = [r EXCEPT !.phase = "done",
                         !.result = <<Session(id, name, NoQuery)>>]
    BY <1>1, <1>2, <1>3 DEF AnswerTo
  <1>5. /\ Becomes(r, next)
        /\ client_sessions' =
             [row \in DOMAIN client_sessions \cup {id} |->
                IF row = id THEN [name |-> name, query |-> NoQuery]
                ELSE client_sessions[row]]
    BY <1>1, <1>2, <1>4 DEF CreateSession, SessionAnswered
  <1>6. /\ next.kind = r.kind /\ next.phase = "done"
        /\ next.result = <<Session(id, name, NoQuery)>>
    BY <1>4 DEF TabsTypes, SessionRequestTypes, SoundRequest, SessionRequests
  <1>7. /\ TabTypes /\ SessionRequestTypes /\ SessionRowTypes
        /\ r.kind \in {"create", "default"}
        /\ lastSessionID' = id /\ id <= MaxSessions
    BY <1>1 DEF TabsTypes, CreateSession
  <1>8. /\ lastSessionID \in Nat /\ id \in Nat /\ id > lastSessionID
        /\ id \in SessionIDs /\ MaxSessions \in Nat
        /\ 1..lastSessionID \subseteq 1..id /\ id \in 1..id
        /\ NoQuery \in SearchTexts
    BY <1>7, <1>1, RowNumbers DEF SessionIDs
  <1>9. SessionRecords \subseteq SessionRecords'
    BY <1>7, <1>8 DEF SessionRecords
  <1>10. /\ r \in SessionRequests /\ r.phase = "sent"
         /\ r.kind \in {"update", "delete"} => r.id \in 1..lastSessionID
    BY <1>7 DEF SessionRequestTypes, SoundRequest
  <1>11. SessionRequests \subseteq SessionRequests'
    <2>1. Seq(SessionRecords) \subseteq Seq(SessionRecords')
      BY <1>9
    <2>2. 0..lastSessionID \subseteq 0..lastSessionID'
      BY <1>7, <1>8
    <2>3. QED
      BY <2>1, <2>2 DEF SessionRequests
  <1>12. TabTypes'
    <2>1. sessions \in Seq(SessionRecords')
      BY <1>7, <1>9 DEF TabTypes
    <2>2. activeSessionID \in 0..id /\ closing \subseteq 1..id
      BY <1>7, <1>8 DEF TabTypes
    <2>3. QED
      BY <1>7, <2>1, <2>2 DEF TabTypes
  <1>13. /\ Session(id, name, NoQuery) \in SessionRecords'
         /\ next.result \in Seq(SessionRecords') /\ Len(next.result) = 1
         /\ next.result[1].id = id
    <2>1. Session(id, name, NoQuery) \in SessionRecords'
      BY <1>7, <1>8, <1>2 DEF Session, SessionRecords
    <2>2. next.result[1] = Session(id, name, NoQuery) /\ Len(next.result) = 1
      BY <1>6
    <2>3. QED
      BY <1>6, <2>1, <2>2 DEF Session
  <1>14. next \notin BagToSet(sessionRequests)
    <2>1. ASSUME next \in BagToSet(sessionRequests) PROVE FALSE
      <3>1. next.result \in Seq(SessionRecords) /\ Len(next.result) = 1
        BY <1>7, <1>13, <2>1
           DEF SessionRequestTypes, SoundRequest, SessionRequests
      <3>2. next.result[1] \in SessionRecords
        BY <3>1
      <3>3. id \in 1..lastSessionID
        BY <1>13, <3>2 DEF SessionRecords
      <3>4. QED
        BY <1>8, <3>3
    <2>2. QED
      BY <2>1
  <1>15. next \in SessionRequests'
    <2>1. r \in SessionRequests'
      BY <1>10, <1>11
    <2>2. /\ next = [r EXCEPT !.phase = "done", !.result = next.result]
          /\ next.result \in Seq(SessionRecords')
      BY <1>4, <1>6, <1>13
    <2>3. QED
      BY <2>1, <2>2 DEF SessionRequests
  <1>16. /\ BagToSet(sessionRequests)' \subseteq
              BagToSet(sessionRequests) \cup {next}
         /\ sessionRequests' \in [BagToSet(sessionRequests)' -> Nat \ {0}]
         /\ \A kinds : r.kind \notin kinds /\ next.kind \notin kinds =>
              Untouched(kinds)
    BY <1>14, <1>5, SessionRequestBecomes
  <1>17. SessionRequestTypes'
    <2>1. ASSUME NEW q \in BagToSet(sessionRequests)
          PROVE  SoundRequest(q)'
      <3>1. SoundRequest(q)
        BY <1>7 DEF SessionRequestTypes
      <3>2. QED
        BY <1>7, <1>8, <1>11, <3>1 DEF SoundRequest
    <2>2. SoundRequest(next)'
      BY <1>7, <1>13, <1>15, <1>6 DEF SoundRequest
    <2>3. QED
      BY <1>16, <2>1, <2>2 DEF SessionRequestTypes
  <1>18. /\ DOMAIN client_sessions' = DOMAIN client_sessions \cup {id}
         /\ client_sessions'[id] = [name |-> name, query |-> NoQuery]
         /\ \A k \in DOMAIN client_sessions :
              client_sessions'[k] = client_sessions[k]
         /\ client_sessions' \in [DOMAIN client_sessions' ->
                                    [name : Names, query : SearchTexts]]
    <2>1. \A k \in DOMAIN client_sessions : k # id
      BY <1>7, <1>8, RowNumbers
    <2>2. /\ DOMAIN client_sessions' = DOMAIN client_sessions \cup {id}
          /\ client_sessions'[id] = [name |-> name, query |-> NoQuery]
          /\ \A k \in DOMAIN client_sessions :
               client_sessions'[k] = client_sessions[k]
          /\ client_sessions' = [k \in DOMAIN client_sessions' |->
                                   client_sessions'[k]]
      BY <1>5, <2>1
    <2>3. \A k \in DOMAIN client_sessions' :
            client_sessions'[k] \in [name : Names, query : SearchTexts]
      <3>1. \A k \in DOMAIN client_sessions :
              client_sessions[k] \in [name : Names, query : SearchTexts]
        BY <1>7 DEF SessionRowTypes
      <3>2. [name |-> name, query |-> NoQuery]
              \in [name : Names, query : SearchTexts]
        BY <1>2, <1>8
      <3>3. QED
        BY <2>2, <3>1, <3>2
    <2>4. QED
      BY <2>2, <2>3
  <1>19. SessionRowTypes'
    <2>1. DOMAIN client_sessions' \subseteq 1..id
      BY <1>7, <1>8, <1>18 DEF SessionRowTypes
    <2>2. id \in 0..MaxSessions
      BY <1>7, <1>8
    <2>3. \A k \in SessionIDs : k > id => k > lastSessionID
      BY <1>8 DEF SessionIDs
    <2>4. QED
      BY <1>7, <1>18, <2>1, <2>2, <2>3 DEF SessionRowTypes
  <1>20. UpdateInv' /\ LastTypedStored'
    <2>1. Untouched({"update"})
      BY <1>7, <1>16, <1>6
    <2>2. lastTyped[id] = NoQuery
      BY <1>7, <1>8 DEF SessionRowTypes
    <2>3. \A k \in DOMAIN client_sessions' :
            \/ /\ k \in DOMAIN client_sessions
               /\ client_sessions'[k] = client_sessions[k]
            \/ client_sessions'[k].query = lastTyped[k]
      BY <1>18, <2>2
    <2>4. QED
      BY <2>1, <2>3, QueriesKept
  <1>21. QED
    BY <1>12, <1>13, <1>14, <1>17, <1>18, <1>19, <1>20, <1>1, <1>3, <1>5, <1>6

(* The row of a new tab: it is answered to the request for it, and the     *)
(* row of a default session is the only one.                               *)
LEMMA CreateSessionInv ==
  ASSUME TabsInv, NEW r \in BagToSet(sessionRequests), r.phase = "sent",
         CreateSession(r),
         UNCHANGED <<sessions, activeSessionID, searchEntry, closing,
                     lastTyped, crossed, connectionVars>>
  PROVE  TabsInv'
  <1>1. /\ TabsTypes /\ TabTypes /\ SessionRequestTypes /\ SessionRowTypes
        /\ ConnectionInv /\ UpdateInv /\ LastTypedStored /\ ActiveInv
        /\ CreatedInv /\ ListedInv /\ EditedInv
    BY DEF TabsInv, TabsTypes
  <1>2. /\ UNCHANGED <<sessions, activeSessionID, searchEntry, closing>>
        /\ UNCHANGED <<lastTyped, crossed>>
        /\ UNCHANGED connectionVars /\ UNCHANGED client
        /\ r.kind \in {"create", "default"}
    BY DEF CreateSession, connectionVars
  <1>3. PICK id : id = lastSessionID + 1
    OBVIOUS
  <1>4. PICK next : next = AnswerTo(r)
    OBVIOUS
  <1>5. /\ UNCHANGED <<lastTyped, sessions, closing>>
        /\ UNCHANGED <<activeSessionID, searchEntry, crossed>>
    BY <1>2
  <1>6. /\ Becomes(r, next) /\ next.kind = r.kind /\ next.phase = "done"
        /\ next.result[1].id = id /\ next \notin BagToSet(sessionRequests)
    BY <1>1, <1>3, <1>4, <1>5, RowCreated
  <1>7. TabTypes' /\ SessionRequestTypes' /\ SessionRowTypes'
    BY <1>1, <1>5, RowCreated
  <1>8. /\ UpdateInv' /\ LastTypedStored'
        /\ DOMAIN client_sessions' = DOMAIN client_sessions \cup {id}
    BY <1>1, <1>3, <1>5, RowCreated
  <1>9. ConnectionInv' /\ ActiveInv'
    BY <1>1, <1>2, ConnectionUnchanged, ActiveKept
  <1>10. /\ \A kinds : r.kind \notin kinds => Untouched(kinds)
         /\ \A kinds : r.kind \in kinds =>
              /\ UnderWayOf(kinds)' \subseteq UnderWayOf(kinds) \cup {next}
              /\ (UnderWayOf(kinds) \ {r}) \cup {next}
                   \subseteq UnderWayOf(kinds)'
         /\ \A q \in BagToSet(sessionRequests) : q # r =>
              sessionRequests'[q] = sessionRequests[q]
         /\ sessionRequests'[next] = 1
         /\ sessionRequests[r] = 1 => r \notin BagToSet(sessionRequests)'
    BY <1>1, <1>6, SessionRequestBecomes
  <1>11. /\ id \notin IdsOf(sessions) /\ id \notin closing
         /\ id \notin Deleting /\ id \notin DOMAIN client_sessions
         /\ \A q \in CreateAnswers : q.result[1].id # id
    <2>1. lastSessionID \in Nat /\ id \notin 1..lastSessionID
      <3>1. lastSessionID \in Nat
        BY <1>1, RowNumbers
      <3>2. QED
        BY <1>3, <3>1
    <2>2. id \notin IdsOf(sessions)
      <3>1. \A i \in DOMAIN sessions : sessions[i] \in SessionRecords
        BY <1>1 DEF TabTypes
      <3>2. \A i \in DOMAIN sessions : sessions[i].id # id
        BY <2>1, <3>1 DEF SessionRecords
      <3>3. QED
        BY <3>2 DEF IdsOf
    <2>3. id \notin closing /\ id \notin DOMAIN client_sessions
      BY <1>1, <2>1 DEF TabTypes, SessionRowTypes
    <2>4. id \notin Deleting
      BY <1>1, <2>1
         DEF Deleting, UnderWayOf, SessionRequestTypes, SoundRequest
    <2>5. ASSUME NEW q \in CreateAnswers
          PROVE  q.result[1].id # id
      <3>1. q.result \in Seq(SessionRecords) /\ Len(q.result) = 1
        BY <1>1 DEF CreateAnswers, UnderWayOf, SessionRequestTypes,
                    SoundRequest, SessionRequests
      <3>2. q.result[1] \in SessionRecords
        BY <3>1
      <3>3. QED
        BY <2>1, <3>2 DEF SessionRecords
    <2>6. QED
      BY <2>2, <2>3, <2>4, <2>5
  <1>12. Untouched({"delete"})
    BY <1>2, <1>10
  <1>13. CASE r.kind = "create"
    <2>1. Untouched({"list", "default"})
      BY <1>10, <1>13
    <2>2. (Loading' <=> Loading) /\ Deleting' = Deleting
      BY <1>12, <2>1 DEF Untouched, Loading, Deleting
    <2>3. CreateAnswers' = CreateAnswers \cup {next}
      <3>1. /\ UnderWayOf({"create"})' \subseteq
                 UnderWayOf({"create"}) \cup {next}
            /\ (UnderWayOf({"create"}) \ {r}) \cup {next}
                 \subseteq UnderWayOf({"create"})'
        BY <1>10, <1>13
      <3>2. QED
        BY <1>6, <3>1 DEF CreateAnswers
    <2>4. CreatedInv'
      <3>1. \A q \in CreateAnswers :
              q # r /\ sessionRequests'[q] = sessionRequests[q]
        BY <1>10 DEF CreateAnswers, UnderWayOf
      <3>2. QED
        BY <1>1, <1>6, <1>10, <1>11, <2>3, <3>1 DEF CreatedInv
    <2>5. Created' = Created \cup {id}
      BY <1>6, <2>3 DEF Created
    <2>6. Editing
      BY <1>13 DEF Editing, UnderWayOf
    <2>7. ListedInv'
      BY <1>1, <1>2, <2>2, <2>6 DEF ListedInv
    <2>8. EditedInv'
      <3>1. ASSUME ~crossed, ~Loading, client # NoDaemon
            PROVE  /\ Distinct(sessions)
                   /\ (IdsOf(sessions) \ closing) \cup Created'
                        = DOMAIN client_sessions' \ Deleting
                   /\ Created' \cap
                        (IdsOf(sessions) \cup closing \cup Deleting) = {}
        BY <1>1, <1>8, <1>11, <2>5, <3>1 DEF EditedInv
      <3>2. QED
        BY <1>2, <2>2, <3>1 DEF EditedInv, Distinct, IdsOf
    <2>9. QED
      BY <1>7, <1>8, <1>9, <2>4, <2>7, <2>8 DEF TabsInv, TabsTypes
  <1>14. CASE r.kind = "default"
    <2>1. Untouched({"list"}) /\ Untouched({"create"})
      BY <1>10, <1>14
    <2>2. CreateAnswers' = CreateAnswers
      BY <2>1 DEF Untouched, CreateAnswers
    <2>3. CreatedInv'
      <3>1. \A q \in CreateAnswers : sessionRequests'[q] = sessionRequests[q]
        BY <2>1 DEF Untouched, CreateAnswers
      <3>2. QED
        BY <1>1, <2>2, <3>1, AnswersKept
    <2>4. /\ UnderWayOf({"list", "default"})' \subseteq
               UnderWayOf({"list", "default"}) \cup {next}
          /\ next \in UnderWayOf({"list", "default"})'
      BY <1>10, <1>14
    <2>5. Loading /\ Loading'
      <3>1. r \in UnderWayOf({"list", "default"})
        BY <1>14 DEF UnderWayOf
      <3>2. QED
        BY <2>4, <3>1 DEF Loading
    <2>6. Editing' <=> Editing
      <3>1. Untouched({"create", "delete"})
        BY <1>10, <1>14
      <3>2. QED
        BY <1>2, <3>1 DEF Editing, Untouched
    <2>7. ListedInv'
      <3>1. ASSUME ~crossed
            PROVE  /\ ~Editing'
                   /\ \A q \in UnderWayOf({"list", "default"})' : q = next
                   /\ DOMAIN client_sessions' = {id}
        <4>1. /\ ~Editing
              /\ \A q \in UnderWayOf({"list", "default"}) :
                   r = q /\ sessionRequests[r] = 1
              /\ DOMAIN client_sessions = {}
          <5>1. r \in UnderWayOf({"list", "default"})
            BY <1>14 DEF UnderWayOf
          <5>2. r \in UnderWayOf({"default"})
            BY <1>14 DEF UnderWayOf
          <5>3. /\ ~Editing
                /\ \A q \in UnderWayOf({"list", "default"}) :
                     r = q /\ sessionRequests[r] = 1
            BY <1>1, <2>5, <3>1, <5>1 DEF ListedInv
          <5>4. DOMAIN client_sessions = {}
            BY <1>1, <2>5, <3>1, <5>2 DEF ListedInv
          <5>5. QED
            BY <5>3, <5>4
        <4>2. r \notin BagToSet(sessionRequests)'
          BY <1>10, <1>14, <4>1 DEF UnderWayOf
        <4>3. \A q \in UnderWayOf({"list", "default"})' : q = next
          BY <2>4, <4>1, <4>2 DEF UnderWayOf
        <4>4. QED
          BY <1>8, <2>6, <4>1, <4>3
      <3>2. next.kind = "default" /\ next.phase = "done"
        BY <1>6, <1>14
      <3>3. ASSUME ~crossed
            PROVE  /\ \A q \in UnderWayOf({"list"})' : FALSE
                   /\ \A q \in UnderWayOf({"default"})' : q = next
        BY <3>1, <3>2, <3>3 DEF UnderWayOf
      <3>4. QED
        BY <1>2, <1>6, <1>8, <1>10, <3>1, <3>2, <3>3 DEF ListedInv
    <2>8. EditedInv'
      BY <2>5 DEF EditedInv
    <2>9. QED
      BY <1>7, <1>8, <1>9, <2>3, <2>7, <2>8 DEF TabsInv, TabsTypes
  <1>15. QED
    BY <1>2, <1>13, <1>14

(* A load that asks for a default session.                                 *)
LEMMA LoadGoesOn ==
  ASSUME TabsTypes, UpdateInv, LastTypedStored, CreatedInv,
         NEW r \in BagToSet(sessionRequests), r.kind = "list",
         NEW next, Becomes(r, next), SoundRequest(next),
         next.kind = "default", next.phase = "sent",
         UNCHANGED <<lastSessionID, client_sessions, lastTyped>>
  PROVE  /\ SessionRequestTypes' /\ SessionRowTypes'
         /\ UpdateInv' /\ LastTypedStored' /\ CreatedInv'
         /\ Untouched({"create"}) /\ Untouched({"delete"})
         /\ Untouched({"create", "delete"})
  <1>1. SessionRequestTypes /\ SessionRowTypes
    BY DEF TabsTypes
  <1>2. /\ BagToSet(sessionRequests)' \subseteq
             BagToSet(sessionRequests) \cup {next}
        /\ sessionRequests' \in [BagToSet(sessionRequests)' -> Nat \ {0}]
        /\ \A kinds : r.kind \notin kinds /\ next.kind \notin kinds =>
             Untouched(kinds)
    BY SessionRequestBecomes
  <1>3. SessionRequestTypes'
    BY <1>1, <1>2, RequestsSound
  <1>4. SessionRowTypes'
    BY <1>1, RowTypesKept
  <1>5. /\ Untouched({"update"}) /\ Untouched({"create"})
        /\ Untouched({"delete"}) /\ Untouched({"create", "delete"})
    BY <1>2
  <1>6. UpdateInv' /\ LastTypedStored'
    BY <1>5, QueriesKept
  <1>7. CreatedInv'
    <2>1. /\ CreateAnswers' = CreateAnswers
          /\ \A q \in CreateAnswers : sessionRequests'[q] = sessionRequests[q]
      BY <1>5 DEF CreateAnswers, Untouched
    <2>2. QED
      BY <2>1, AnswersKept
  <1>8. QED
    BY <1>3, <1>4, <1>5, <1>6, <1>7

(* A load that crosses the work on the tabs is not one the tabs keep to.   *)
LEMMA RequestFailsInv ==
  ASSUME TabsInv, NEW r \in BagToSet(sessionRequests),
         SessionRequestFails(r), r.kind # "update"
  PROVE  TabsInv'
  <1> DEFINE next == SessionRequest("default", 0, NoQuery)
  <1>1. /\ TabsTypes /\ TabTypes /\ SessionRequestTypes /\ SessionRowTypes
        /\ ConnectionInv /\ UpdateInv /\ LastTypedStored /\ ActiveInv
        /\ CreatedInv
    BY DEF TabsInv, TabsTypes
  <1>2. /\ UNCHANGED <<sessions, activeSessionID, searchEntry, closing>>
        /\ UNCHANGED <<client_sessions, lastSessionID, lastTyped>>
        /\ UNCHANGED connectionVars /\ crossed' = TRUE
        /\ IF r.kind = "list" THEN Becomes(r, next) ELSE EndRequest(r)
    BY DEF SessionRequestFails, connectionVars
  <1>3. SoundRequest(next) /\ next.kind = "default" /\ next.phase = "sent"
    BY <1>1, NewRequestSound
  <1> HIDE DEF next
  <1>4. ConnectionInv' /\ ActiveInv' /\ TabTypes'
    BY <1>1, <1>2, ConnectionUnchanged, ActiveKept, TabTypesKept
  <1>5. ListedInv' /\ EditedInv'
    BY <1>2 DEF ListedInv, EditedInv
  <1>6. /\ SessionRequestTypes' /\ SessionRowTypes'
        /\ UpdateInv' /\ LastTypedStored' /\ CreatedInv'
    <2>1. CASE r.kind = "list"
      BY <1>1, <1>2, <1>3, <2>1, LoadGoesOn
    <2>2. CASE r.kind # "list"
      <3>1. EndRequest(r)
        BY <1>2, <2>2
      <3>2. client_sessions' = [id \in DOMAIN client_sessions' |->
                                  client_sessions'[id]]
        BY <1>1, <1>2 DEF SessionRowTypes
      <3>3. QED
        BY <1>1, <1>2, <3>1, <3>2, TabRequestEnds
    <2>3. QED
      BY <2>1, <2>2
  <1>7. QED
    BY <1>4, <1>5, <1>6 DEF TabsInv, TabsTypes

(* The sessions listed, or the default one, are the tabs.                  *)
LEMMA SessionsOpened ==
  ASSUME TabsInv, NEW r \in BagToSet(sessionRequests),
         r.kind \in {"list", "default"}, r.phase = "done",
         r.result # <<>>, EndRequest(r), Opened(r.result[1], r.result)
  PROVE  TabsInv'
  <1>1. /\ TabsTypes /\ TabTypes /\ SessionRequestTypes /\ SessionRowTypes
        /\ ConnectionInv /\ UpdateInv /\ LastTypedStored /\ ActiveInv
        /\ CreatedInv /\ ListedInv /\ EditedInv
    BY DEF TabsInv, TabsTypes
  <1>2. /\ UNCHANGED <<closing, crossed>>
        /\ UNCHANGED <<client_sessions, lastSessionID, lastTyped>>
        /\ UNCHANGED connectionVars /\ UNCHANGED client
        /\ sessions' = r.result
        /\ activeSessionID' = r.result[1].id
        /\ searchEntry' = r.result[1].query
    BY DEF Opened, connectionVars
  <1>3. /\ r.result \in Seq(SessionRecords)
        /\ r.kind = "default" => Len(r.result) = 1
    BY <1>1 DEF SessionRequestTypes, SoundRequest, SessionRequests
  <1>4. 1 \in DOMAIN r.result /\ r.result[1] \in SessionRecords
    BY <1>3
  <1>5. ConnectionInv'
    BY <1>1, <1>2, ConnectionUnchanged
  <1>6. TabTypes' /\ ActiveInv'
    <2>1. activeSessionID' \in 0..lastSessionID /\ searchEntry' \in SearchTexts
      BY <1>1, <1>2, <1>4, RowNumbers DEF SessionRecords
    <2>2. r.result[1].id \in IdsOf(r.result)
      BY <1>4 DEF IdsOf
    <2>3. TabTypes'
      BY <1>1, <1>2, <1>3, <2>1 DEF TabTypes, SessionRecords
    <2>4. ActiveInv'
      BY <1>2, <2>2 DEF ActiveInv, IdsOf
    <2>5. QED
      BY <2>3, <2>4
  <1>7. /\ SessionRequestTypes' /\ SessionRowTypes'
        /\ UpdateInv' /\ LastTypedStored' /\ CreatedInv'
        /\ CreateAnswers' = CreateAnswers \ {r}
    <2>1. client_sessions' = [id \in DOMAIN client_sessions' |->
                                client_sessions'[id]]
      BY <1>1, <1>2 DEF SessionRowTypes
    <2>2. QED
      BY <1>1, <1>2, <2>1, TabRequestEnds
  <1>8. ASSUME ~crossed
        PROVE  /\ closing = {} /\ CreateAnswers = {} /\ Deleting = {}
               /\ Deleting' = {}
               /\ Distinct(r.result)
               /\ IdsOf(r.result) = DOMAIN client_sessions
               /\ ~Loading'
    <2>1. r \in UnderWayOf({"list", "default"})
      BY DEF UnderWayOf
    <2>2. /\ ~Editing
          /\ \A q \in UnderWayOf({"list", "default"}) :
               r = q /\ sessionRequests[r] = 1
          /\ \A q \in UnderWayOf({"list"}) : q.phase = "done" =>
               Distinct(q.result) /\ IdsOf(q.result) = DOMAIN client_sessions
          /\ \A q \in UnderWayOf({"default"}) : DOMAIN client_sessions =
               IF q.phase = "sent" THEN {} ELSE {q.result[1].id}
      BY <1>1, <1>8, <2>1 DEF ListedInv, Loading
    <2>3. closing = {} /\ CreateAnswers = {} /\ Deleting = {}
      BY <2>2 DEF Editing, CreateAnswers, Deleting, UnderWayOf
    <2>4. Untouched({"delete"})
      BY <1>1, SessionRequestEnds
    <2>5. Deleting' = {}
      BY <2>3, <2>4 DEF Deleting, Untouched
    <2>6. ~Loading'
      <3>1. r \notin BagToSet(sessionRequests)'
        BY <1>1, <2>1, <2>2, SessionRequestEnds
      <3>2. UnderWayOf({"list", "default"})'
              \subseteq UnderWayOf({"list", "default"})
        BY <1>1, SessionRequestEnds
      <3>3. QED
        BY <2>2, <3>1, <3>2 DEF Loading, UnderWayOf
    <2>7. Distinct(r.result) /\ IdsOf(r.result) = DOMAIN client_sessions
      <3>1. CASE r.kind = "list"
        BY <2>2, <3>1 DEF UnderWayOf
      <3>2. CASE r.kind = "default"
        <4>1. DOMAIN r.result = {1}
          BY <1>3, <3>2
        <4>2. DOMAIN client_sessions = {r.result[1].id}
          BY <2>2, <3>2 DEF UnderWayOf
        <4>3. QED
          BY <4>1, <4>2 DEF Distinct, IdsOf
      <3>3. QED
        BY <3>1, <3>2
    <2>8. QED
      BY <2>3, <2>5, <2>6, <2>7
  <1>9. ListedInv'
    BY <1>2, <1>8 DEF ListedInv
  <1>10. EditedInv'
    <2>1. ASSUME ~crossed
          PROVE  /\ Distinct(sessions)'
                 /\ ((IdsOf(sessions) \ closing) \cup Created)'
                      = (DOMAIN client_sessions \ Deleting)'
                 /\ (Created \cap
                       (IdsOf(sessions) \cup closing \cup Deleting))' = {}
      <3>1. Created' = {}
        BY <1>7, <1>8, <2>1 DEF Created
      <3>2. Distinct(sessions)' /\ IdsOf(sessions)' = DOMAIN client_sessions
        BY <1>2, <1>8, <2>1 DEF Distinct, IdsOf
      <3>3. QED
        BY <1>2, <1>8, <2>1, <3>1, <3>2
    <2>2. QED
      BY <1>2, <2>1 DEF EditedInv
  <1>11. QED
    BY <1>5, <1>6, <1>7, <1>9, <1>10 DEF TabsInv, TabsTypes

(* A load that finds no session asks for a default one.                    *)
LEMMA NoneListed ==
  ASSUME TabsInv, NEW r \in BagToSet(sessionRequests),
         r.kind = "list", r.phase = "done", r.result = <<>>,
         Becomes(r, SessionRequest("default", 0, NoQuery)),
         UNCHANGED <<sessions, activeSessionID, searchEntry, closing,
                     client_sessions, lastSessionID, lastTyped, crossed,
                     connectionVars>>
  PROVE  TabsInv'
  <1>1. /\ TabsTypes /\ TabTypes /\ SessionRequestTypes /\ SessionRowTypes
        /\ ConnectionInv /\ UpdateInv /\ LastTypedStored /\ ActiveInv
        /\ CreatedInv /\ ListedInv
    BY DEF TabsInv, TabsTypes
  <1>2. PICK next : next = SessionRequest("default", 0, NoQuery)
    OBVIOUS
  <1>3. /\ SoundRequest(next) /\ next.kind = "default" /\ next.phase = "sent"
        /\ Becomes(r, next) /\ next # r
    BY <1>1, <1>2, NewRequestSound
  <1>4. /\ UNCHANGED connectionVars /\ UNCHANGED crossed
        /\ UNCHANGED <<sessions, activeSessionID, searchEntry, closing>>
        /\ UNCHANGED <<lastSessionID, client_sessions, lastTyped>>
    BY DEF connectionVars
  <1>5. ConnectionInv' /\ ActiveInv' /\ TabTypes'
    BY <1>1, <1>4, ConnectionUnchanged, ActiveKept, TabTypesKept DEF TabTypes
  <1>6. /\ SessionRequestTypes' /\ SessionRowTypes'
        /\ UpdateInv' /\ LastTypedStored' /\ CreatedInv'
        /\ Untouched({"create", "delete"})
    BY <1>1, <1>3, <1>4, LoadGoesOn
  <1>7. /\ UnderWayOf({"list", "default"})' \subseteq
             UnderWayOf({"list", "default"}) \cup {next}
        /\ next \in UnderWayOf({"list", "default"})'
        /\ next \notin BagToSet(sessionRequests) => sessionRequests'[next] = 1
        /\ sessionRequests[r] = 1 => r \notin BagToSet(sessionRequests)'
    BY <1>1, <1>3, SessionRequestBecomes
  <1>8. Loading'
    BY <1>7 DEF Loading
  <1>9. Editing' <=> Editing
    BY <1>4, <1>6 DEF Editing, Untouched
  <1>10. ListedInv'
    <2>1. ASSUME ~crossed
          PROVE  /\ ~Editing' /\ sessionRequests'[next] = 1
                 /\ \A q \in UnderWayOf({"list", "default"})' : q = next
                 /\ DOMAIN client_sessions = {}
      <3>1. r \in UnderWayOf({"list", "default"}) /\ r \in UnderWayOf({"list"})
        BY DEF UnderWayOf
      <3>2. /\ ~Editing
            /\ \A q \in UnderWayOf({"list", "default"}) :
                 r = q /\ sessionRequests[r] = 1
            /\ IdsOf(r.result) = DOMAIN client_sessions
        BY <1>1, <2>1, <3>1 DEF ListedInv, Loading
      <3>3. DOMAIN client_sessions = {}
        <4>1. DOMAIN r.result = {}
          OBVIOUS
        <4>2. IdsOf(r.result) = {}
          BY <4>1 DEF IdsOf
        <4>3. QED
          BY <3>2, <4>2
      <3>4. next \notin BagToSet(sessionRequests)
        BY <1>3, <3>2 DEF UnderWayOf
      <3>5. r \notin BagToSet(sessionRequests)'
        BY <1>7, <3>1, <3>2
      <3>6. \A q \in UnderWayOf({"list", "default"})' : q = next
        BY <1>7, <3>2, <3>5 DEF UnderWayOf
      <3>7. QED
        BY <1>7, <1>9, <3>2, <3>3, <3>4, <3>6
    <2>2. ASSUME ~crossed
          PROVE  /\ \A q \in UnderWayOf({"list"})' : FALSE
                 /\ \A q \in UnderWayOf({"default"})' : q = next
      BY <1>3, <2>1, <2>2 DEF UnderWayOf
    <2>3. QED
      BY <1>3, <1>4, <2>1, <2>2 DEF ListedInv
  <1>11. EditedInv'
    BY <1>8 DEF EditedInv
  <1>12. QED
    BY <1>5, <1>6, <1>10, <1>11 DEF TabsInv, TabsTypes

(* The tab of a new row comes behind the others.                           *)
LEMMA SearchSessionCreatedInv ==
  ASSUME TabsInv, NEW r \in BagToSet(sessionRequests),
         SearchSessionCreated(r)
  PROVE  TabsInv'
  <1>1. /\ TabsTypes /\ TabTypes /\ SessionRequestTypes /\ SessionRowTypes
        /\ ConnectionInv /\ UpdateInv /\ LastTypedStored /\ ActiveInv
        /\ CreatedInv /\ ListedInv /\ EditedInv
    BY DEF TabsInv, TabsTypes
  <1>2. /\ r.kind = "create" /\ r.phase = "done" /\ EndRequest(r)
        /\ UNCHANGED <<closing, crossed>>
        /\ UNCHANGED <<client_sessions, lastSessionID, lastTyped>>
        /\ UNCHANGED connectionVars /\ UNCHANGED client
        /\ sessions' = sessions \o r.result
        /\ activeSessionID' = r.result[1].id
        /\ searchEntry' = r.result[1].query
    BY DEF SearchSessionCreated, Opened, connectionVars
  <1>3. r.result \in Seq(SessionRecords) /\ Len(r.result) = 1
    BY <1>1, <1>2 DEF SessionRequestTypes, SoundRequest, SessionRequests
  <1>4. PICK s \in SessionRecords : s = r.result[1]
    BY <1>3
  <1>5. /\ sessions \in Seq(SessionRecords)
        /\ sessions' \in Seq(SessionRecords)
        /\ Len(sessions) \in Nat /\ DOMAIN sessions = 1..Len(sessions)
        /\ DOMAIN sessions' = 1..(Len(sessions) + 1)
        /\ \A i \in DOMAIN sessions : sessions'[i] = sessions[i]
        /\ sessions'[Len(sessions) + 1] = s
    <2>1. sessions \in Seq(SessionRecords) /\ Len(sessions) \in Nat
      BY <1>1 DEF TabTypes
    <2>2. /\ sessions' \in Seq(SessionRecords)
          /\ Len(sessions') = Len(sessions) + 1
      <3>1. sessions \o r.result \in Seq(SessionRecords)
        BY <1>3, <2>1
      <3>2. Len(sessions \o r.result) = Len(sessions) + Len(r.result)
        <4>1. \A t \in Seq(SessionRecords) :
                Len(sessions \o t) = Len(sessions) + Len(t)
          BY <2>1
        <4>2. QED
          BY <1>3, <4>1
      <3>3. QED
        BY <1>2, <1>3, <2>1, <3>1, <3>2
    <2>3. DOMAIN sessions' = 1..(Len(sessions) + 1)
      BY <2>2
    <2>4. \A i \in 1..Len(sessions) : sessions'[i] = sessions[i]
      BY <1>2, <1>3, <2>1
    <2>5. sessions'[Len(sessions) + 1] = r.result[1]
      BY <1>2, <1>3, <2>1
    <2>6. QED
      BY <1>4, <2>1, <2>2, <2>3, <2>4, <2>5
  <1>6. IdsOf(sessions)' = IdsOf(sessions) \cup {s.id}
    <2>1. \A i \in DOMAIN sessions' : i \in DOMAIN sessions
                                      \/ i = Len(sessions) + 1
      BY <1>5
    <2>2. IdsOf(sessions)' \subseteq IdsOf(sessions) \cup {s.id}
      BY <1>5, <2>1 DEF IdsOf
    <2>3. /\ Len(sessions) + 1 \in DOMAIN sessions'
          /\ \A i \in DOMAIN sessions : i \in DOMAIN sessions'
      BY <1>5
    <2>4. IdsOf(sessions) \cup {s.id} \subseteq IdsOf(sessions)'
      BY <1>5, <2>3 DEF IdsOf
    <2>5. QED
      BY <2>2, <2>4
  <1>7. ConnectionInv'
    BY <1>1, <1>2, ConnectionUnchanged
  <1>8. TabTypes' /\ ActiveInv'
    <2>1. activeSessionID' \in 0..lastSessionID /\ searchEntry' \in SearchTexts
      BY <1>1, <1>2, <1>4, RowNumbers DEF SessionRecords
    <2>2. TabTypes'
      BY <1>1, <1>2, <1>5, <2>1 DEF TabTypes, SessionRecords
    <2>3. ActiveInv'
      BY <1>2, <1>4, <1>6 DEF ActiveInv
    <2>4. QED
      BY <2>2, <2>3
  <1>9. /\ SessionRequestTypes' /\ SessionRowTypes'
        /\ UpdateInv' /\ LastTypedStored' /\ CreatedInv'
        /\ CreateAnswers' = CreateAnswers \ {r}
    <2>1. client_sessions' = [id \in DOMAIN client_sessions' |->
                                client_sessions'[id]]
      BY <1>1, <1>2 DEF SessionRowTypes
    <2>2. QED
      BY <1>1, <1>2, <2>1, TabRequestEnds
  <1>10. r \in CreateAnswers /\ s.id \in Created /\ Created' = Created \ {s.id}
    <2>1. r \in CreateAnswers
      BY <1>2 DEF CreateAnswers, UnderWayOf
    <2>2. \A q \in CreateAnswers : q.result[1].id = s.id => q = r
      BY <1>1, <1>4, <2>1 DEF CreatedInv
    <2>3. QED
      BY <1>4, <1>9, <2>1, <2>2 DEF Created
  <1>11. /\ Loading' <=> Loading
         /\ Deleting' = Deleting
    <2>1. \A kinds : r.kind \notin kinds => Untouched(kinds)
      BY <1>1, <1>2, SessionRequestEnds
    <2>2. Untouched({"list", "default"}) /\ Untouched({"delete"})
      BY <1>2, <2>1
    <2>3. QED
      BY <2>2 DEF Untouched, Loading, Deleting
  <1>12. ListedInv'
    <2>1. Editing
      BY <1>2 DEF Editing, UnderWayOf
    <2>2. QED
      BY <1>1, <1>2, <1>11, <2>1 DEF ListedInv
  <1>13. EditedInv'
    <2>1. ASSUME ~crossed, ~Loading, client # NoDaemon
          PROVE  /\ Distinct(sessions)'
                 /\ (IdsOf(sessions)' \ closing) \cup Created'
                      = DOMAIN client_sessions \ Deleting
                 /\ Created' \cap (IdsOf(sessions)' \cup closing \cup Deleting)
                      = {}
      <3>1. /\ Distinct(sessions)
            /\ (IdsOf(sessions) \ closing) \cup Created
                 = DOMAIN client_sessions \ Deleting
            /\ Created \cap (IdsOf(sessions) \cup closing \cup Deleting) = {}
        BY <1>1, <2>1 DEF EditedInv
      <3>2. s.id \notin IdsOf(sessions) /\ s.id \notin closing
        BY <1>10, <3>1
      <3>3. Distinct(sessions)'
        <4>1. \A i \in DOMAIN sessions : sessions[i].id # s.id
          BY <3>2 DEF IdsOf
        <4>2. ASSUME NEW i \in DOMAIN sessions', NEW j \in DOMAIN sessions',
                     sessions'[i].id = sessions'[j].id
              PROVE  i = j
          <5>1. /\ i \in DOMAIN sessions \/ i = Len(sessions) + 1
                /\ j \in DOMAIN sessions \/ j = Len(sessions) + 1
            BY <1>5
          <5>2. CASE i \in DOMAIN sessions /\ j \in DOMAIN sessions
            BY <1>5, <3>1, <4>2, <5>2 DEF Distinct
          <5>3. QED
            BY <1>5, <4>1, <4>2, <5>1, <5>2
        <4>3. QED
          BY <4>2 DEF Distinct
      <3>4. QED
        BY <1>6, <1>10, <3>1, <3>2, <3>3
    <2>2. QED
      BY <1>2, <1>11, <2>1 DEF EditedInv
  <1>14. QED
    BY <1>7, <1>8, <1>9, <1>12, <1>13 DEF TabsInv, TabsTypes

(* The load a connect starts: the tabs keep to it if nothing else is under *)
(* way.                                                                    *)
LEMMA TabsConnectedInv ==
  ASSUME TabsInv, NEW a \in AttemptIDs, TabsConnected(a)
  PROVE  TabsInv'
  <1>1. /\ TabsTypes /\ TabTypes /\ SessionRequestTypes /\ SessionRowTypes
        /\ ConnectionInv /\ UpdateInv /\ LastTypedStored /\ ActiveInv
        /\ CreatedInv
    BY DEF TabsInv, TabsTypes
  <1>2. PICK r : r = SessionRequest("list", 0, NoQuery)
    OBVIOUS
  <1>3. /\ SoundRequest(r) /\ r.kind = "list" /\ r.phase = "sent"
    BY <1>1, <1>2, NewRequestSound
  <1>4. /\ UNCHANGED <<sessions, activeSessionID, searchEntry, closing>>
        /\ UNCHANGED <<client_sessions, lastSessionID, lastTyped>>
        /\ InstallConnection(a) /\ BeginRequest(r)
        /\ crossed' = (Loading \/ Editing)
    BY <1>2 DEF TabsConnected, Send
  <1>5. ConnectionInv'
    BY <1>1, <1>4, ConnectionInstalled
  <1>6. ActiveInv' /\ TabTypes'
    BY <1>1, <1>4, ActiveKept, TabTypesKept
  <1>7. /\ SessionRequestTypes' /\ SessionRowTypes'
        /\ UpdateInv' /\ LastTypedStored' /\ CreatedInv'
    BY <1>1, <1>3, <1>4, TabRequestBegins
  <1>8. /\ UnderWayOf({"list", "default"})' =
             UnderWayOf({"list", "default"}) \cup {r}
        /\ r \notin BagToSet(sessionRequests) => sessionRequests'[r] = 1
        /\ Untouched({"create", "delete"})
    <2>1. /\ \A kinds : r.kind \notin kinds => Untouched(kinds)
          /\ \A kinds : r.kind \in kinds =>
               UnderWayOf(kinds)' = UnderWayOf(kinds) \cup {r}
          /\ r \notin BagToSet(sessionRequests) => sessionRequests'[r] = 1
      BY <1>1, <1>4, SessionRequestBegins
    <2>2. QED
      BY <1>3, <2>1
  <1>9. Loading' /\ (Editing' <=> Editing)
    BY <1>4, <1>8 DEF Loading, Editing, Untouched
  <1>10. ListedInv'
    <2>1. ASSUME ~crossed'
          PROVE  /\ ~Editing' /\ sessionRequests'[r] = 1
                 /\ \A q \in UnderWayOf({"list", "default"})' : q = r
      BY <1>3, <1>4, <1>8, <1>9, <2>1 DEF Loading, UnderWayOf
    <2>2. ASSUME ~crossed'
          PROVE  /\ \A q \in UnderWayOf({"list"})' : q.phase # "done"
                 /\ \A q \in UnderWayOf({"default"})' : FALSE
      BY <1>3, <2>1, <2>2 DEF UnderWayOf
    <2>3. QED
      BY <2>1, <2>2 DEF ListedInv
  <1>11. EditedInv'
    BY <1>9 DEF EditedInv
  <1>12. QED
    BY <1>5, <1>6, <1>7, <1>10, <1>11 DEF TabsInv, TabsTypes

(* What a load has read is what is there.                                  *)
LEMMA ListSessionsInv ==
  ASSUME TabsInv, NEW r \in BagToSet(sessionRequests), r.phase = "sent",
         ListSessions(r),
         UNCHANGED <<sessions, activeSessionID, searchEntry, closing,
                     lastTyped, crossed, connectionVars>>
  PROVE  TabsInv'
  <1>1. /\ TabsTypes /\ TabTypes /\ SessionRequestTypes /\ SessionRowTypes
        /\ ConnectionInv /\ UpdateInv /\ LastTypedStored /\ ActiveInv
        /\ CreatedInv /\ ListedInv
    BY DEF TabsInv, TabsTypes
  <1>2. /\ UNCHANGED <<sessions, activeSessionID, searchEntry, closing>>
        /\ UNCHANGED <<client_sessions, lastSessionID, lastTyped>>
        /\ UNCHANGED connectionVars /\ UNCHANGED crossed /\ r.kind = "list"
    BY DEF ListSessions, connectionVars
  <1>3. PICK listing :
          listing = [i \in DOMAIN InOrder(DOMAIN client_sessions) |->
            Session(InOrder(DOMAIN client_sessions)[i],
              client_sessions[InOrder(DOMAIN client_sessions)[i]].name,
              client_sessions[InOrder(DOMAIN client_sessions)[i]].query)]
    OBVIOUS
  <1>4. PICK next : next = [r EXCEPT !.phase = "done", !.result = listing]
    OBVIOUS
  <1>5. Becomes(r, next)
    BY <1>3, <1>4 DEF ListSessions, SessionAnswered
  <1>6. /\ listing \in Seq(SessionRecords) /\ Distinct(listing)
        /\ IdsOf(listing) = DOMAIN client_sessions
    BY <1>1, <1>3, ListingIs
  <1>7. r \in SessionRequests
    BY <1>1 DEF SessionRequestTypes, SoundRequest
  <1>8. /\ next.kind = "list" /\ next.phase = "done"
        /\ next.result = listing /\ next # r /\ next \in SessionRequests
    <2>1. /\ next.kind = "list" /\ next.phase = "done"
          /\ next.result = listing
      BY <1>2, <1>4, <1>7 DEF SessionRequests
    <2>2. next \in SessionRequests
      BY <1>4, <1>6, <1>7 DEF SessionRequests
    <2>3. QED
      BY <2>1, <2>2
  <1>9. SoundRequest(next)
    BY <1>8 DEF SoundRequest
  <1>10. /\ BagToSet(sessionRequests)' \subseteq
              BagToSet(sessionRequests) \cup {next}
         /\ sessionRequests' \in [BagToSet(sessionRequests)' -> Nat \ {0}]
         /\ \A kinds : r.kind \notin kinds => Untouched(kinds)
         /\ \A kinds : r.kind \in kinds =>
              UnderWayOf(kinds)' \subseteq UnderWayOf(kinds) \cup {next}
         /\ next \notin BagToSet(sessionRequests) => sessionRequests'[next] = 1
         /\ sessionRequests[r] = 1 => r \notin BagToSet(sessionRequests)'
    BY <1>1, <1>2, <1>5, <1>8, SessionRequestBecomes
  <1>11. ConnectionInv' /\ ActiveInv' /\ TabTypes'
    BY <1>1, <1>2, ConnectionUnchanged, ActiveKept, TabTypesKept DEF TabTypes
  <1>12. SessionRowTypes'
    BY <1>1, <1>2, RowTypesKept
  <1>13. SessionRequestTypes'
    BY <1>1, <1>2, <1>9, <1>10, RequestsSound
  <1>14. /\ Untouched({"update"}) /\ Untouched({"create"})
         /\ Untouched({"default"}) /\ Untouched({"create", "delete"})
    BY <1>2, <1>10
  <1>15. UpdateInv' /\ LastTypedStored'
    BY <1>1, <1>2, <1>14, QueriesKept
  <1>16. CreatedInv'
    <2>1. /\ CreateAnswers' = CreateAnswers
          /\ \A q \in CreateAnswers : sessionRequests'[q] = sessionRequests[q]
      BY <1>14 DEF CreateAnswers, Untouched
    <2>2. QED
      BY <1>1, <2>1, AnswersKept
  <1>17. r \in UnderWayOf({"list", "default"})
    BY <1>2 DEF UnderWayOf
  <1>18. Loading'
    <2>1. next \in UnderWayOf({"list", "default"})'
      BY <1>1, <1>5, <1>8, SessionRequestBecomes
    <2>2. QED
      BY <2>1 DEF Loading
  <1>19. Editing' <=> Editing
    BY <1>2, <1>14 DEF Editing, Untouched
  <1>20. ListedInv'
    <2>1. ASSUME ~crossed
          PROVE  /\ ~Editing' /\ sessionRequests'[next] = 1
                 /\ \A q \in UnderWayOf({"list", "default"})' : q = next
      <3>1. /\ ~Editing
            /\ \A q \in UnderWayOf({"list", "default"}) :
                 r = q /\ sessionRequests[r] = 1
        BY <1>1, <1>17, <2>1 DEF ListedInv, Loading
      <3>2. next \notin BagToSet(sessionRequests)
        BY <1>8, <3>1 DEF UnderWayOf
      <3>3. r \notin BagToSet(sessionRequests)'
        BY <1>10, <1>17, <3>1
      <3>4. \A q \in UnderWayOf({"list", "default"})' : q = next
        <4>1. UnderWayOf({"list", "default"})'
                \subseteq UnderWayOf({"list", "default"}) \cup {next}
          BY <1>2, <1>10
        <4>2. QED
          BY <3>1, <3>3, <4>1 DEF UnderWayOf
      <3>5. QED
        BY <1>10, <1>19, <3>1, <3>2, <3>4
    <2>2. ASSUME ~crossed
          PROVE  /\ \A q \in UnderWayOf({"list"})' : q = next
                 /\ \A q \in UnderWayOf({"default"})' : FALSE
      BY <1>8, <2>1, <2>2 DEF UnderWayOf
    <2>3. ASSUME ~crossed
          PROVE  \A q \in UnderWayOf({"list"})' :
                   /\ Distinct(q.result)
                   /\ IdsOf(q.result) = DOMAIN client_sessions
      BY <1>6, <1>8, <2>2, <2>3
    <2>4. QED
      BY <1>2, <2>1, <2>2, <2>3 DEF ListedInv
  <1>21. EditedInv'
    BY <1>18 DEF EditedInv
  <1>22. QED
    BY <1>11, <1>12, <1>13, <1>15, <1>16, <1>20, <1>21 DEF TabsInv, TabsTypes

(* No tab, no request and rows with the queries typed in them.             *)
LEMMA TabsInitial == ConnectionInit /\ TabsInit => TabsInv
  <1> SUFFICES ASSUME ConnectionInit, TabsInit PROVE TabsInv
    OBVIOUS
  <1>1. ConnectionInv /\ client = NoDaemon
    BY ConnectionInitial DEF ConnectionInit
  <1>2. /\ DOMAIN sessionRequests = {}
        /\ sessionRequests \in [DOMAIN sessionRequests -> Nat \ {0}]
    BY DEF TabsInit, EmptyBag, SetToBag
  <1>3. \A kinds : UnderWayOf(kinds) = {}
    BY <1>2 DEF UnderWayOf, BagToSet
  <1>4. /\ lastSessionID \in 0..2 /\ DOMAIN client_sessions = 1..lastSessionID
        /\ client_sessions \in [DOMAIN client_sessions ->
                                  [name : Names, query : SearchTexts]]
    <2>1. /\ lastSessionID \in 0..2
          /\ client_sessions \in
               [1..lastSessionID -> [name : {"New Tab"}, query : Queries]]
      <3>1. lastSessionID \in 0..2
        <4>1. lastSessionID \in {0, 2}
          BY DEF TabsInit
        <4>2. QED
          BY <4>1
      <3>2. client_sessions \in
              [1..lastSessionID -> [name : {"New Tab"}, query : Queries]]
        BY Zenon DEF TabsInit
      <3>3. QED
        BY <3>1, <3>2
    <2>2. {"New Tab"} \subseteq Names /\ Queries \subseteq SearchTexts
      BY DEF Names, SearchTexts
    <2>3. ASSUME NEW id \in 1..lastSessionID
          PROVE  client_sessions[id] \in [name : Names, query : SearchTexts]
      <3>1. client_sessions[id] \in [name : {"New Tab"}, query : Queries]
        BY <2>1
      <3>2. QED
        BY <2>2, <3>1
    <2>4. QED
      BY <2>1, <2>3
  <1>5. /\ lastSessionID \in 0..MaxSessions
        /\ \A id \in DOMAIN client_sessions : id \in SessionIDs
    BY <1>4, TabsAssumption DEF SessionIDs
  <1>6. /\ lastTyped \in [SessionIDs -> SearchTexts \cup {Unordered}]
        /\ \A id \in SessionIDs : id > lastSessionID => lastTyped[id] = NoQuery
        /\ \A id \in DOMAIN client_sessions :
             lastTyped[id] = client_sessions[id].query
    <2>1. lastTyped = [id \in SessionIDs |->
            IF id <= lastSessionID THEN client_sessions[id].query ELSE NoQuery]
      BY DEF TabsInit
    <2>2. \A id \in SessionIDs : id <= lastSessionID =>
            client_sessions[id].query \in SearchTexts
      BY <1>4 DEF SessionIDs
    <2>3. \A id \in SessionIDs : id > lastSessionID => ~(id <= lastSessionID)
      BY <1>4 DEF SessionIDs
    <2>4. \A id \in DOMAIN client_sessions : id <= lastSessionID
      BY <1>4
    <2>5. lastTyped \in [SessionIDs -> SearchTexts \cup {Unordered}]
      BY <2>1, <2>2 DEF SearchTexts
    <2>6. QED
      BY <1>5, <2>1, <2>3, <2>4, <2>5
  <1>7. SessionRowTypes
    BY <1>4, <1>5, <1>6 DEF SessionRowTypes
  <1>8. TabTypes /\ sessions = <<>> /\ ~crossed
    <2>1. <<>> \in Seq(SessionRecords) /\ 0 \in 0..lastSessionID
      BY <1>4
    <2>2. QED
      BY <2>1 DEF TabsInit, TabTypes, SearchTexts
  <1>9. SessionRequestTypes
    BY <1>2 DEF SessionRequestTypes, BagToSet
  <1>10. UpdateInv /\ LastTypedStored
    BY <1>3, <1>6 DEF UpdateInv, LastTypedStored
  <1>11. ActiveInv /\ CreatedInv /\ ListedInv /\ EditedInv
    BY <1>1, <1>3, <1>8
       DEF ActiveInv, CreatedInv, CreateAnswers, ListedInv, Loading, EditedInv
  <1>12. QED
    BY <1>1, <1>7, <1>8, <1>9, <1>10, <1>11 DEF TabsInv, TabsTypes

(* Each row keeps what was typed last in its tab, and tabs and rows differ *)
(* by the requests under way, through every step of the user, the daemon,  *)
(* the queued closures and the connect attempts.                           *)
THEOREM TabsInvariant == TabsSpec => []TabsInv
  <1>1. ConnectionInit /\ TabsInit => TabsInv
    BY TabsInitial
  <1>2. TabsInv /\ [TabsNext]_<<connectionVars, tabVars>> => TabsInv'
    <2> SUFFICES ASSUME TabsInv, [TabsNext]_<<connectionVars, tabVars>>
                 PROVE  TabsInv'
      OBVIOUS
    <2>1. ConnectionInv
      BY DEF TabsInv
    <2>2. CASE TabsUser
      BY <2>2, TypeQueryInv, SelectTabInv, CloseSearchSessionInv,
         NewSearchSessionInv DEF TabsUser
    <2>3. ASSUME NEW r \in BagToSet(sessionRequests), SessionStep(r)
          PROVE  TabsInv'
      <3>1. CASE SessionHandled(r)
        <4>1. /\ r.phase = "sent"
              /\ \/ ListSessions(r) \/ CreateSession(r)
                 \/ UpdateSession(r) \/ DeleteSession(r)
              /\ UNCHANGED <<sessions, activeSessionID, searchEntry, closing,
                             lastTyped, crossed, connectionVars>>
          BY <3>1 DEF SessionHandled
        <4>2. CASE ListSessions(r)
          BY <2>3, <4>1, <4>2, ListSessionsInv
        <4>3. CASE CreateSession(r)
          BY <2>3, <4>1, <4>3, CreateSessionInv
        <4>4. CASE UpdateSession(r)
          BY <2>3, <4>1, <4>4, UpdateSessionInv
        <4>5. CASE DeleteSession(r)
          BY <2>3, <4>1, <4>5, DeleteSessionInv
        <4>6. QED
          BY <4>1, <4>2, <4>3, <4>4, <4>5
      <3>2. CASE SessionRequestFails(r)
        BY <2>3, <3>2, UpdateFailsInv, RequestFailsInv
      <3>3. CASE SessionsListed(r)
        <4>1. CASE r.result = <<>>
          BY <2>3, <3>3, <4>1, NoneListed DEF SessionsListed
        <4>2. CASE r.result # <<>>
          BY <2>3, <3>3, <4>2, SessionsOpened DEF SessionsListed
        <4>3. QED
          BY <4>1, <4>2
      <3>4. CASE DefaultSessionCreated(r)
        <4>1. r.kind = "default" /\ r.phase = "done" /\ EndRequest(r)
              /\ Opened(r.result[1], r.result)
          BY <3>4 DEF DefaultSessionCreated
        <4>2. r.result # <<>>
          <5>1. Len(r.result) = 1
            BY <2>3, <4>1
               DEF TabsInv, TabsTypes, SessionRequestTypes, SoundRequest
          <5>2. QED
            BY <5>1
        <4>3. QED
          BY <2>3, <4>1, <4>2, SessionsOpened
      <3>5. CASE SearchSessionCreated(r)
        BY <2>3, <3>5, SearchSessionCreatedInv
      <3>6. QED
        BY <2>3, <3>1, <3>2, <3>3, <3>4, <3>5 DEF SessionStep
    <2>4. ASSUME NEW id \in closing, SessionClosed(id)
          PROVE  TabsInv'
      BY <2>4, SessionClosedInv
    <2>5. CASE TabsAttempt
      <3>1. UNCHANGED tabVars
        BY <2>5 DEF TabsAttempt
      <3>2. ASSUME NEW d \in Daemons, BeginConnectAttempt(d)
            PROVE  ConnectionInv' /\ UNCHANGED client
        BY <2>1, <3>2, AttemptBegins DEF BeginConnectAttempt
      <3>3. ASSUME NEW a \in AttemptIDs,
                   AttemptRequests(a) \/ RestoreConnectedState(a)
            PROVE  ConnectionInv' /\ UNCHANGED client
        BY <2>1, <3>3, AttemptMoves
      <3>4. ConnectionInv' /\ UNCHANGED client
        BY <2>5, <3>2, <3>3 DEF TabsAttempt
      <3>5. QED
        BY <3>1, <3>4, TabsAttemptInv
    <2>6. ASSUME NEW a \in AttemptIDs, TabsConnected(a)
          PROVE  TabsInv'
      BY <2>6, TabsConnectedInv
    <2>7. CASE UNCHANGED <<connectionVars, tabVars>>
      <3>1. ConnectionInv' /\ UNCHANGED client
        BY <2>1, <2>7, ConnectionUnchanged DEF connectionVars
      <3>2. QED
        BY <2>7, <3>1, TabsAttemptInv
    <2>8. QED
      BY <2>2, <2>3, <2>4, <2>5, <2>6, <2>7 DEF TabsNext
  <1>3. QED
    BY <1>1, <1>2, PTL DEF TabsSpec

(* As many tabs as there are different ids in them.                        *)
LEMMA TabsCounted ==
  ASSUME TabTypes, Distinct(sessions)
  PROVE  Len(sessions) = Cardinality(IdsOf(sessions))
  <1> DEFINE f == [i \in 1..Len(sessions) |-> sessions[i].id]
  <1>1. Len(sessions) \in Nat /\ DOMAIN sessions = 1..Len(sessions)
    BY DEF TabTypes
  <1>2. f \in Bijection(1..Len(sessions), IdsOf(sessions))
    <2>1. f \in [1..Len(sessions) -> IdsOf(sessions)]
      BY <1>1 DEF IdsOf
    <2>2. \A i, j \in 1..Len(sessions) : f[i] = f[j] => i = j
      BY <1>1 DEF Distinct
    <2>3. \A id \in IdsOf(sessions) : \E i \in 1..Len(sessions) : f[i] = id
      BY <1>1 DEF IdsOf
    <2> HIDE DEF f
    <2>4. QED
      BY <2>1, <2>2, <2>3
         DEF Bijection, Injection, Surjection, IsInjective
  <1>3. /\ IsFiniteSet(1..Len(sessions))
        /\ Cardinality(1..Len(sessions)) = Len(sessions)
    <2>1. /\ IsFiniteSet(1..Len(sessions))
          /\ Cardinality(1..Len(sessions)) =
               IF 1 > Len(sessions) THEN 0 ELSE Len(sessions) - 1 + 1
      BY <1>1, FS_Interval
    <2>2. QED
      BY <1>1, <2>1
  <1>4. Cardinality(IdsOf(sessions)) = Cardinality(1..Len(sessions))
    <2>1. ExistsBijection(1..Len(sessions), IdsOf(sessions))
      BY <1>2 DEF ExistsBijection
    <2>2. QED
      BY <1>3, <2>1, FS_Bijection
  <1>5. QED
    BY <1>3, <1>4

(* The tabs and their rows agree, and each row keeps what was typed in its *)
(* own tab: TypeQuery, the session requests and the closures of app.go and *)
(* sessions.go in any order.                                               *)
THEOREM TabsAreSound == TabsSpec => []TabsSound
  <1>1. TabsInv => TabsSound
    <2> SUFFICES ASSUME TabsInv PROVE TabsSound
      OBVIOUS
    <2>1. LastTypedStored /\ TabTypes /\ ActiveInv /\ EditedInv
      BY DEF TabsInv, TabsTypes
    <2>2. ASSUME connected, ~crossed, ~Loading, ~Editing
          PROVE  /\ Len(sessions) = Cardinality(DOMAIN client_sessions)
                 /\ IdsOf(sessions) = DOMAIN client_sessions
      <3>1. client # NoDaemon
        BY <2>2, ConnectionAssumption DEF TabsInv, ConnectionInv
      <3>2. closing = {} /\ Created = {} /\ Deleting = {}
        BY <2>2 DEF Editing, Created, CreateAnswers, Deleting, UnderWayOf
      <3>3. Distinct(sessions) /\ IdsOf(sessions) = DOMAIN client_sessions
        BY <2>1, <2>2, <3>1, <3>2 DEF EditedInv
      <3>4. QED
        BY <2>1, <3>3, TabsCounted
    <2>3. TabsAreSessions
      BY <2>1, <2>2 DEF TabsAreSessions, ActiveInv
    <2>4. QED
      BY <2>1, <2>3 DEF TabsSound
  <1>2. QED
    BY <1>1, TabsInvariant, PTL
=============================================================================
