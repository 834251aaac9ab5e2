------------------------- MODULE DesktopSelection --------------------------
(***************************************************************************)
(* The file selected in the gallery of the desktop client (app.go), and    *)
(* what may change it: a tile the user picks, a page of the library that   *)
(* replaces the list or is appended to it.  A page is loaded by a          *)
(* goroutine that remembers the selection of the time it began; the newest *)
(* load is the only one whose answer counts, but the closure of any load   *)
(* ends recentLoadBusy.  Bound: one load besides the newest is under way.  *)
(* The client is looked at in one search tab; switching it reloads.        *)
(*                                                                         *)
(* DesktopPanels and DesktopTiles extend this module and say what happens  *)
(* to the panels and to the caches of the tiles in each of its steps.      *)
(***************************************************************************)
EXTENDS DesktopConnection

CONSTANTS
  Files,   \* the files the daemon may list
  NoFile   \* selectedFileID == 0

ASSUME SelectionAssumption == NoFile \notin Files

VARIABLES
  listed,          \* the files of pane.recent and pane.searchResults
  selectedFileID,  \* pane.selectedFileID
  galleryLoad,     \* the load of the current galleryRequestID, or NoLoad
  olderLoad,       \* a load that no longer counts is still under way
  recentLoadBusy   \* pane.recentLoadBusy

loadVars == <<galleryLoad, olderLoad, recentLoadBusy>>
selectionVars == <<listed, selectedFileID, loadVars>>

NoLoad == [append |-> FALSE, preferred |-> NoFile, under |-> FALSE]

SelectionInit ==
  /\ listed = {}
  /\ selectedFileID = NoFile
  /\ galleryLoad = NoLoad
  /\ olderLoad = FALSE
  /\ recentLoadBusy = FALSE

\* The newest load is replaced by another, or by none.
Supersede == /\ ~(galleryLoad.under /\ olderLoad)
             /\ olderLoad' = (olderLoad \/ galleryLoad.under)

\* loadRecentPage and loadSearchPage, which also select alike: the file they
\* are asked to select, else the one selected when they begin.
BeginPageLoad(appendResults, selectFileID) ==
  /\ Supersede
  /\ recentLoadBusy' = TRUE
  /\ galleryLoad' =
       [append    |-> appendResults,
        preferred |-> IF selectFileID = NoFile THEN selectedFileID
                      ELSE selectFileID,
        under     |-> TRUE]

\* The refresh buttons, a new query or order, an import, the trash.
ReloadGallery ==
  /\ Online
  /\ \E f \in Files \cup {NoFile} : BeginPageLoad(FALSE, f)
  /\ UNCHANGED <<listed, selectedFileID>>

\* maybeLoadMoreRecent.
LoadMore ==
  /\ Online
  /\ ~recentLoadBusy /\ listed # {}
  /\ BeginPageLoad(TRUE, selectedFileID)
  /\ UNCHANGED <<listed, selectedFileID>>

\* The closure of the newest load.
EndPageLoad ==
  /\ galleryLoad.under
  /\ galleryLoad' = NoLoad
  /\ recentLoadBusy' = FALSE
  /\ UNCHANGED olderLoad

PageFails == EndPageLoad /\ UNCHANGED <<listed, selectedFileID>>

\* The closure of an older load shows nothing, and yet ends recentLoadBusy.
OlderPageDropped ==
  /\ olderLoad
  /\ olderLoad' = FALSE
  /\ recentLoadBusy' = FALSE
  /\ UNCHANGED <<listed, selectedFileID, galleryLoad>>

Selectable(preferred, items) ==
  IF preferred \in items THEN preferred ELSE NoFile

\* applyRecentItems and applySearchItems: the page replaces the list.
ApplyItems(items, preferred) ==
  /\ listed' = items
  /\ selectedFileID' = Selectable(preferred, items)

PageApplied ==
  /\ ~galleryLoad.append
  /\ \E items \in SUBSET Files : ApplyItems(items, galleryLoad.preferred)
  /\ EndPageLoad

\* appendRecentPage and appendSearchPage; an empty page changes nothing.
PageAppended ==
  /\ galleryLoad.append
  /\ \E items \in SUBSET Files :
       IF items = {} THEN UNCHANGED <<listed, selectedFileID>>
       ELSE ApplyItems(listed \cup items, galleryLoad.preferred)
  /\ EndPageLoad

\* A tile is tapped, or the grid selects it.
PickFile(f) ==
  /\ connected
  /\ f \in listed
  /\ selectedFileID # f
  /\ selectedFileID' = f
  /\ UNCHANGED <<listed, loadVars>>

\* A connect attempt: the answer of a load under way no longer counts.
ForgetPageLoad ==
  /\ Supersede
  /\ galleryLoad' = NoLoad
  /\ UNCHANGED <<listed, selectedFileID, recentLoadBusy>>

\* A new connection shows its first page, with nothing selected.
FirstPage ==
  /\ \E items \in SUBSET Files : ApplyItems(items, NoFile)
  /\ UNCHANGED loadVars

----------------------------------------------------------------------------
(* What the proofs of the modules that extend this one rest on.            *)

PageLoads ==
  [append : BOOLEAN, preferred : Files \cup {NoFile}, under : BOOLEAN]

SelectionTypes ==
  /\ listed \subseteq Files /\ selectedFileID \in Files \cup {NoFile}
  /\ galleryLoad \in PageLoads
  /\ olderLoad \in BOOLEAN /\ recentLoadBusy \in BOOLEAN

\* A connect attempt takes away the load of a page, so that a page is shown
\* while there is a connection.
SelectionInv == SelectionTypes /\ (galleryLoad.under => connected)
=============================================================================
