-------------------------- MODULE MCDesktopGallery --------------------------
(***************************************************************************)
(* A small instance of what follows the gallery of the desktop client: the *)
(* preview and the watcher of the selected file, the caches behind the     *)
(* tiles, the tag editor, and the search tabs.  They run over the same     *)
(* connect attempts (the first two over the same pages) and share nothing  *)
(* else: part says which of them is looked at in a behaviour.  The tiles   *)
(* are looked at for one file, two of whose loads are under way at a time; *)
(* the editor for one tag of one file, in two windows one after the other; *)
(* the tabs for connect attempts one after the other, and once they have   *)
(* crossed with a load the user waits for the next connect.                *)
(***************************************************************************)
EXTENDS MCDesktopPanels, DesktopTiles, DesktopTagEditor, DesktopTabs

VARIABLE part

galleryVars ==
  <<connectionVars, selectionVars, panelVars, tileVars, editorVars, tabVars,
    part>>

GalleryInit ==
  /\ ConnectionInit /\ SelectionInit /\ PanelsInit /\ TilesInit
  /\ EditorInit /\ TabsInit
  /\ part \in {"panels", "tiles", "tags", "sessions"}
  /\ part # "sessions" => client_sessions = <<>>

PanelsPart ==
  /\ part = "panels" /\ PanelsNext
  /\ UNCHANGED <<tileVars, editorVars, tabVars>>

TilesPart ==
  /\ part = "tiles" /\ TilesNext /\ listed' \subseteq {f1}
  /\ UNCHANGED <<panelVars, editorVars, tabVars>>

EditorPart ==
  /\ part = "tags" /\ EditorNext
  /\ UNCHANGED <<selectionVars, panelVars, tileVars, tabVars>>

TabsPart ==
  /\ part = "sessions" /\ TabsNext
  /\ connectAttemptID' # connectAttemptID =>
       \A a \in AttemptIDs : attempts[a] = NoAttempt
  /\ crossed => ~TabsUser
  /\ UNCHANGED <<selectionVars, panelVars, tileVars, editorVars>>

GalleryNext ==
  (PanelsPart \/ TilesPart \/ EditorPart \/ TabsPart) /\ UNCHANGED part

GallerySpec == GalleryInit /\ [][GalleryNext]_galleryVars
=============================================================================
