--------------------------- MODULE DesktopPanels ---------------------------
(***************************************************************************)
(* The preview of the selected file and the watcher window of the desktop  *)
(* client (app.go, video_watcher_ffmpeg.go).  Each shows what a goroutine  *)
(* fetches; a new request cancels the one before, and an answer counts     *)
(* only for the present connection and request.  A request that runs into  *)
(* its timeout ends silently.                                              *)
(***************************************************************************)
EXTENDS DesktopSelection

CONSTANTS
  Media,        \* the kind of each file: "image", "video" or "other"
  MaxFetches    \* bound on the goroutines under way at once

ASSUME PanelsAssumption ==
  /\ Media \in [Files -> {"image", "video", "other"}]
  /\ MaxFetches \in Nat \ {0}

VARIABLES
  preview,               \* the file the preview panel is about, and whether
                         \* it shows an image, a text, or that it is loading
  selectedPreviewCache,  \* p.selectedPreviewCache, which is never emptied
  previews,              \* the goroutines of preview requests
  watcher,               \* the same of the watcher window, if it is open
  watchers               \* the goroutines of watcher requests

panelVars == <<preview, selectedPreviewCache, previews, watcher, watchers>>
previewVars == <<preview, selectedPreviewCache, previews>>
watcherVars == <<watcher, watchers>>

Panel(f, shows) == [file |-> f, shows |-> shows]
EmptyPreview == Panel(NoFile, "text")
NoWindow == Panel(NoFile, "closed")

PanelsInit ==
  /\ preview = EmptyPreview
  /\ selectedPreviewCache = {}
  /\ previews = {}
  /\ watcher = NoWindow
  /\ watchers = {}

----------------------------------------------------------------------------
(* Requests.  previewRequestID and watcherRequestID are only compared with *)
(* the number a request was given, so a request carries whether it is the  *)
(* current one.  It is "asked" until its answer, an image or a text, waits *)
(* for the UI thread.  One that ran into its timeout is gone; "expired"    *)
(* keeps it while no other has taken its place.                            *)

UnderWay(fetches) == {x \in fetches : x.at # "expired"}

Asked(f, connection) ==
  [at |-> "asked", file |-> f, connection |-> connection, current |-> TRUE]

\* cancelPreviewRequest and cancelWatcherRequest
Cancelled(fetches) == {[x EXCEPT !.current = FALSE] : x \in UnderWay(fetches)}

\* beginPreviewRequest and beginWatcherRequest
WithRequest(fetches, f, connection) ==
  Cancelled(fetches) \cup {Asked(f, connection)}

WithAnswer(fetches, x, answer) ==
  (fetches \ {x}) \cup {[x EXCEPT !.at = answer]}

TimedOut(fetches, x) ==
  IF x.current THEN WithAnswer(fetches, x, "expired") ELSE fetches \ {x}

Bounded ==
  Cardinality(UnderWay(previews)) + Cardinality(UnderWay(watchers))
    <= MaxFetches

----------------------------------------------------------------------------
(* The preview.                                                            *)

\* loadSelectedPreview for the file f of the list items, over connection.
loadSelectedPreview(f, items, connection) ==
  LET known == f \in items /\ Media[f] # "other"
      cached == known /\ f \in selectedPreviewCache
  IN /\ UNCHANGED selectedPreviewCache
     /\ previews' = IF known /\ ~cached
                    THEN WithRequest(previews, f, connection)
                    ELSE Cancelled(previews)
     /\ preview' = Panel(IF f \in items THEN f ELSE NoFile,
                         IF ~known THEN "text"
                         ELSE IF cached THEN "image" ELSE "loading")

clearSelectedPreview ==
  /\ previews' = Cancelled(previews)
  /\ preview' = EmptyPreview
  /\ UNCHANGED selectedPreviewCache

PreviewAnswered(x) ==
  /\ x.at = "asked"
  /\ selectedPreviewCache' = selectedPreviewCache \cup {x.file}
  /\ previews' = WithAnswer(previews, x, "image")
  /\ UNCHANGED preview

\* An empty or unreadable original, or an error; the error of a request that
\* is no longer current is dropped at once.
PreviewFailed(x) ==
  /\ x.at = "asked"
  /\ \/ previews' = WithAnswer(previews, x, "text")
     \/ ~x.current /\ previews' = previews \ {x}
  /\ UNCHANGED <<preview, selectedPreviewCache>>

\* The context's 20 seconds are over.
PreviewTimesOut(x) ==
  /\ x.at = "asked"
  /\ previews' = TimedOut(previews, x)
  /\ UNCHANGED <<preview, selectedPreviewCache>>

\* The closure on the UI thread.
PreviewShown(x) ==
  /\ x.at \in {"image", "text"}
  /\ preview' = IF /\ x.current /\ isCurrentOperation(x.connection)
                   /\ selectedFileID = x.file
                THEN Panel(x.file, x.at) ELSE preview
  /\ previews' = previews \ {x}
  /\ UNCHANGED selectedPreviewCache

----------------------------------------------------------------------------
(* The watcher.                                                            *)

\* openNativeWatcherForFile and openNativeVideoWatcherForFile.
openNativeWatcherForFile(f, items) ==
  IF f \notin items THEN UNCHANGED watcherVars
  ELSE /\ watcher' = Panel(f, CASE Media[f] = "image" -> "loading"
                                [] Media[f] = "video" -> "video"
                                [] OTHER -> "text")
       /\ watchers' = IF Media[f] = "other" THEN watchers
                      ELSE WithRequest(watchers, f, currentConnection)

\* A video has been played to its end; an image waits to be shown.
WatcherAnswered(x) ==
  /\ x.at = "asked"
  /\ watchers' = IF Media[x.file] = "video" THEN watchers \ {x}
                 ELSE WithAnswer(watchers, x, "image")
  /\ UNCHANGED watcher

WatcherFailed(x) ==
  /\ x.at = "asked"
  /\ watchers' = IF x.current THEN WithAnswer(watchers, x, "text")
                 ELSE watchers \ {x}
  /\ UNCHANGED watcher

WatcherTimesOut(x) ==
  /\ x.at = "asked"
  /\ watchers' = watchers \ {x}
  /\ UNCHANGED watcher

\* presentWatcherWindow opens a window when there is none.
WatcherShown(x) ==
  /\ x.at \in {"image", "text"}
  /\ watcher' = IF x.current /\ isCurrentOperation(x.connection)
                THEN Panel(x.file, x.at) ELSE watcher
  /\ watchers' = watchers \ {x}

\* The user closes the window.
WatcherClosed ==
  /\ watcher # NoWindow
  /\ watcher' = NoWindow
  /\ watchers' = Cancelled(watchers)

----------------------------------------------------------------------------
(* The user and the pages.                                                 *)

SelectFile(f) ==
  /\ PickFile(f)
  /\ loadSelectedPreview(f, listed, currentConnection)
  /\ UNCHANGED <<watcherVars, connectionVars>>

\* A double tap, or a key in the watcher: select the file and open it.
OpenFile(f) ==
  /\ Online /\ f \in listed
  /\ IF selectedFileID = f THEN UNCHANGED <<selectionVars, previewVars>>
     ELSE PickFile(f) /\ loadSelectedPreview(f, listed, currentConnection)
  /\ openNativeWatcherForFile(f, listed)
  /\ UNCHANGED connectionVars

LoadsBegin ==
  /\ ReloadGallery \/ LoadMore \/ PageFails \/ OlderPageDropped
  /\ UNCHANGED <<panelVars, connectionVars>>

FollowSelection ==
  IF selectedFileID' = NoFile THEN clearSelectedPreview
  ELSE loadSelectedPreview(selectedFileID', listed', currentConnection)

PanelsPageApplied ==
  /\ PageApplied
  /\ FollowSelection
  /\ UNCHANGED <<watcherVars, connectionVars>>

\* The selection may move here, and the panels do not follow it.
PanelsPageAppended ==
  PageAppended /\ UNCHANGED <<panelVars, connectionVars>>

----------------------------------------------------------------------------
(* The connection.                                                         *)

PanelsConnect(d) ==
  /\ BeginConnectAttempt(d)
  /\ ForgetPageLoad
  /\ previews' = Cancelled(previews)
  /\ watchers' = Cancelled(watchers)
  /\ UNCHANGED <<preview, selectedPreviewCache, watcher>>

PanelsAttemptRequests(a) ==
  AttemptRequests(a) /\ UNCHANGED <<panelVars, selectionVars>>

\* Seeded fault: the preview is not loaded again after a failed attempt.
AttemptFailsOnly(a) ==
  RestoreConnectedState(a) /\ UNCHANGED <<panelVars, selectionVars>>

\* The attempt cancelled the preview's request: load it again.
PanelsAttemptFails(a) ==
  /\ RestoreConnectedState(a)
  /\ IF attempts[a].was /\ selectedFileID # NoFile
     THEN loadSelectedPreview(selectedFileID, listed, currentConnection)
     ELSE UNCHANGED previewVars
  /\ UNCHANGED <<watcherVars, selectionVars>>

PanelsConnected(a) ==
  /\ InstallConnection(a)
  /\ FirstPage
  /\ clearSelectedPreview
  /\ UNCHANGED watcherVars

----------------------------------------------------------------------------
FetchStep ==
  \/ \E x \in previews :
       /\ \/ PreviewAnswered(x) \/ PreviewFailed(x)
          \/ PreviewTimesOut(x) \/ PreviewShown(x)
       /\ UNCHANGED watcherVars
  \/ \E x \in watchers :
       /\ \/ WatcherAnswered(x) \/ WatcherFailed(x)
          \/ WatcherTimesOut(x) \/ WatcherShown(x)
       /\ UNCHANGED previewVars

PanelsStep ==
  \/ FetchStep /\ UNCHANGED <<selectionVars, connectionVars>>
  \/ /\ WatcherClosed
     /\ UNCHANGED <<previewVars, selectionVars, connectionVars>>
  \/ \E f \in Files : SelectFile(f) \/ OpenFile(f)
  \/ LoadsBegin \/ PanelsPageApplied \/ PanelsPageAppended
  \/ \E d \in Daemons : PanelsConnect(d)
  \/ \E a \in AttemptIDs :
       PanelsAttemptRequests(a) \/ PanelsAttemptFails(a) \/ PanelsConnected(a)

PanelsNext == PanelsStep /\ Bounded'

PanelsSpec ==
  /\ ConnectionInit /\ SelectionInit /\ PanelsInit
  /\ [][PanelsNext]_<<connectionVars, selectionVars, panelVars>>

----------------------------------------------------------------------------
(* Properties.                                                             *)

\* Whatever requests, pages and connect attempts overlap: a preview that says
\* it is loading the selected file has that file's request under way over the
\* present connection, unless it ran into its timeout, and no request that
\* may still be presented opens a closed window or shows another file than
\* the one it has, but for the message about a file it cannot show.
PanelsFollow ==
  /\ (/\ connected
      /\ preview.shows = "loading" /\ preview.file = selectedFileID)
       => \E x \in previews : /\ x.current
                             /\ \/ x.at = "expired"
                                \/ /\ x.file = preview.file
                                   /\ isCurrentOperation(x.connection)
  /\ \A x \in watchers :
       x.current => /\ watcher # NoWindow
                    /\ \/ watcher.file = x.file
                       \/ Media[watcher.file] = "other"

\* The preview is of the file that is selected, and that Trash Selected and
\* Edit Tags would act on.
PreviewOfSelection ==
  connected => preview.file = selectedFileID

----------------------------------------------------------------------------
(* The inductive invariant. *)

Fetches ==
  [at : {"asked", "image", "text", "expired"}, file : Files,
   connection : Connections, current : BOOLEAN]

PanelsTypes ==
  /\ preview \in [file : Files \cup {NoFile},
                  shows : {"image", "text", "loading"}]
  /\ preview.shows = "loading" => preview.file \in Files
  /\ selectedPreviewCache \subseteq Files
  /\ watcher \in {NoWindow} \cup
       [file : Files, shows : {"image", "text", "loading", "video"}]
  /\ previews \subseteq Fetches /\ watchers \subseteq Fetches

\* A new request takes the place of the one before.
OneCurrent(fetches) ==
  \A x, y \in fetches : x.current /\ y.current => x = y

\* A selection that has moved off the file of the preview, whose request may
\* have been in vain since, is not moved back onto it by an appended page.
NotSelectedAgain ==
  preview.shows = "loading" /\ preview.file # selectedFileID =>
    (galleryLoad.append => galleryLoad.preferred # preview.file)

PanelsInv ==
  /\ ConnectionInv /\ SelectionInv /\ PanelsTypes
  /\ OneCurrent(watchers)
  /\ NotSelectedAgain
  /\ PanelsFollow
=============================================================================
