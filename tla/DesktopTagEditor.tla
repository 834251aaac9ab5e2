-------------------------- MODULE DesktopTagEditor --------------------------
(***************************************************************************)
(* The tag editor of the desktop client (showEditTagsDialog in             *)
(* internal/desktop/fyneapp/app.go): a window for one file, with the tags  *)
(* the daemon has for it, an entry for new ones, suggestions for the word  *)
(* being typed, and buttons that stage the entry's tags as pending, commit *)
(* what is pending, and reload.  Every request runs in a goroutine of its  *)
(* own and ends in a closure on the UI thread.                             *)
(*                                                                         *)
(* The window keeps the connection it was opened with.  Only one window is *)
(* open; a closure that belongs to another one, or to a connection that is *)
(* no longer the current one, does nothing.  After staging and committing  *)
(* the client also reloads the selected file's metadata and the PTR status *)
(* (DesktopTiles, DesktopPTRStatus), which share nothing with the editor.  *)
(* The daemon is taken to show what it holds: Library says when it does.   *)
(***************************************************************************)
EXTENDS DesktopConnection

CONSTANTS
  EditedFiles,
  EditorTags,
  NoTag,        \* no word is being typed
  MaxWindows,   \* bound on the windows opened in a behaviour
  EditorSlots   \* numbers, the bound on the requests under way at a time

VARIABLES
  editor,          \* p.tagEditorWindow and what its closures share
  windowsOpened,   \* windows opened so far
  editorRequests,  \* the goroutine in each slot
  daemonTags       \* daemonTags[d][f]: tags pending or current at daemon d

editorVars == <<editor, windowsOpened, editorRequests, daemonTags>>

NoEditor == [open |-> FALSE]
NoGoroutine == [kind |-> "none"]

EditorInit ==
  /\ editor = NoEditor
  /\ windowsOpened = 0
  /\ editorRequests = [s \in EditorSlots |-> NoGoroutine]
  /\ daemonTags = [d \in Daemons |-> [f \in EditedFiles |-> {}]]

----------------------------------------------------------------------------
(* The widgets. *)

\* setBusy: the entry and the buttons; the suggestions stay.
Busy(e) == [e EXCEPT !.busy = TRUE, !.stageEnabled = FALSE,
                     !.commitEnabled = FALSE]

Released(e) == [e EXCEPT !.busy = FALSE, !.stageEnabled = e.entry # {},
                         !.commitEnabled = TRUE]

\* A request of window e; tags is what it sends, or what the suggestions
\* leave out.
Request(kind, e, tags) ==
  [kind |-> kind, window |-> e.window, daemon |-> e.connection.client,
   file |-> e.file, tags |-> tags, phase |-> "sent", result |-> {}]

\* The slots have no meaning of their own: the first free one is taken.
FreeSlots ==
  {s \in EditorSlots : /\ editorRequests[s] = NoGoroutine
                       /\ \A q \in EditorSlots :
                            editorRequests[q] = NoGoroutine => s <= q}

\* refreshSuggestions: without a prefix nothing is asked for, and requests
\* under way are not outdated.
RefreshSuggestions(e, requests, s) ==
  IF e.prefix = NoTag
    THEN /\ editor' = [e EXCEPT !.suggestions = {}]
         /\ editorRequests' = requests
    ELSE /\ editor' = [e EXCEPT !.suggestionID = s]
         /\ editorRequests' =
              [requests EXCEPT ![s] = Request("suggest", e, e.existing)]

\* entry.OnChanged: updateStageButton, refreshSuggestions.
EntryChanged(e, entry, prefix) ==
  \E s \in FreeSlots :
    RefreshSuggestions([e EXCEPT !.entry = entry, !.prefix = prefix,
                                 !.stageEnabled = entry # {}],
                       editorRequests, s)

\* refreshMetadata.
RefreshMetadata(e, s) ==
  /\ editor' = Busy(e)
  /\ editorRequests' = [editorRequests EXCEPT ![s] = Request("load", e, {})]

----------------------------------------------------------------------------
(* The user. *)

\* showEditTagsDialog closes the window that is open.
ShowEditTagsDialog(f) ==
  /\ Online
  /\ windowsOpened < MaxWindows
  /\ windowsOpened' = windowsOpened + 1
  /\ \E s \in FreeSlots :
       RefreshMetadata(
         [open |-> TRUE, window |-> windowsOpened + 1, file |-> f,
          connection |-> currentConnection, busy |-> FALSE,
          stageEnabled |-> FALSE, commitEnabled |-> FALSE,
          entry |-> {}, prefix |-> NoTag, suggestions |-> {},
          suggestionID |-> s, existing |-> {}, label |-> "loading",
          entered |-> {}, confirmed |-> {}, tappedBusy |-> FALSE], s)
  /\ UNCHANGED <<daemonTags, connectionVars>>

CloseEditor ==
  /\ editor.open
  /\ editor' = NoEditor
  /\ UNCHANGED <<windowsOpened, editorRequests, daemonTags, connectionVars>>

\* The entry takes text only while it is enabled.
TypeTag(t) ==
  /\ editor.open /\ ~editor.busy /\ t \notin editor.entry
  /\ EntryChanged([editor EXCEPT !.entered = @ \cup {t}],
                  editor.entry \cup {t}, t)
  /\ UNCHANGED <<windowsOpened, daemonTags, connectionVars>>

EraseTag(t) ==
  /\ editor.open /\ ~editor.busy /\ t \in editor.entry
  /\ EntryChanged([editor EXCEPT !.entered = @ \ {t}],
                  editor.entry \ {t}, NoTag)
  /\ UNCHANGED <<windowsOpened, daemonTags, connectionVars>>

\* appendTagEditorInput: the word being typed stays beside the suggestion.
\* The suggestions work, and enable the stage button, while the editor is
\* busy.
TapSuggestion(t) ==
  /\ editor.open /\ t \in editor.suggestions \ editor.entry
  /\ EntryChanged([editor EXCEPT !.entered = @ \cup {t},
                                 !.tappedBusy = @ \/ editor.busy],
                  editor.entry \cup {t}, t)
  /\ UNCHANGED <<windowsOpened, daemonTags, connectionVars>>

\* Seeded fault: the entry is cleared when its tags are sent.
StageTappedClears ==
  /\ editor.open /\ editor.stageEnabled
  /\ \E s \in FreeSlots :
       /\ editor' = [Busy(editor) EXCEPT !.entry = {}]
       /\ editorRequests' = [editorRequests EXCEPT
            ![s] = Request("stage", editor, editor.entry)]
  /\ UNCHANGED <<windowsOpened, daemonTags, connectionVars>>

StageTapped ==
  /\ editor.open /\ editor.stageEnabled
  /\ \E s \in FreeSlots :
       /\ editor' = Busy(editor)
       /\ editorRequests' = [editorRequests EXCEPT
            ![s] = Request("stage", editor, editor.entry)]
  /\ UNCHANGED <<windowsOpened, daemonTags, connectionVars>>

CommitTapped ==
  /\ editor.open /\ editor.commitEnabled
  /\ \E s \in FreeSlots :
       /\ editor' = Busy(editor)
       /\ editorRequests' = [editorRequests EXCEPT
            ![s] = Request("commit", editor, {})]
  /\ UNCHANGED <<windowsOpened, daemonTags, connectionVars>>

RefreshTapped ==
  /\ editor.open /\ ~editor.busy
  /\ \E s \in FreeSlots : RefreshMetadata(editor, s)
  /\ UNCHANGED <<windowsOpened, daemonTags, connectionVars>>

----------------------------------------------------------------------------
(* The requests. *)

Answer(s, phase, result) ==
  editorRequests' = [editorRequests EXCEPT
    ![s] = [@ EXCEPT !.phase = phase, !.result = result]]

\* The daemon handles the request: a commit makes pending tags current, the
\* suggestions leave out what the file had when they were asked for.
RequestHandled(s) ==
  LET r == editorRequests[s] IN
  /\ r.kind # "none" /\ r.phase = "sent"
  /\ \/ r.kind = "load" /\ Answer(s, "done", daemonTags[r.daemon][r.file])
     \/ r.kind \in {"stage", "commit"} /\ Answer(s, "done", {})
     \/ r.kind = "suggest"
          /\ \E found \in {{}, EditorTags} :
               Answer(s, "done", found \ r.tags)
  /\ daemonTags' = [daemonTags EXCEPT ![r.daemon][r.file] =
       IF r.kind = "stage" THEN @ \cup r.tags ELSE @]
  /\ UNCHANGED <<editor, windowsOpened, connectionVars>>

\* It fails or times out, before the daemon handled it or after.
RequestLost(s) ==
  LET r == editorRequests[s] IN
  /\ r.kind # "none" /\ r.phase = "sent"
  /\ Answer(s, "failed", {})
  /\ \/ UNCHANGED daemonTags
     \/ r.kind = "stage" /\ daemonTags' =
          [daemonTags EXCEPT ![r.daemon][r.file] = @ \cup r.tags]
  /\ UNCHANGED <<editor, windowsOpened, connectionVars>>

----------------------------------------------------------------------------
(* The closures on the UI thread. *)

\* Unless p.tagEditorWindow != window || !p.isCurrentOperation(connection);
\* suggestions must also be the last ones asked for.
Counts(s) ==
  /\ editor.open
  /\ editorRequests[s].window = editor.window
  /\ isCurrentOperation(editor.connection)
  /\ editorRequests[s].kind = "suggest" => s = editor.suggestionID

Freed(s) == [editorRequests EXCEPT ![s] = NoGoroutine]

Closure(s, kind, phase) ==
  /\ editorRequests[s].kind = kind /\ editorRequests[s].phase = phase
  /\ Counts(s)
  /\ UNCHANGED <<windowsOpened, daemonTags, connectionVars>>

Dropped(s) ==
  /\ editorRequests[s].kind # "none" /\ editorRequests[s].phase # "sent"
  /\ ~Counts(s)
  /\ editorRequests' = Freed(s)
  /\ UNCHANGED <<editor, windowsOpened, daemonTags, connectionVars>>

MetadataLoaded(s) ==
  /\ Closure(s, "load", "done")
  /\ RefreshSuggestions(
       Released([editor EXCEPT !.existing = editorRequests[s].result,
                               !.label = "loaded"]), Freed(s), s)

MetadataFailed(s) ==
  /\ Closure(s, "load", "failed")
  /\ editor' = [Released(editor) EXCEPT !.existing = {}, !.label = "failed",
                  !.suggestions = {}, !.commitEnabled = FALSE]
  /\ editorRequests' = Freed(s)

\* Seeded fault: the entry is kept for the user to see what was staged, and
\* the tags are not loaded again.
StagedWithoutReload(s) ==
  /\ Closure(s, "stage", "done")
  /\ editor' = Released([editor EXCEPT
       !.confirmed = @ \cup editorRequests[s].tags])
  /\ editorRequests' = Freed(s)

\* entry.SetText("") and refreshMetadata.
Staged(s) ==
  /\ Closure(s, "stage", "done")
  /\ RefreshMetadata([editor EXCEPT !.entry = {}, !.prefix = NoTag,
       !.suggestions = {},
       !.confirmed = @ \cup editorRequests[s].tags], s)

\* Seeded fault: an error leaves the editor as it is.
StagingFailedBusy(s) ==
  /\ Closure(s, "stage", "failed")
  /\ editorRequests' = Freed(s)
  /\ UNCHANGED editor

StagingFailed(s) ==
  /\ Closure(s, "stage", "failed")
  /\ editor' = Released(editor)
  /\ editorRequests' = Freed(s)

Committed(s) ==
  /\ Closure(s, "commit", "done")
  /\ RefreshMetadata(editor, s)

CommitFailed(s) ==
  /\ Closure(s, "commit", "failed")
  /\ editor' = Released(editor)
  /\ editorRequests' = Freed(s)

\* A request that timed out leaves the suggestions as they are.
Suggested(s) ==
  /\ \/ Closure(s, "suggest", "done")
     \/ Closure(s, "suggest", "failed")
  /\ \/ editor' = [editor EXCEPT !.suggestions = editorRequests[s].result]
     \/ editorRequests[s].phase = "failed" /\ UNCHANGED editor
  /\ editorRequests' = Freed(s)

----------------------------------------------------------------------------
UserEdits ==
  \/ \E f \in EditedFiles : ShowEditTagsDialog(f)
  \/ \E t \in EditorTags : TypeTag(t) \/ EraseTag(t) \/ TapSuggestion(t)
  \/ CloseEditor \/ StageTapped \/ CommitTapped \/ RefreshTapped

EditorStep(s) ==
  \/ RequestHandled(s) \/ RequestLost(s) \/ Dropped(s)
  \/ MetadataLoaded(s) \/ MetadataFailed(s) \/ Staged(s) \/ StagingFailed(s)
  \/ Committed(s) \/ CommitFailed(s) \/ Suggested(s)

EditorConnects ==
  /\ \/ \E d \in Daemons : BeginConnectAttempt(d)
     \/ \E a \in AttemptIDs : \/ AttemptRequests(a)
                              \/ RestoreConnectedState(a)
                              \/ InstallConnection(a)
  /\ UNCHANGED editorVars

EditorNext ==
  \/ UserEdits
  \/ \E s \in EditorSlots : EditorStep(s)
  \/ EditorConnects

EditorSpec ==
  /\ ConnectionInit /\ EditorInit
  /\ [][EditorNext]_<<connectionVars, editorVars>>

----------------------------------------------------------------------------
(* Properties. *)

SentBefore(kinds) ==
  {s \in EditorSlots : /\ editorRequests[s].kind \in kinds
                       /\ editorRequests[s].window = editor.window}

\* Tags the user entered are lost by no failure, late answer or reconnect:
\* each is in the entry, in a request under way, or at the daemon.
NothingEnteredLost ==
  editor.entered \subseteq
    editor.entry \cup daemonTags[editor.connection.client][editor.file]
      \cup UNION {editorRequests[s].tags : s \in SentBefore({"stage"})}

\* The tags shown as the file's are tags of that file at that daemon, and
\* once the editor is usable again they include every tag it reported as
\* staged.
ShowsWhatWasStaged ==
  /\ editor.existing \subseteq
       daemonTags[editor.connection.client][editor.file]
  /\ ~editor.busy /\ editor.label = "loaded" =>
       editor.confirmed \subseteq editor.existing

\* A disabled editor waits for a request that will enable it again, unless
\* a connect attempt began since it was opened.
BusyForAReason ==
  editor.busy /\ isCurrentOperation(editor.connection) =>
    SentBefore({"load", "stage", "commit"}) # {}

\* The tag editor keeps what was entered, shows what was staged, and is
\* never left disabled by a request that has ended; except that a
\* suggestion tapped while a request is under way may be lost, since the
\* answer clears the entry.
EditorSound ==
  editor.open =>
    /\ editor.tappedBusy \/ (NothingEnteredLost /\ ShowsWhatWasStaged)
    /\ BusyForAReason

----------------------------------------------------------------------------
(* The inductive invariant. *)

Editors ==
  [open : {TRUE}, window : Nat, file : EditedFiles, connection : Connections,
   busy : BOOLEAN, stageEnabled : BOOLEAN, commitEnabled : BOOLEAN,
   entry : SUBSET EditorTags, prefix : EditorTags \cup {NoTag},
   suggestions : SUBSET EditorTags, suggestionID : EditorSlots,
   existing : SUBSET EditorTags, label : {"loading", "loaded", "failed"},
   entered : SUBSET EditorTags, confirmed : SUBSET EditorTags,
   tappedBusy : BOOLEAN]

Goroutines ==
  [kind : {"load", "stage", "commit", "suggest"}, window : Nat,
   daemon : Daemons, file : EditedFiles, tags : SUBSET EditorTags,
   phase : {"sent", "done", "failed"}, result : SUBSET EditorTags]

EditorTypes ==
  /\ editor \in Editors \cup {NoEditor}
  /\ windowsOpened \in Nat
  /\ editorRequests \in [EditorSlots -> Goroutines \cup {NoGoroutine}]
  /\ daemonTags \in [Daemons -> [EditedFiles -> SUBSET EditorTags]]

\* What a request brought, or left at its daemon, is of its file.
RequestInv(r) ==
  /\ r.window <= windowsOpened
  /\ r.phase = "done" =>
       /\ r.kind = "load" => r.result \subseteq daemonTags[r.daemon][r.file]
       /\ r.kind = "stage" => r.tags \subseteq daemonTags[r.daemon][r.file]
  /\ editor.open /\ r.window = editor.window =>
       r.daemon = editor.connection.client /\ r.file = editor.file

\* The window that is open is the newest; its connection is not forgotten
\* and come back to.
WindowInv ==
  /\ editor.window = windowsOpened /\ Snapshot(editor.connection)
  /\ LET there == daemonTags[editor.connection.client][editor.file]
     IN editor.existing \cup editor.confirmed \subseteq there

\* One request besides suggestions is under way at a time, and while it is
\* the entry stays as it was; so what is reported as staged is shown when
\* the tags have been loaded again.
OneAtATime ==
  /\ \A s, q \in SentBefore({"load", "stage", "commit"}) : s = q
  /\ SentBefore({"load", "stage", "commit"}) # {} => editor.busy
  /\ editor.stageEnabled \/ editor.commitEnabled => ~editor.busy
  /\ \A s \in SentBefore({"stage"}) : editorRequests[s].tags = editor.entry
  /\ \A s \in SentBefore({"load"}) :
       editorRequests[s].phase = "done" =>
         editor.confirmed \subseteq editorRequests[s].result
  /\ (~editor.busy \/ SentBefore({"stage", "commit"}) # {}) =>
       (editor.label = "loaded" => editor.confirmed \subseteq editor.existing)
  /\ editor.entered \subseteq
       editor.entry \cup daemonTags[editor.connection.client][editor.file]

EditorInv ==
  /\ ConnectionInv /\ EditorTypes
  /\ \A s \in EditorSlots :
       editorRequests[s] # NoGoroutine => RequestInv(editorRequests[s])
  /\ editor.open =>
       WindowInv /\ BusyForAReason /\ (editor.tappedBusy \/ OneAtATime)
=============================================================================
