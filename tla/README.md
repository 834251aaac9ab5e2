# hydrus-go: specifications and proofs

hydrus-go is a headless daemon (`hydrusd`) over a Hydrus client bundle (a set of
SQLite files and a tree of managed media files), with a desktop client on top of
its HTTP API. This directory holds TLA+ models of the parts in which several
actors work on the same state: the daemon's transactions, reads, runs and child
process, and the client's windows, caches and queues, whose answers arrive late.
TLC configurations check them on small instances; TLAPS proofs show that every
safety property these runs find to hold, from the synchronisation of the Public
Tag Repository (PTR) to the tabs of the desktop client, holds for every value of
the constants.

    tlc -workers 2 -config MCPTRSync.cfg MCPTRSync     # a run, see "Runs"
    tlapm PTRSyncProofs.tla                            # proofs, about a minute
    tlapm PTRPendingProofs.tla
    tlapm PTRManagerProofs.tla
    tlapm ImportPlacementProofs.tla
    tlapm HyDownloaderProofs.tla
    tlapm DaemonStoreProofs.tla                        # three minutes
    tlapm DesktopWorkProofs.tla
    tlapm DesktopGalleryProofs.tla                     # five minutes

## 1. Inventory

| part | source (under `internal/`) | state | operations |
|---|---|---|---|
| PTR state and update log | `db/hydrusdb/ptrsync.go` | row `ptr_sync_state` (phase, lease token, slice, retry), `repository_updates_*`, `repository_unregistered_updates_*`, `repository_updates_processed_*`, definition and mapping tables | recover, begin, persist metadata, list, finalise a downloaded batch, apply an update, complete, throttle, fail, cancel |
| PTR sync run | `ptrsync/manager.go`, `ptrsync/client.go` | a goroutine: lease, hashes to download, batch in memory | fetch state, download in parallel, flush, apply, clean up |
| PTR scheduling | `ptrsync/manager.go`, `app/app.go` | opt-in marker, `activeRun`, wakeup timer, enabled flag | `NewManager`, `Trigger`, wakeup, `Shutdown` |
| PTR pending mappings | `ptrsync.go`, `manager.go`, `api/httpapi/ptr_pending.go` | `pending_mappings_*` | stage, list, upload, commit locally |
| PTR wire format | `ptrsync/wire.go` | none | decode and encode |
| local import | `importing/*.go`, `db/hydrusdb/import.go` | managed files, `files_info`, service membership, known URLs | import a path, an upload, a URL; clean up |
| file placement | `storage/clientfiles/place.go` | temp file, destination | copy, link, compare |
| transactions and connections | `db/hydrusdb/tx.go`, `bundle.go` | write gate, one write connection; a pool of read connections | BEGIN IMMEDIATE, COMMIT, ROLLBACK; acquire, release, close |
| library: trash, Client API mutations | `db/hydrusdb/trash.go`, `clientapi_mutations.go`, `metadata_create_ids.go` | memberships, tags and their caches, notes, times, URLs | one transaction each |
| metadata, tags, browse | `db/hydrusdb/metadata*.go`, `tag_*.go`, `browse.go` | cached table names | sequences of queries |
| bootstrap | `bootstrap/*.go` | a new bundle on disk, a lock file | lock, stage, publish, verify, clean up |
| storage layout | `storage/clientfiles/layout.go`, `db/hydrusdb/storage.go` | prefix table | look up a directory |
| hydownloader supervision | `downloader/hydownloader/manager.go` | child process, exit channel, back-off | launch, restart, status, activate, shut down |
| access control | `api/httpapi/access.go` | session keys | authorise, create |
| desktop: connection | `desktop/fyneapp/app.go` | client, generation, attempts | connect, fail, replace |
| desktop: import queue | `app.go`, `import_queue*.go` | entries, one processor | choose, upload, retry, remove, clear |
| desktop: PTR status | `app.go` | status, request number, polling | fetch, trigger, poll |
| desktop: gallery and panels | `app.go`, `watcher.go`, `video_watcher_ffmpeg.go` | list, selection, preview, watcher, tile caches | load pages, select, fetch |
| desktop: tag editor | `app.go` | entry, loaded tags, busy flag | type, stage, commit, refresh |
| search tabs | `desktop/fyneapp/sessions.go`, `api/httpapi/sessions.go`, `db/hydrusdb/sessions.go` | tabs; rows of `client_sessions` | type, select, open, close, load |

Interaction: the HTTP handlers call the stores; everything that writes goes
through one write connection and its gate; the PTR manager reads on a read
bundle and writes through that connection, from its own goroutine; reads share
the connections of read bundles; `app.Run` starts and stops the managers. The
bundle is the only thing two daemons can share, which the PTR lease and the
bootstrap lock guard. The desktop client sends each request from a goroutine of
its own and takes the answer in a closure on its UI thread; every answer carries
a snapshot of the connection, and often a request number, to be compared then.

What is hard here: transactions of a run interleaved with those of requests and
of another daemon; a read in one transaction used in a later one; reads without
a snapshot; crashes between transactions and between renames; network answers
that are lost, late or out of order; timers against manual triggers and shutdown;
clean-ups that look before they act; the same connection and busy flags shared by
overlapping connect attempts. The hazards are listed at their lines in
`PROJECT.json`.

What makes each part correct, in a sentence: *synchronisation* leaves the tables
of the repository log replayed in order and loses no update; *scheduling* forgets
no retry and lets nothing run past shutdown; *pending mappings* reach the
repository exactly as staged; *import* never has a recorded file without its
bytes or bytes nobody recorded; the *library* keeps its tables and caches in step,
and a *read* of it returns what was recorded and nothing else; the *pool* loses no
connection and closes; *bootstrap* publishes a complete bundle or none;
*supervision* keeps one child, restarts it, and leaves none behind; the *client*
should keep answers of another file or connection apart, lose nothing the user
entered or queued, and never be left waiting for an answer nobody will give.
Where the code falls short of this, section 4 says what the properties except and
section 6 what happens.

## 2. Modules

### PTR synchronisation

* `PTRMappingTables`: the four mapping tables of a service as a record of sets,
  and what the statements of `applyPTRMappingsTx`, `stagePTRPendingMappingsTx`
  and `commitPTRPendingMappingsSuccessTx` do to them.
* `PTRRepository`: the remote repository as constants: updates (their number is
  their `hash_id`), `IndexOf`, `KindOf` (definitions or mappings), `Adds`,
  `Deletes`, `Defines`; the order in which `queryPTRProcessableUpdates` hands
  them out (`Precedes`: index, then definitions first, then hash id).
* `PTRReplay`: the promise. Updates are applied one at a time, each once, in
  repository order. Nothing else happens to the tables.
* `PTRSync`: what the code does. `sync` is the `ptr_sync_state` row,
  `updates`/`unregistered`/`stored`/`processed` the update tables, `up[p]` and
  `run[p]` the processes and their runs. One action per transaction or network
  answer: `RecoverPTRSyncFoundation`, `CheckRetry` (the status read of `beginSync`),
  `BeginPTRSync`, `FetchRemoteState`, `PersistPTRSyncMetadata`,
  `ListPTRPendingUpdateHashes`, `DownloadRound`,
  `FinalizePTRDownloadedUpdatesBatch`, `ListPTRProcessableUpdates`,
  `ApplyPTRProcessableUpdate`, `CompletePTRSyncSuccess`, and the ends of a run:
  `FinishPTRSyncThrottled`, `FinishPTRSyncFailure`, `CancelPTRSync`,
  `ContextCancelled`, `CleanupFails`, `Crash`. `Faults` names the faults a
  configuration allows.
* `PTRSyncProofs`: the theorems, section 5.

A run token is a number never used before; the code draws 128 random bits, taken
to be fresh. The parts of `ptrsync.go` that create tables, intern hashes and tags
and size their statements adaptively run inside the transactions above and
change nothing the properties tell apart.

`PTRPending` composes `PTRMappingTables` with the promise of `PTRReplay`: the
daemon applies the repository's log in order (`SyncApply`), while requests stage
mappings and several `CommitPending` calls run: list, upload, local commit. An
upload may be accepted and its answer lost (`CommitInterrupted` after
`UploadAccepted`), or fail. The repository takes what it is sent, and other
clients add and delete.

`PTRManager` is one daemon over several starts: `NewManager`, `Trigger` (by a
user, by a wakeup, by a run that continues), the end of a run, `Shutdown` called
twice, and the closing of the bundles. Time is abstract: what is due lies in the
future or in the past. What a run does to the tables is left to `PTRSync`; here
it ends in one of the ways `PTRSync` ends it.

### Import and hydownloader

`ImportPlacement` follows requests from acceptance to answer: the URL lookup,
`existingPlacementResult`, the hard link, the record under the write gate, the
commit (which may be durable and still reported as failed), the clean-up in its
two steps, and crashes. `files` are the managed files, `rows` the committed rows,
`dirty` those of the open transaction, which a read on the same connection sees.
The path of a file is its hash and its type; a row is found by its hash alone
(`Recorded`), and names one path (`RecordedAs`).

`HyDownloader`: the child process and the channel through which its exit is
delivered once, to `start`, to `refreshProcessState` (liveness loop, Status,
Shutdown) or to `Shutdown`. A receive and the update of `m.cmd` after it are one
step. A child of a crashed hydrusd may hold the port as an orphan.

`MCManagers` puts the scheduling and the pending mappings of the PTR manager and
the supervision of hydownloader in one instance; `MCPTRPending` has the pending
mappings alone.

### The store of the daemon

* `Library`: the rows of a bundle that are not the PTR's. Each mutation is one
  action, since it is one transaction under the write gate: `RecordImport`,
  `EnsureHashIDs`, `TrashFile`, `AddTags`, `SetNotes`, `SetTime`,
  `AssociateURLs`. `GetMetadata` and `SearchByTags` are what the code does, a
  sequence of queries (`Queries`, one action each) without a snapshot, over the
  table names a read bundle cached (`names`). `hydrusBundle` tells a bundle made
  by Hydrus, with specific mapping and display caches, from one made by
  hydrus-go. `DisplayOf` is the display algorithm: siblings, then parents of the
  ideal tag.
* `ReadPool`: the connections of a read bundle. A read holds one while its
  errgroup takes more, one per pair of tag service and file service group, and
  then one for the names. Receives race with cancellation; `Close` takes them all.
* `FreshBundle`: what `nativebundle.go` seeds (services, storage rows, tables),
  what its verification demands, and how `layout.go` resolves it; definitions only.
* `Bootstrap`: `EnsureFreshClientBundle` step by step for several daemons on one
  directory: look, lock, look again, stage, move path by path, verify, clean up,
  unlock; with crashes, a lock file that ages, and a file system that may fail any
  call, those of the clean-up included. The directory holds the six paths of a
  bundle, and besides them the companions SQLite keeps beside a database open for
  writing, which a verification may leave (`companions`).
* `MCDaemonStore` puts library, pool and bootstrapping in one instance.

### The desktop client

* `DesktopConnection`: the connect attempts. An attempt makes three requests in a
  goroutine and ends in a closure; a second may begin meanwhile.
  `currentConnection`, `isCurrentOperation` and `isCurrentConnectAttempt` are the
  snapshots and comparisons of the code. The other modules extend it and say what
  each step of an attempt does to their part.
* `DesktopImportQueue`: `processImportQueue` as the loop it is (check the
  connection, begin an entry, upload, check again, finish or give back), the
  closure of a paused processor, selections expanded in the background, and every
  operation of the queue's widget.
* `DesktopPTRStatus`: requests for the status and for a manual sync, the polling
  goroutine with its timeout and error limit, and the closures that show answers.
* `DesktopSelection`: pages and the selected file; `DesktopPanels` (preview,
  watcher) and `DesktopTiles` (thumbnails, basic metadata, tags, with the limits
  on concurrent loads) extend it. What a tile cache holds is the connection it came
  over.
* `DesktopTagEditor`: the dialog: load, stage, commit and suggestion requests,
  the busy flag, windows that close and are opened again for the same file.
* `DesktopTabs`: the search tabs and the rows of `client_sessions` the daemon
  keeps for them. The requests under way are a bag; a tab is found by its name.
* `MCDesktopWork` puts the queue and the PTR status in one instance,
  `MCDesktopGallery` panels, tiles, tag editor and tabs.

Each module of theorems extends what it is about: `PTRSyncProofs`,
`PTRPendingProofs`, `PTRManagerProofs`, `ImportPlacementProofs` and
`HyDownloaderProofs` one component each; `DaemonStoreProofs` the library, the
read pool and bootstrapping; `DesktopWorkProofs` the connection, the PTR status
and the import queue; `DesktopGalleryProofs` extends that one and adds tiles,
panels, tag editor and tabs. The inductive invariants stand at the end of the
modules they are about.

In the four composed MC modules a variable `part`, chosen initially, says which
part moves in a behaviour. The parts share no state but the steps of connect
attempts, so their product would show nothing the parts do not show.

## 3. Runs

| run | configuration | what it shows |
|---|---|---|
| `ptr_sync` | `MCPTRSync.cfg`, 1.4 million states | two daemons, every fault: order, replay, nothing lost below the slice, truthful completion, definitions in time, progress, and refinement of `PTRReplay` |
| `ptr_sync_live` | `MCPTRSyncLive.cfg`, 252,000 states | a run ends; the lease is released |
| `managers` | `MCManagers.cfg`, 76,000 states | scheduling: retries and next updates stay scheduled and are resumed, except after the three moments of section 4, and Shutdown ends; pending mappings: status, convergence with the repository, none dropped; hydownloader: one child, no lost exit, restart, clean shutdown |
| `import` | `MCImportPlacement.cfg`, 612,000 states | recorded files are present, failures leave no file nobody recorded except those of section 4, answers are durable, nothing is overwritten |
| `daemon_store` | `MCDaemonStore.cfg`, 876,000 states | tables, caches and reads of the library agree; no read connection is lost and nobody waits for ever; of the paths of a bundle bootstrapping leaves all or none |
| `desktop_work` | `MCDesktopWork.cfg`, 218,000 states | one processor on the entry it holds, the queue drains; the PTR status is the connection's and its headline settles |
| `desktop_gallery` | `MCDesktopGallery.cfg`, 1.6 million states | a late answer reopens no watcher window and puts no other file in it, a preview is not left loading, the caches hold nothing of another connection but the tags of section 4, nothing entered in the tag editor is lost, a tab's session keeps what was typed in it |

Five more runs (`ptr_pending_commit`, `import_cleanup`, `import_other_type`,
`bootstrap_cleanup`, `desktop_selection`) show statements of the documentation and
the tests that the code does not keep (section 6).
Type invariants and the inductive invariants of section 5 are proved and not run.

**Bounds.** `ptr_sync`: four updates over three indices, chosen so that hash ids
and repository order disagree, one index holds definitions and mappings, and one
mapping is added, deleted and added again; two daemons; three runs, so that a run
can be interrupted, overtaken by another daemon's and repeated; rounds and
batches of two, so that a round can fail in part and a batch spans rounds; one
retry, so that the limit is reached. `ptr_sync_live` has two runs and batches of
three to keep the liveness graph small; it leaves out failing clean-up
transactions, after which a lease stays taken until a daemon starts.
`managers`: two mappings, two concurrent commits, four published updates: one
mapping can be added, deleted, added again and deleted; three starts of the daemon
and two users triggering; for hydownloader two starts of hydrusd (one leaves an
orphan) and back-off 2, 4, 7 for the code's 2 s to 120 s, its model having no
other counter. `import`: one content, two types it may be detected
as, three times of which two agree after rounding, two requests: conflicts need
no more.

`daemon_store`: two files and three tags, one with an ideal that has a parent; two
committed mutations between and during a metadata read and a search (one before the
names are cached and one after, or both inside a read); two reads over a pool of two
with two pairs each, so that they can wait for each other; two daemons and two
starts, side by side or the second after the first has failed or crashed (the
bootstrapping alone was also checked with three starts); two hex digits for the
code's sixteen. `desktop_work`: two files, a file and a folder to choose, three
selections or retries, two connect attempts that may overlap; two PTR requests under
way and one closure waiting. `desktop_gallery`: two attempts; two files with
different media for the panels, one for the tiles with two loads under way; one tag
of one file in two windows, two requests at a time; two sessions (two stored ones,
or one opened beside the default), one query besides the empty one, two requests at
a time. For the tabs attempts come one after the other, and the user waits for the
next connect once tabs have crossed with a load.

**Deadlock** is checked where the system always has a next step (`import` and the
violations of it, `ptr_pending_commit`). In the others the bounded number of runs,
starts, requests or publications lets the system stop.

**Fairness.** `PTRSync`: weak fairness of each process's run steps (a goroutine is
scheduled, requests have timeouts) and of its start; nothing makes the remote
publish or a user trigger. `PTRManager`: weak fairness of ready goroutines, of the
end of a run (shown in `PTRSync`), of timers and of a shutdown once begun; none of
users, of a stop request or of the shutdown timeout. `HyDownloader`: weak fairness
of the supervisor, of Shutdown and of the one activation; none of hydownloader
itself, of requests or of the operator. `ReadPool`: weak fairness of each read's
steps, of `Close`, and of the caller giving up, which HTTP servers and request
timeouts guarantee; without it two reads can hold each other's connections for ever.
`DesktopImportQueue`: weak fairness of the processor (its uploads end) and of the UI
closure; none of the user or of connecting. `DesktopPTRStatus`: weak fairness of
request goroutines and closures, and strong fairness of a poll's answer or error:
the poll repeats for as long as requests time out, and nothing in the code makes the
daemon answer, so `HeadlineSettles` is about a daemon that, polled again and again,
answers some poll or refuses it.

Each property has a seeded fault, an operator marked "Seeded fault" beside the
definition it replaces, that breaks it.

## 4. Exceptions the properties name

* `WakeupScheduled` and `AutoResume` except three moments: a scheduled Trigger that
  failed on the database (logged, not repeated); a run after which the next due
  time could not be read, so that neither a wakeup nor another run follows
  (`manager.go:248`); and enabling by hand during a back-off (section 6).
* `FailedLeavesNothing` excepts contents whose clean-up was cut short by a crash or
  an error, contents several requests worked on, and files a clean-up kept because
  the same bytes are recorded under another type (`kept`); without the last
  exception it is `FailedRecordLeavesNoFile`, which the code violates.
  `RecordedPresent` and `AnswerDurable` except contents two requests shared while a
  record failed (section 6 shows why).
* `Converged` speaks of the moments when every published update is applied, and
  excepts mappings a commit made current that had become pending after it read what
  to upload (`unsent`).
* `LibraryInv` excepts deleted rows of a specific cache, which `AddTags` leaves,
  and display rows of pending tags that another tag implies. `RowsFaithful` lets
  tags and notes be missing when the bundle cached its table names before the table
  existed, and for files hydrus-go moved in a bundle with specific caches.
  `SearchFindsTagged` has the first of these, and for a search with writes
  meanwhile it says only that what is found was tagged.
* `BootstrappedStays` and `SeedPassesVerification` hold until a stale lock is taken
  over; `FailureRemovesPublished` also excepts a crash in the middle of
  publication and a file system that fails the clean-up, and says nothing of files
  that are not paths of a bundle.
* `TilesSound` excepts tags `loadSelectedTags` stored after its connection had ended
  (`strayTags`, section 6), and speaks of tag loads only while no connect attempt
  has failed. `PanelsFollow` says nothing of late preview and metadata answers for
  another selection, which one comparison drops.
* `EditorSound` excepts a suggestion tapped while a request is under way, and says
  nothing of an editor opened before the last connect attempt.
* `TabsSound` lets a query be overtaken by another update of the same tab that was
  under way when it was typed, and tabs differ from rows after an opening, closing
  or failed request crossed with a load, until the next connect.

## 5. Proofs

`PTRSyncProofs` proves, for all values of the constants that satisfy the
assumptions of `PTRRepository` and `PTRSync` (about 1,000 obligations):

* `SyncInvariant`: `Spec => []SyncInv`;
* `TypeCorrect`, `OrderedApplication`, `ReplayedTables`, `NoUpdateLost`,
  `CompleteIsComplete`, `DefinitionsInTime`: type correctness and the invariants of
  the run `ptr_sync`; `BoundedRetries`: the retry count keeps its limit;
* `ProgressIsKept`: the action property;
* `SyncImplementsReplay`: `Spec` implements `PTRReplay`.

None of the properties is inductive. `AppliedInOrder` depends on the list a run
carries from one transaction to the next still being what may be applied now;
that is true only of the run that holds the lease. `SyncInv` therefore adds

* `TokenInv`: tokens are fresh, so at most one run passes the fence
  `ensurePTRSyncRunActive`;
* `TableInv`: the known updates are a prefix of the repository, each of them is
  registered or stored, the slice is a boundary of that prefix;
* `RunInv`: the run that passes the fence has a true picture of the tables
  (`SoundRun`), while a run that has lost the lease may believe anything.

The induction has one lemma per action, and under it a step per conjunct the
action can disturb; a run without the lease changes no table, and a change made
by the holder leaves every other run outside the fence. The refinement follows:
only `ApplyPTRProcessableUpdate` changes `processed` or `tables`, and under
`SyncInv` it applies the next update; every other step stutters.

`PTRPendingProofs` proves, for any set of mappings, any number of concurrent
commits and any length of the log, `PendingInvariant` and from it `PendingTypes`,
`UnambiguousStatus`, `Convergence` and `PendingIsKept`. `Converged` says nothing
of a daemon that lags behind, so it is not inductive. `PendingInv` adds

* `LagInv`: where the daemon and the repository disagree on a mapping, a
  published update that settles it is not applied yet (or the mapping was
  committed without being sent);
* `LogInv`: the last update that mentions a mapping agrees with the repository,
  so that applying an update never reopens a disagreement;
* `CommitInv`: what a commit finds pending in its last step is on its way
  back, unless it became pending after the list was read (`late`: a staging that
  finds the mapping current or pending adds nothing). This is what lets the
  local commit make mappings current before the sync delivers them.

`HyDownloaderProofs` proves `SupervisionInvariant` and from it `ChildIsTracked`,
`ExitIsNoticed` and `StopIsStop`. The invariant is the conjunction of the type,
`TrackedChild`, `ExitNoticed` and `LoopOver`: when the liveness loop is over and
Shutdown goes on, nobody can launch a child any more; without it the exit that
Shutdown receives could be that of the last child but one.

`PTRManagerProofs` proves `ManagerInvariant`, `ManagerTypes` and
`WakeupsNeverForgotten`. A Trigger that comes during a back-off does nothing, so
`WakeupScheduled` needs `RetryArmed`: while a back-off lasts its wakeup is armed.
`RunInv` says what phase, retry time and outcome can be for each state of the
run's goroutine (after a success it is idle only if nothing is due, or if the next
due time could not be read), `DownInv` that a stopped process has nothing under way.

`ImportPlacementProofs` proves, for any files, times and importers,
`ImportInvariant` and from it `ImportTypes`, `ImportsKeepFile`,
`FailedImportsCleanUp`, `AnswersKept` and, for every step,
`PlacementOverwritesNothing`. Each request relies on something at each of its steps
(`PlacedInv`): its file is there until its record is decided, the row is there
before URLs are added, and what it is about to remove is recorded by nobody
else. `DirtyInv` says that the open transaction holds only the committing
request's row, `SharedInv` that two requests for one content are known to be two,
`OwnerInv` that a file at a path nobody recorded has a request which will record or
remove it, or belongs to the exceptions of section 4.

`DaemonStoreProofs`:

* The read pool, for any number of connections and any finite set of reads:
  `PoolInvariant`, `ConnectionsAreConserved`. Free connections, those of each
  read and those `Close` has received add up to the pool, by lemmas on sums over
  a finite set; the limit of the errgroup bounds what a read takes.
* Bootstrapping, for any number of daemons and starts: `BootInvariant`,
  `BootstrappedBundleStays`, `FailedStartRemovesPublished`. Who works holds the lock
  (`LockInv`), so the directory has only its paths (`OwnInv`), those up to where it
  is (`ProgressInv`); between two daemons it has all of them or none (`WholeInv`),
  as long as no crash and no failing removal has spoilt it. Companions are files
  besides these paths, of which the theorems say nothing. `SeedIsVerified`: what is
  seeded passes its own verification for any finite set of digits and any prefix
  length; the ids and counts come out right since roots and prefixes correspond one
  to one.
* The library, for any files, tags, siblings and parents and any number of
  mutations: `LibraryInvariant`, `RowsAgree`, `SearchesFindTagged`. Every table
  and cache is given as a function of the memberships and mappings, and each
  mutation keeps it so.
* Metadata reads: `ReadInvariant`, `RowsAreFaithful`. Mutations may be committed
  between two queries. `ReadInv` says of every query that has been made how its
  answer lies between what was recorded when the read began and what is recorded
  now, and that the answers of a read nobody disturbed are what is recorded.
  That there is a largest group of file services is where the files must be
  finitely many.

`DesktopWorkProofs` and `DesktopGalleryProofs`. The lemmas about attempts say what
each of their steps does to a snapshot taken earlier (`Snapshot`): it stays
outdated once it is, and while it counts its client is the present one and no
attempt is under way (`ConnectionInv`). With them:

* `StatusIsOfThisConnection` from `StatusInvariant`: nothing is shown during an
  attempt, and every request and closure carries a snapshot.
* `OneProcessorWorks` from `QueueInvariant`: the index a processor holds stays
  that of its entry through every operation of the widget, since the ones that
  would move it are off while it works.
* `TilesAreSound` from `TilesInvariant`: a load of the present generation was
  begun over the present connection, and every connection took an attempt of its
  own (`GenerationInv`). The one load that compares nothing is why tags need the
  exception `strayTags`: an entry leaves that set only with tags of the present
  connection or with the cache.
* `PanelsFollowSelection` from `PanelsInvariant`: one watcher request is current
  (`OneCurrent`), and an appended page never moves the selection back onto a file
  whose preview may have failed meanwhile (`NotSelectedAgain`).
* `EditorKeepsTags` from `EditorInvariant`: at most one request besides
  suggestions is under way, and meanwhile the entry stays as it was
  (`OneAtATime`), unless a suggestion was tapped then; what a window shows is at
  its daemon (`WindowInv`).
* `TabsAreSound` from `TabsInvariant`. An update is the last one typed or nothing
  says which is (`UpdateInv`). Tabs and rows differ by the requests under way:
  tabs less those being closed, with the answers to come, are the rows less those
  to be deleted (`EditedInv`); this holds from the end of a load on, since while a
  load is under way nothing else is, or the load counts as crossed (`ListedInv`).

Each theorem assumes what its constants must be: `RepositoryAssumption`,
`SyncAssumption`, `PendingAssumption` and the like, one for each module, stated
where the constants are declared and evaluated by TLC on the instances. They ask
for finite sets of reads, files and digits, for numbers where the code has
numbers, and for markers (`NoDaemon`, `NoFile`) that are none of the things they
stand beside; the bounds on counters may be any number.

Only model-checked, and why:

* liveness (`RunTerminates`, `LeaseReleased`, `AutoResume`, `ShutdownEnds`,
  `Restarts`, `ShutdownReturns`, `NobodyWaitsForEver`, `QueueDrains`,
  `HeadlineSettles`): the provers have neither fairness nor `ENABLED`;
* the statements the code violates (section 6): a counterexample has no proof.

No definition is recursive: sums, orders and replays are cardinalities and
functions of their whole argument, so that no theorem needs an induction over data.

## 6. Where code and documentation differ

* `ptr_pending_commit`: the local commit moves *all* pending rows to current,
  those staged during the upload included (`manager.go:422` says the uploaded
  ones). The run shows a step that makes a mapping current which the commit did not
  list and the repository does not hold.
* `import_cleanup`: a failed request removes the file another one has found
  present and recorded (`importer_test.go:292`).
* `import_other_type`: the type of a file is detected per request and gives its
  extension (`local_path.go:171`, `upload.go:188`, `importer.go:124`). The same
  bytes imported as another type are placed at another path, their record conflicts,
  and the clean-up keeps them, since it looks the hash up and finds the first row
  (`importer.go:283`; `importer_test.go:226`).
* `bootstrap_cleanup`: the verification opens the bundle for reading, then for
  writing, and closes the writer first (`nativebundle.go:93`), so `client.db-wal`
  and `client.db-shm` may stay. The clean-up of a failed verification removes a list
  of names without them (`clientbundle.go:345`; `clientbundle_test.go:394`), and
  later starts find the directory not empty and refuse it.
* `desktop_selection`: an appended page restores the selection its load began
  with, be it another file or none, and the panels keep showing the file picked
  meanwhile (`docs/2026-05-09-finish-test-plan.md:111`).

Met while modelling, without a run of its own:

* PTR: a trigger spawned at the end of a run can take the lease after Shutdown saw
  nothing active (`manager.go:285`; `docs/STATUS.md:437`). Enabling sync by hand
  during a back-off left by an earlier process arms no wakeup (`manager.go:225`;
  `docs/STATUS.md:226`). `ApplyPTRProcessableUpdatesBatch` says "inside one DB
  transaction" and uses one per update (`PTRSync` models the latter). When the next
  due time cannot be read after a successful run, the error is logged and no wakeup
  is armed (`manager.go:248`): sync stands still until the next trigger or start.
  `reconcilePTRProcessedUpdatesForLocalBlobs` (`ptrsync.go:2904`) is never called.
* Import: a URL import reports success on a row that is rolled back
  (`import.go:214`). Trashed files cannot be imported again.
* hydownloader: after a restart by the liveness loop the autoimport worker stays
  paused (`README.md:488`). `docs/BUGFIX.md` item 8 describes a read-only guard on
  the activation of autoimport that `activateDownloaderAutoimportAfterReady` does
  not have.
* Reads: tags and notes whose table is created after a read bundle first looked
  stay invisible to it until a restart (`metadata_full.go:1267`, `browse.go:272`).
  `setSpecificCurrentTagCachesTx` leaves the deleted row of a specific cache, and
  removes display rows a pending tag still implies; trashing and importing never
  move rows between specific caches. A metadata read takes further connections
  while it holds one (`metadata_tags.go:202`), although `bundle.go:46` says that
  callers run in parallel; only their giving up resolves a mutual wait.
* Bootstrap: two waiters can both find the lock stale, and the second then removes
  the first's fresh one (`clientbundle.go:232`); the loser's clean-up may remove the
  winner's paths. When the second inspection fails, or what clears the thumbnail
  marker, the start ends with an error and a whole bundle stays
  (`clientbundle.go:159`, `184`). A crash between two renames leaves a directory
  that every later start refuses, or that counts as ready without its
  `client_files`.
* Desktop, connection: of two overlapping attempts the second remembers the client
  as offline; if it fails, the client stays offline although the first would have
  worked (`app.go:1230`). After a failed reconnect the loads of some files' tags
  are entered but gone (`app.go:457`), and the PTR headline stays "offline".
* Desktop, gallery: every tab counts its own requests, so the answer for one tab may
  fill another whose count happens to agree, and the first stays busy
  (`app.go:1981`). The closure of an outdated load clears the busy flag of the new
  one, so that an append starts at the old offset (`app.go:2039`). The tags of the
  selected file are stored in the tile cache without a look at connection or
  generation (`app.go:2733`): an answer of the daemon before that comes after a
  reconnect is kept, and shown when the file of that number is picked again
  (`app.go:2598`). Previews and
  watcher requests that time out end silently (`app.go:2544`, `2781`).
* Desktop, tag editor: a connect attempt leaves an open editor disabled for good; a
  partially typed word stays beside the suggestion tapped for it, as a tag; display
  tags hide storage tags of the same status among the existing ones (`app.go:3904`).
* Desktop, tabs: tabs are found by name and all opened ones are called "New Tab",
  so selecting or closing the second acts on the first (`app.go:277`); the query of
  a tab is not updated in the client, so returning to a tab shows, and with the
  next key stores, the one it was loaded with; updates of one tab are not ordered
  (`sessions.go:127`). A list that fails creates another "My Files" row
  (`sessions.go:18`). After connecting to another daemon, a key pressed before its
  sessions are loaded is stored under the number of the old daemon's session.

## 7. Not modelled

The wire format, thumbnails and media probing, HTTP parsing, configuration and
shared types carry no state several actors change. Access control keeps session
keys in memory, each used by one request at a time under a mutex. Of the reads,
recent files, ratings, viewing statistics, suggestions, detailed URLs and the
integrity checks are single queries of tables `Library` has or nobody writes. Of
the desktop client, the galleries of several tabs at a time, the downloader panel,
playback and layout are left out; the daemon client is its answers. Storage
layouts of several weighted locations, made by Hydrus only, are not read in
`FreshBundle`. The start and teardown of `app.New` and `app.Run` appear as far as
`PTRManager`, `HyDownloader` and `ReadPool` need them: when the hydownloader manager
cannot be prepared, the bundles are closed before the PTR manager is shut down and
the PTR read bundle is not closed (`app.go:262`), which no module shows. File
contents are immutable in `ImportPlacement`: a source that changes between hashing
and copying is outside the model. Two contents never share a hash.

## 8. Plan

1. Models: the parts that keep state are done. What may follow are the checks of
   the wire format as operators over bounded inputs, access control, the galleries
   of several tabs, and the life of `app.New` as a composition of the managers.
2. Proofs, done: every safety and action property of the passing runs, and the
   refinement of `PTRReplay`.
3. Proofs, next: a promise for the import queue and the read pool that is smaller
   than their models, and its refinement; the parts of the liveness arguments that
   are safety (what can be enabled, and which measure falls).
