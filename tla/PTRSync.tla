------------------------------- MODULE PTRSync -------------------------------
(***************************************************************************)
(* One-way synchronisation of the Public Tag Repository: the durable lease *)
(* and update tables of internal/db/hydrusdb/ptrsync.go and the run loop   *)
(* of internal/ptrsync/manager.go (beginSync, runStartedSync).             *)
(*                                                                         *)
(* Several daemon processes may have the same bundle open (a second        *)
(* hydrusd recovers the sync state before it finds its port taken).  Each  *)
(* runs at most one sync; a sync is a sequence of network calls and        *)
(* BEGIN IMMEDIATE transactions, and every transaction is one step here.   *)
(* A process may crash between any two steps.                              *)
(***************************************************************************)
EXTENDS PTRRepository, FiniteSets

CONSTANTS
  Proc,               \* daemon processes that may open the bundle
  Parallelism,        \* ptrSyncDownloadParallelism
  BatchSize,          \* ptrSyncDownloadedUpdateBatchSize
  MaxRetryAttempts,   \* ptrSyncMaxBusyRetryAttempts
  MaxRuns,            \* bound: runs started in one behaviour
  Faults              \* the faults a behaviour may show, see below

(***************************************************************************)
(* "throttle": the remote is busy or the transport fails transiently;      *)
(* "fail": any other network error; "error": a transaction or a decoding   *)
(* fails; "cancel": the run's context is cancelled; "cleanup": the         *)
(* transaction that releases the lease fails; "crash": a process dies.     *)
(***************************************************************************)
FaultKinds == {"throttle", "fail", "error", "cancel", "cleanup", "crash"}

ASSUME SyncAssumption ==
  /\ Parallelism \in Nat \ {0}
  /\ BatchSize \in Nat \ {0}
  /\ MaxRetryAttempts \in Nat
  /\ MaxRuns \in Nat
  /\ Faults \subseteq FaultKinds

VARIABLES
  published,      \* remote: updates with a smaller index are available
  sync,           \* the ptr_sync_state row
  updates,        \* repository_updates
  unregistered,   \* repository_unregistered_updates
  stored,         \* repository_updates_processed: a body is stored
  processed,      \* ... and its processed flag is set
  defined,        \* mappings whose repository ids resolve locally
  tables,         \* the mapping tables of the PTR service
  up,             \* up[p]: process p has the bundle open
  run,            \* run[p]: the sync run of p
  tokens          \* run tokens issued so far

durable == <<sync, updates, unregistered, stored, processed, defined, tables>>
vars == <<published, durable, up, run, tokens>>

NoToken == 0

DBSteps == {"persist", "list", "flush", "listApply", "apply", "complete",
            "throttle"}
Steps == DBSteps \cup {"none", "begin", "fetch", "download", "fail", "cancel"}

(***************************************************************************)
(* A run: where it is, its lease (token, the metadata slice and the retry  *)
(* attempt read under it), the fetched metadata (updates of since..seen-1),*)
(* the hashes left to download, the batch not yet stored, the updates      *)
(* listed for application, and what follows once they are applied.         *)
(***************************************************************************)
Run == [pc : Steps, token : Nat, since : Nat, attempt : Nat, seen : Nat,
        todo : SUBSET Update, batch : SUBSET Update,
        applying : SUBSET Update,
        after : {"download", "throttle", "fail", "complete"}]

NoRun == [pc |-> "none", token |-> NoToken, since |-> 0, attempt |-> 0,
          seen |-> 0, todo |-> {}, batch |-> {}, applying |-> {},
          after |-> "download"]

SyncState == [phase : {"idle", "syncing", "retrying"}, isRunning : BOOLEAN,
              runToken : Nat, metadataSlice : Nat, retryAttempt : Nat,
              retryAt : {"none", "future", "past"}, lastError : BOOLEAN]

(* The lease columns of the row agree with each other.                     *)
LeaseShape ==
  /\ sync.isRunning <=> sync.runToken # NoToken
  /\ sync.isRunning <=> sync.phase = "syncing"
  /\ sync.retryAt # "none" <=> sync.phase = "retrying"

TypeOK ==
  /\ published \in 0..(MaxIndex + 1)
  /\ sync \in SyncState /\ LeaseShape
  /\ updates \in SUBSET Update
  /\ unregistered \in SUBSET Update
  /\ stored \in SUBSET Update
  /\ processed \in SUBSET Update
  /\ defined \in SUBSET Mapping
  /\ tables \in Tables(Mapping)
  /\ up \in [Proc -> BOOLEAN]
  /\ run \in [Proc -> Run]
  /\ tokens \in Nat

Init ==
  /\ published = 0
  /\ sync = [phase |-> "idle", isRunning |-> FALSE, runToken |-> NoToken,
             metadataSlice |-> 0, retryAttempt |-> 0, retryAt |-> "none",
             lastError |-> FALSE]
  /\ updates = {} /\ unregistered = {} /\ stored = {} /\ processed = {}
  /\ defined = {}
  /\ tables = InitialTables
  /\ up = [p \in Proc |-> FALSE]
  /\ run = [p \in Proc |-> NoRun]
  /\ tokens = 0

-----------------------------------------------------------------------------
(* The writes of the ptr_sync_state row.                                   *)

(* Seeded fault: the fence checks only that some run is active.            *)
HoldsAnyRun(p) == sync.isRunning

(* ensurePTRSyncRunActive: the fence every transaction of a run passes.    *)
Holds(p) == sync.isRunning /\ sync.runToken = run[p].token

(* upsertPTRSyncState with normalizeRuntimeState: an idle row without an   *)
(* error and a row waiting for a retry are kept, anything else is reset.   *)
Recovered(s) ==
  IF /\ ~s.isRunning /\ s.runToken = NoToken
     /\ s.phase = "retrying" \/ (s.phase = "idle" /\ ~s.lastError)
  THEN s
  ELSE [s EXCEPT !.phase = "idle", !.isRunning = FALSE, !.runToken = NoToken,
                 !.retryAt = "none", !.retryAttempt = 0, !.lastError = FALSE]

(* setPTRSyncRunning: the retry attempt survives into the new run.         *)
Running(s, token) ==
  [s EXCEPT !.phase = "syncing", !.isRunning = TRUE, !.runToken = token,
            !.retryAt = "none", !.lastError = FALSE]

(* Seeded fault: the slice is off by one.                                  *)
NextUpdateIndexOffByOne(S) ==
  1 + CHOOSE n \in 0..(MaxIndex + 1) :
        /\ \A u \in S : IndexOf[u] < n
        /\ n = 0 \/ \E u \in S : IndexOf[u] = n - 1

(* queryPTRNextUpdateIndex: one past the highest known index.              *)
NextUpdateIndex(S) ==
  CHOOSE n \in 0..(MaxIndex + 1) :
    /\ \A u \in S : IndexOf[u] < n
    /\ n = 0 \/ \E u \in S : IndexOf[u] = n - 1

(* setPTRSyncIdle: the only write that moves the metadata slice.           *)
Idle(s, slice) ==
  [s EXCEPT !.phase = "idle", !.isRunning = FALSE, !.runToken = NoToken,
            !.metadataSlice = slice, !.retryAt = "none", !.retryAttempt = 0,
            !.lastError = FALSE]

(* setPTRSyncFailed.                                                       *)
Failed(s) ==
  [s EXCEPT !.phase = "idle", !.isRunning = FALSE, !.runToken = NoToken,
            !.retryAt = "none", !.retryAttempt = 0, !.lastError = TRUE]

(* setPTRSyncThrottled.                                                    *)
Throttled(s, attempt) ==
  [s EXCEPT !.phase = "retrying", !.isRunning = FALSE, !.runToken = NoToken,
            !.retryAt = "future", !.retryAttempt = attempt,
            !.lastError = FALSE]

-----------------------------------------------------------------------------
(* The environment: the remote publishes, time passes.                     *)

Publish ==
  /\ published <= MaxIndex
  /\ published' = published + 1
  /\ UNCHANGED <<durable, up, run, tokens>>

RetryFallsDue ==
  /\ sync.retryAt = "future"
  /\ sync' = [sync EXCEPT !.retryAt = "past"]
  /\ UNCHANGED <<published, updates, unregistered, stored, processed, defined,
                 tables, up, run, tokens>>

(* A process opens the bundle: its manager recovers the sync state, which  *)
(* takes the lease away from whoever holds it.                             *)
RecoverPTRSyncFoundation(p) ==
  /\ ~up[p]
  /\ up' = [up EXCEPT ![p] = TRUE]
  /\ sync' = Recovered(sync)
  /\ UNCHANGED <<published, updates, unregistered, stored, processed, defined,
                 tables, run, tokens>>

(* A process dies; what it committed stays.                                *)
Crash(p) ==
  /\ "crash" \in Faults
  /\ up[p]
  /\ up' = [up EXCEPT ![p] = FALSE]
  /\ run' = [run EXCEPT ![p] = NoRun]
  /\ UNCHANGED <<published, durable, tokens>>

-----------------------------------------------------------------------------
(* Steps of a run.                                                         *)

(* beginSync reads the status: no run while a retry is not due.            *)
CheckRetry(p) ==
  /\ up[p] /\ run[p].pc = "none"
  /\ tokens < MaxRuns
  /\ ~(sync.phase = "retrying" /\ sync.retryAt = "future")
  /\ run' = [run EXCEPT ![p].pc = "begin"]
  /\ UNCHANGED <<published, durable, up, tokens>>

(* BeginPTRSync takes the lease unless a run is active.                    *)
BeginPTRSync(p) ==
  /\ run[p].pc = "begin"
  /\ \/ /\ ~sync.isRunning
        /\ tokens < MaxRuns
        /\ tokens' = tokens + 1
        /\ sync' = Running(sync, tokens + 1)
        /\ run' = [run EXCEPT ![p] =
             [NoRun EXCEPT !.pc = "fetch", !.token = tokens + 1,
                           !.since = sync.metadataSlice,
                           !.attempt = sync.retryAttempt]]
     \/ /\ sync.isRunning \/ tokens = MaxRuns
        /\ run' = [run EXCEPT ![p] = NoRun]
        /\ UNCHANGED <<sync, tokens>>
  /\ UNCHANGED <<published, updates, unregistered, stored, processed, defined,
                 tables, up>>

(* FetchRemoteState asks for the metadata since the slice of the lease.    *)
FetchRemoteState(p) ==
  /\ run[p].pc = "fetch"
  /\ \/ run' = [run EXCEPT ![p].pc = "persist", ![p].seen = published]
     \/ \E err \in {"throttle", "fail"} \cap Faults :
          run' = [run EXCEPT ![p].pc = err]
  /\ UNCHANGED <<published, durable, up, tokens>>

(* Seeded fault: metadata is replaced whatever slice the run started from. *)
PersistAlwaysReplaces(p) ==
  LET listed == {u \in Update : /\ IndexOf[u] >= run[p].since
                                /\ IndexOf[u] < run[p].seen}
  IN
  /\ run[p].pc = "persist" /\ Holds(p)
  /\ updates' = listed
  /\ unregistered' = listed
  /\ stored' = stored \cap listed
  /\ processed' = processed \cap listed
  /\ run' = [run EXCEPT ![p].pc = "list"]
  /\ UNCHANGED <<published, sync, defined, tables, up, tokens>>

(* PersistPTRSyncMetadata with applyPTRRepositoryMetadata: a run that      *)
(* started from slice 0 replaces the metadata and prunes the stored        *)
(* updates the remote no longer lists; every listed hash is registered for *)
(* download again, stored or not.                                          *)
PersistPTRSyncMetadata(p) ==
  LET listed == {u \in Update : /\ IndexOf[u] >= run[p].since
                                /\ IndexOf[u] < run[p].seen}
      replace == run[p].since = 0
  IN
  /\ run[p].pc = "persist" /\ Holds(p)
  /\ updates' = IF replace THEN listed ELSE updates \cup listed
  /\ unregistered' = IF replace THEN listed ELSE unregistered \cup listed
  /\ stored' = IF replace THEN stored \cap listed ELSE stored
  /\ processed' = IF replace THEN processed \cap listed ELSE processed
  /\ run' = [run EXCEPT ![p].pc = "list"]
  /\ UNCHANGED <<published, sync, defined, tables, up, tokens>>

(* ListPTRPendingUpdateHashes.                                             *)
ListPTRPendingUpdateHashes(p) ==
  /\ run[p].pc = "list" /\ Holds(p)
  /\ run' = [run EXCEPT ![p].pc = "download", ![p].todo = unregistered]
  /\ UNCHANGED <<published, durable, up, tokens>>

(* The next Parallelism hashes of the list, in hash_id order.              *)
Chunk(S) == {u \in S : Cardinality({v \in S : v < u}) < Parallelism}

(* Seeded fault: the error handled after a flush is forgotten and the      *)
(* failed round is tried again at once.                                    *)
DownloadRoundRetriesForever(p) ==
  LET chunk == Chunk(run[p].todo)
      missing == chunk \ stored
  IN
  /\ run[p].pc = "download" /\ run[p].todo # {}
  /\ \E got \in SUBSET missing :
       LET batch == run[p].batch \cup (chunk \cap stored) \cup got IN
       run' = [run EXCEPT
            ![p].todo = IF got = missing THEN run[p].todo \ chunk
                                         ELSE run[p].todo,
            ![p].batch = batch,
            ![p].after = "download",
            ![p].pc = IF batch = {} THEN "download" ELSE "flush"]
  /\ UNCHANGED <<published, durable, up, tokens>>

(***************************************************************************)
(* One round of the download loop: bodies already stored are reused, the   *)
(* others are fetched in parallel.  The first error cancels the remaining  *)
(* fetches; the bodies that did arrive are still flushed before the error  *)
(* is handled, and a full batch is flushed before the next round.          *)
(***************************************************************************)
DownloadRound(p) ==
  LET chunk == Chunk(run[p].todo)
      missing == chunk \ stored
  IN
  /\ run[p].pc = "download" /\ run[p].todo # {}
  /\ \E got \in SUBSET missing,
        err \in {"none"} \cup ({"throttle", "fail"} \cap Faults) :
       LET batch == run[p].batch \cup (chunk \cap stored) \cup got IN
       /\ (err = "none") <=> (got = missing)
       /\ run' = [run EXCEPT
            ![p].todo = run[p].todo \ chunk,
            ![p].batch = batch,
            ![p].after = IF err = "none" THEN "download" ELSE err,
            ![p].pc = IF err = "none"
                        THEN IF Cardinality(batch) >= BatchSize
                             THEN "flush" ELSE "download"
                        ELSE IF batch = {} THEN err ELSE "flush"]
  /\ UNCHANGED <<published, durable, up, tokens>>

(* After the loop the rest of the batch is flushed; the updates that are   *)
(* stored are then applied once more before the run completes.             *)
DownloadsDone(p) ==
  /\ run[p].pc = "download" /\ run[p].todo = {}
  /\ run' = IF run[p].batch # {}
              THEN [run EXCEPT ![p].pc = "flush", ![p].after = "download"]
              ELSE [run EXCEPT ![p].pc = "listApply", ![p].after = "complete"]
  /\ UNCHANGED <<published, durable, up, tokens>>

(* Seeded fault: storing a body again clears its processed flag.           *)
FinalizeClearsProcessed(p) ==
  /\ run[p].pc = "flush" /\ Holds(p)
  /\ stored' = stored \cup run[p].batch
  /\ processed' = processed \ run[p].batch
  /\ unregistered' = unregistered \ run[p].batch
  /\ run' = [run EXCEPT ![p].pc = "listApply", ![p].batch = {}]
  /\ UNCHANGED <<published, sync, updates, defined, tables, up, tokens>>

(* FinalizePTRDownloadedUpdatesBatch: the bodies are stored (an update     *)
(* already processed stays processed) and leave the download list.         *)
FinalizePTRDownloadedUpdatesBatch(p) ==
  /\ run[p].pc = "flush" /\ Holds(p)
  /\ stored' = stored \cup run[p].batch
  /\ unregistered' = unregistered \ run[p].batch
  /\ run' = [run EXCEPT ![p].pc = "listApply", ![p].batch = {}]
  /\ UNCHANGED <<published, sync, updates, processed, defined, tables, up,
                 tokens>>

(* Seeded fault: updates still to be downloaded do not block later ones.   *)
ProcessableUnblocked == (stored \ processed) \cap updates

(* queryPTRProcessableUpdates: stored, unprocessed, and below the smallest *)
(* index that still has a hash to download.                                *)
ProcessableUpdates ==
  {u \in (stored \ processed) \cap updates :
     \A v \in updates \cap unregistered : IndexOf[u] < IndexOf[v]}

AfterApply(S, after) == IF S = {} THEN after ELSE "apply"

(* ListPTRProcessableUpdates, called by applyDownloadedPTRUpdates.         *)
ListPTRProcessableUpdates(p) ==
  /\ run[p].pc = "listApply" /\ Holds(p)
  /\ run' = [run EXCEPT
       ![p].applying = ProcessableUpdates,
       ![p].pc = AfterApply(ProcessableUpdates, run[p].after)]
  /\ UNCHANGED <<published, durable, up, tokens>>

(* Seeded fault: the list is ordered by index and hash_id alone.           *)
IsFirstByHashId(u, S) ==
  u \in S /\ \A v \in S \ {u} :
    IndexOf[u] < IndexOf[v] \/ (IndexOf[u] = IndexOf[v] /\ u < v)

IsFirst(u, S) == u \in S /\ \A v \in S \ {u} : Precedes(u, v)

(* normalizePTRMappingRow fails on a repository id without a definition.   *)
Resolvable(u) == KindOf[u] = "mappings" => Mentions(u) \subseteq defined

(* applyPTRProcessableUpdate: one transaction per update, in list order.   *)
ApplyPTRProcessableUpdate(p) ==
  /\ run[p].pc = "apply" /\ Holds(p)
  /\ \E u \in run[p].applying :
       /\ IsFirst(u, run[p].applying)
       /\ Resolvable(u)
       /\ defined' = IF KindOf[u] = "definitions"
                       THEN defined \cup Defines[u] ELSE defined
       /\ tables' = TablesAfter(tables, u)
       /\ processed' = processed \cup {u}
       /\ run' = [run EXCEPT
            ![p].applying = run[p].applying \ {u},
            ![p].pc = AfterApply(run[p].applying \ {u}, run[p].after)]
  /\ UNCHANGED <<published, sync, updates, unregistered, stored, up, tokens>>

-----------------------------------------------------------------------------
(* The ends of a run.                                                      *)

(* CompletePTRSyncSuccess.                                                 *)
CompletePTRSyncSuccess(p) ==
  /\ run[p].pc = "complete" /\ Holds(p)
  /\ sync' = Idle(sync, NextUpdateIndex(updates))
  /\ run' = [run EXCEPT ![p] = NoRun]
  /\ UNCHANGED <<published, updates, unregistered, stored, processed, defined,
                 tables, up, tokens>>

(* finishPTRSyncThrottled: back off, or give up after too many attempts.   *)
(* Giving up records the failure and then runs the failure path again,     *)
(* which finds the lease gone.                                             *)
FinishPTRSyncThrottled(p) ==
  LET attempt == run[p].attempt + 1 IN
  /\ run[p].pc = "throttle" /\ Holds(p)
  /\ \/ /\ attempt <= MaxRetryAttempts
        /\ sync' = Throttled(sync, attempt)
        /\ run' = [run EXCEPT ![p] = NoRun]
     \/ /\ attempt > MaxRetryAttempts
        /\ sync' = Failed(sync)
        /\ run' = [run EXCEPT ![p].pc = "fail"]
  /\ UNCHANGED <<published, updates, unregistered, stored, processed, defined,
                 tables, up, tokens>>

(* A transaction of the run is rejected: the lease is not the run's any    *)
(* more, a repository id does not resolve, or the database reports an      *)
(* error.  Nothing of it is written.                                       *)
TransactionRejected(p) ==
  /\ run[p].pc \in DBSteps
  /\ \/ ~Holds(p)
     \/ "error" \in Faults
     \/ run[p].pc = "apply" /\ \E u \in run[p].applying :
          IsFirst(u, run[p].applying) /\ ~Resolvable(u)
  /\ run' = [run EXCEPT ![p].pc = "fail"]
  /\ UNCHANGED <<published, durable, up, tokens>>

(* Seeded fault: the failure is recorded without releasing the lease.      *)
FailureKeepsLease(p) ==
  /\ run[p].pc = "fail"
  /\ sync' = IF Holds(p) THEN [sync EXCEPT !.lastError = TRUE] ELSE sync
  /\ run' = [run EXCEPT ![p] = NoRun]
  /\ UNCHANGED <<published, updates, unregistered, stored, processed, defined,
                 tables, up, tokens>>

(* FinishPTRSyncFailure, from the deferred cleanup of runStartedSync.      *)
FinishPTRSyncFailure(p) ==
  /\ run[p].pc = "fail"
  /\ sync' = IF Holds(p) THEN Failed(sync) ELSE sync
  /\ run' = [run EXCEPT ![p] = NoRun]
  /\ UNCHANGED <<published, updates, unregistered, stored, processed, defined,
                 tables, up, tokens>>

(* The run's context is cancelled (shutdown of the daemon).                *)
ContextCancelled(p) ==
  /\ "cancel" \in Faults
  /\ run[p].pc \in (DBSteps \cup {"fetch", "download"})
  /\ run' = [run EXCEPT ![p].pc = "cancel"]
  /\ UNCHANGED <<published, durable, up, tokens>>

(* CancelPTRSync, from the same cleanup: no error is recorded, and the     *)
(* slice moves past the metadata persisted so far.                         *)
CancelPTRSync(p) ==
  /\ run[p].pc = "cancel"
  /\ sync' = IF Holds(p) THEN Idle(sync, NextUpdateIndex(updates)) ELSE sync
  /\ run' = [run EXCEPT ![p] = NoRun]
  /\ UNCHANGED <<published, updates, unregistered, stored, processed, defined,
                 tables, up, tokens>>

(* The cleanup transaction itself fails: the run is over, the lease is     *)
(* still marked as held.                                                   *)
CleanupFails(p) ==
  /\ "cleanup" \in Faults
  /\ run[p].pc \in {"fail", "cancel"}
  /\ run' = [run EXCEPT ![p] = NoRun]
  /\ UNCHANGED <<published, durable, up, tokens>>

-----------------------------------------------------------------------------
RunStep(p) ==
  \/ BeginPTRSync(p)
  \/ FetchRemoteState(p)
  \/ PersistPTRSyncMetadata(p)
  \/ ListPTRPendingUpdateHashes(p)
  \/ DownloadRound(p)
  \/ DownloadsDone(p)
  \/ FinalizePTRDownloadedUpdatesBatch(p)
  \/ ListPTRProcessableUpdates(p)
  \/ ApplyPTRProcessableUpdate(p)
  \/ CompletePTRSyncSuccess(p)
  \/ FinishPTRSyncThrottled(p)
  \/ TransactionRejected(p)
  \/ FinishPTRSyncFailure(p)
  \/ CancelPTRSync(p)

ProcStep(p) ==
  \/ RecoverPTRSyncFoundation(p)
  \/ CheckRetry(p)
  \/ RunStep(p)
  \/ ContextCancelled(p)
  \/ CleanupFails(p)
  \/ Crash(p)

Next == Publish \/ RetryFallsDue \/ \E p \in Proc : ProcStep(p)

Spec == Init /\ [][Next]_vars

(***************************************************************************)
(* A run's goroutine is scheduled and its network calls time out, so it    *)
(* takes its next step; a process that is down is started again.  Nothing  *)
(* obliges the remote to publish or a user to trigger a sync.              *)
(***************************************************************************)
Fairness ==
  \A p \in Proc : WF_vars(RunStep(p)) /\ WF_vars(RecoverPTRSyncFoundation(p))

FairSpec == Spec /\ Fairness

-----------------------------------------------------------------------------
(* Properties.                                                             *)

(* Seeded fault: unprocessed updates do not count as pending.              *)
IsCompleteDownloaded ==
  /\ sync.phase = "idle" /\ ~sync.isRunning /\ ~sync.lastError
  /\ unregistered = {}
  /\ sync.metadataSlice > 0 \/ stored # {}

(* lookupPTRSyncStatus: what the status endpoint reports as complete.      *)
IsComplete ==
  /\ sync.phase = "idle" /\ ~sync.isRunning /\ ~sync.lastError
  /\ unregistered = {}
  /\ stored \subseteq processed
  /\ sync.metadataSlice > 0 \/ stored # {}

(* No update is applied before every earlier update of the repository,     *)
(* although downloads finish in hash_id order, runs fail half way and      *)
(* metadata is replayed (queryPTRProcessableUpdates' blocking index).      *)
AppliedInOrder ==
  \A u \in processed : \A v \in Update : Precedes(v, u) => v \in processed

(* The mapping tables are what replaying the processed updates in order    *)
(* gives: the last processed update that mentions a mapping decides        *)
(* whether it is current or deleted (applyPTRMappingsTx under retries,     *)
(* crashes and stale runs).                                                *)
TablesMatchReplay ==
  \A u \in processed : KindOf[u] = "mappings" =>
    \A m \in Mentions(u) :
      (\A v \in processed : Precedes(u, v) /\ KindOf[v] = "mappings"
                            => m \notin Mentions(v))
      => IF m \in Deletes[u]
           THEN m \in tables.deleted /\ m \notin tables.current
           ELSE m \in tables.current /\ m \notin tables.deleted

(* No update below the metadata slice is lost: each is still registered    *)
(* for download or its body is stored.  A run asks the remote only for     *)
(* what lies above the slice, so an update that is neither would never be  *)
(* fetched (finishPTRSyncIdle moves the slice before downloads are done).  *)
NothingBelowSliceLost ==
  \A u \in Update :
    IndexOf[u] < sync.metadataSlice => u \in unregistered \cup stored

(* A status reported as complete is complete: every update the daemon      *)
(* knows of, and every one below the slice, has been applied.              *)
CompleteMeansApplied ==
  IsComplete =>
    /\ updates \subseteq processed
    /\ \A u \in Update : IndexOf[u] < sync.metadataSlice => u \in processed

(* A run that holds the lease never meets a mapping whose definitions are  *)
(* missing, which would fail every later run at the same update.           *)
DefinitionsReady ==
  \A p \in Proc : run[p].pc = "apply" /\ Holds(p) =>
    \A u \in run[p].applying :
      IsFirst(u, run[p].applying) => Resolvable(u)

(* The number of consecutive throttled runs stays within the limit of      *)
(* finishPTRSyncThrottled.                                                 *)
RetriesBounded == sync.retryAttempt <= MaxRetryAttempts

(* Nothing that was applied is forgotten, although a run that starts from  *)
(* slice 0 deletes the update tables and prunes the stored updates, and    *)
(* the slice never moves back.                                             *)
ProgressKept ==
  [][/\ processed \subseteq processed'
     /\ sync.metadataSlice <= sync'.metadataSlice]_vars

(* Every run ends: the download loop, with its flushes and rounds of       *)
(* application, terminates whatever fails in it.                           *)
RunTerminates == \A p \in Proc : run[p].pc # "none" ~> run[p].pc = "none"

(* The lease never stays taken: a run that ends, in whatever way, releases *)
(* it, and after a crash the next start of a process does.                 *)
LeaseReleased == sync.isRunning ~> ~sync.isRunning

-----------------------------------------------------------------------------
(* The inductive invariant behind the properties above.                    *)

(* Tokens are fresh, so at most one run passes the fence.                  *)
TokenInv ==
  /\ sync.runToken <= tokens
  /\ \A p \in Proc : run[p].token <= tokens /\ run[p].attempt <= MaxRetryAttempts
  /\ \A p, q \in Proc : p # q /\ run[p].token = run[q].token
                       => run[p].token = NoToken

(* The update tables: known updates form a prefix of the repository, each  *)
(* of them is registered for download or stored, and the slice lies in it. *)
TableInv ==
  /\ processed \subseteq stored
  /\ stored \subseteq updates
  /\ unregistered \subseteq updates
  /\ updates \subseteq unregistered \cup stored
  /\ \A u \in updates : IndexOf[u] < published
  /\ \A u \in updates, v \in Update : IndexOf[v] <= IndexOf[u] => v \in updates
  /\ \A u \in Update : IndexOf[u] < sync.metadataSlice => u \in updates
  /\ sync.metadataSlice = 0
       \/ \E u \in updates : IndexOf[u] = sync.metadataSlice - 1
  /\ \A d \in processed :
       KindOf[d] = "definitions" => Defines[d] \subseteq defined

(* What run r may rely on from one step to the next while it holds the     *)
(* lease.                                                                  *)
SoundRun(r) ==
  /\ r.since = sync.metadataSlice
  /\ r.pc = "persist" =>
       /\ r.seen <= published
       /\ \A u \in updates : IndexOf[u] < r.seen
  /\ r.todo \subseteq updates
  /\ r.batch \subseteq updates
  /\ r.pc = "apply" =>
       /\ r.applying \subseteq stored \ processed
       /\ \A u \in r.applying, v \in Update :
            Precedes(v, u) => v \in processed \cup r.applying

RunInv == \A p \in Proc : Holds(p) => SoundRun(run[p])

(* The lease fences the runs, the tables stay a covered prefix, updates    *)
(* are applied in order and the tables are their replay.                   *)
SyncInv ==
  /\ TypeOK
  /\ TokenInv
  /\ TableInv
  /\ RetriesBounded
  /\ AppliedInOrder
  /\ TablesMatchReplay
  /\ RunInv

(* The detailed run implements ordered replay.                             *)
Replay == INSTANCE PTRReplay WITH applied <- processed

ImplementsReplay == Replay!Spec
=============================================================================
