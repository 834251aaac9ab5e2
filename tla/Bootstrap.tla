------------------------------ MODULE Bootstrap ------------------------------
(***************************************************************************)
(* EnsureFreshClientBundle (internal/bootstrap/clientbundle.go): daemons   *)
(* started on one empty database directory.  Each looks at the directory,  *)
(* takes the lock file, looks again, builds a bundle in a staging          *)
(* directory, moves its paths into place one by one, verifies the result   *)
(* and removes the lock file; a failure removes what was published.        *)
(*                                                                         *)
(* A daemon may crash at any step and be started again.  Its lock file     *)
(* stays; the next daemon removes it once it is 15 minutes old, which it   *)
(* cannot become while a daemon works, whose heartbeat touches it.         *)
(*                                                                         *)
(* The file system may fail any call.  Besides the paths of the bundle the *)
(* directory can hold the companions SQLite keeps beside a database that   *)
(* is open for writing (client.db-wal, client.db-shm), which nothing here  *)
(* removes by name.                                                        *)
(***************************************************************************)
EXTENDS FreshBundle

CONSTANTS Daemons,
          MaxStarts   \* bound: calls of EnsureFreshClientBundle

ASSUME BootAssumption == "absent" \notin Daemons /\ MaxStarts \in Nat

VARIABLES
  stage,    \* what each daemon is doing: see below
  at,       \* index of the next path of Paths it moves or removes
  result,   \* what its locked function will return
  disk,     \* disk[path]: the daemon whose staging it is from, or Absent
  lock,     \* creator of the lock file, or Absent
  stale,    \* the lock file is older than bootstrapLockStaleAfter
  takenOver,\* a stale lock was removed (history)
  spoilt,   \* a crash, or an error of the file system while cleaning up,
            \* left published paths that a clean-up would remove (history)
  companions, \* the directory holds companions of the databases
  starts    \* calls so far

bootVars == <<stage, at, result, disk, lock, stale, takenOver, spoilt,
             companions, starts>>

Absent == "absent"

(* In the order of moveBootstrappedPathsIntoPlace; cleanup uses the same.  *)
Paths == <<"client.db", "client.master.db", "client.caches.db",
           "client.mappings.db", "client.temp.db", "client_files">>

AllPaths == {Paths[i] : i \in DOMAIN Paths}
RequiredFiles == {Paths[i] : i \in 1..4}

(* Ends: "ready" and "bootstrapped" let the daemon open the bundle, the    *)
(* others end it with an error; a daemon can be started again after any.   *)
Ends == {"ready", "bootstrapped", "refused", "failed", "noLock", "stopped"}

(* Stages in which the daemon runs withBootstrapLock's function.           *)
Locked == {"locked", "staging", "checks", "moves", "verifies", "cleans",
           "unlocks"}

Stages == Ends \cup Locked \cup {"inspects", "locks", "steals"}

BootInit ==
  /\ stage = [d \in Daemons |-> "stopped"]
  /\ at = [d \in Daemons |-> 1]
  /\ result = [d \in Daemons |-> "failed"]
  /\ disk = [p \in AllPaths |-> Absent]
  /\ lock = Absent /\ stale = FALSE
  /\ takenOver = FALSE /\ spoilt = FALSE /\ companions = FALSE /\ starts = 0

Present == {p \in AllPaths : disk[p] # Absent}

(* inspectBundleDir; it does not count the lock file.                      *)
BundleState ==
  CASE RequiredFiles \subseteq Present -> "ready"
    [] ~(RequiredFiles \subseteq Present) /\ RequiredFiles \cap Present # {} ->
         "partial"
    [] Present = {} /\ ~companions -> "empty"
    [] OTHER -> "nonEmpty"

Goes(d, s) == stage' = [stage EXCEPT ![d] = s]

history == <<takenOver, spoilt, starts>>
lockFile == <<lock, stale>>

(* The locked function returns r.                                          *)
Returns(d, r) == Goes(d, "unlocks") /\ result' = [result EXCEPT ![d] = r]

-----------------------------------------------------------------------------
(* Before the lock.                                                        *)

EnsureFreshClientBundle(d) ==
  /\ stage[d] \in Ends
  /\ starts < MaxStarts /\ starts' = starts + 1
  /\ Goes(d, "inspects")
  /\ UNCHANGED <<at, result, disk, companions, lockFile, takenOver, spoilt>>

(* Refused for what it finds, because the bootstrap is not enabled, or     *)
(* because the directory cannot be read.                                   *)
Inspect(d) ==
  /\ stage[d] = "inspects"
  /\ \/ BundleState = "ready" /\ Goes(d, "ready")
     \/ BundleState = "empty" /\ Goes(d, "locks")
     \/ Goes(d, "refused")
  /\ UNCHANGED <<at, result, disk, companions, lockFile, history>>

(* O_CREATE|O_EXCL.                                                        *)
CreateLock(d) ==
  /\ stage[d] = "locks" /\ lock = Absent
  /\ lock' = d /\ stale' = FALSE
  /\ Goes(d, "locked")
  /\ UNCHANGED <<at, result, disk, companions, history>>

(* The lock file exists and its age is read: it will be removed next.      *)
FindStaleLock(d) ==
  /\ stage[d] = "locks" /\ lock # Absent /\ stale
  /\ Goes(d, "steals")
  /\ UNCHANGED <<at, result, disk, companions, lockFile, history>>

(* os.Remove of whatever file has that name by then.                       *)
RemoveStaleLock(d) ==
  /\ stage[d] = "steals"
  /\ lock' = Absent /\ stale' = FALSE /\ takenOver' = TRUE
  /\ Goes(d, "locks")
  /\ UNCHANGED <<at, result, disk, companions, spoilt, starts>>

(* bootstrapCtx ends while the file is another's, or the lock file cannot  *)
(* be created, read or removed.  Created and not closed, it may also stay. *)
NoLock(d) ==
  /\ stage[d] \in {"locks", "steals"}
  /\ \/ UNCHANGED lockFile
     \/ stage[d] = "locks" /\ lock = Absent /\ lock' = d /\ stale' = FALSE
  /\ Goes(d, "noLock")
  /\ UNCHANGED <<at, result, disk, companions, history>>

-----------------------------------------------------------------------------
(* With the lock.                                                          *)

(* Seeded fault: the directory is not looked at again after the lock.      *)
InspectLockedOnce(d) ==
  /\ stage[d] = "locked"
  /\ Goes(d, "staging") /\ UNCHANGED result
  /\ UNCHANGED <<at, disk, companions, lockFile, history>>

InspectLocked(d) ==
  /\ stage[d] = "locked"
  /\ \/ BundleState = "ready" /\ Returns(d, "ready")
     \/ BundleState = "empty" /\ Goes(d, "staging") /\ UNCHANGED result
     \/ Returns(d, "refused")
  /\ UNCHANGED <<at, disk, companions, lockFile, history>>

(* The five databases and client_files, in a directory of the daemon's     *)
(* own beside the bundle's: nobody sees it, and a failure is cleaned up.   *)
CreateStaged(d) ==
  /\ stage[d] = "staging"
  /\ Goes(d, "checks")
  /\ at' = [at EXCEPT ![d] = 1]
  /\ UNCHANGED <<result, disk, companions, lockFile, history>>

CreateFails(d) ==
  /\ stage[d] = "staging"
  /\ Goes(d, "cleans")
  /\ at' = [at EXCEPT ![d] = 1]
  /\ UNCHANGED <<result, disk, companions, lockFile, history>>

(* cleanupMovedTargets removes what was moved, whoever's it is by now, as  *)
(* far as it can; then EnsureFreshClientBundle cleans up.                  *)
MoveFails(d) ==
  /\ \E removed \in SUBSET {Paths[i] : i \in 1..(at[d] - 1)} :
       disk' = [p \in AllPaths |-> IF p \in removed THEN Absent ELSE disk[p]]
  /\ Goes(d, "cleans")
  /\ at' = [at EXCEPT ![d] = 1]

(* ensureBootstrapTargetMissing.                                           *)
EnsureTargetMissing(d) ==
  /\ stage[d] = "checks"
  /\ IF disk[Paths[at[d]]] = Absent
     THEN Goes(d, "moves") /\ UNCHANGED <<at, disk>>
     ELSE MoveFails(d)
  /\ UNCHANGED <<result, companions, lockFile, history>>

(* os.Rename replaces a file, and an empty directory, that appeared since. *)
MoveIntoPlace(d) ==
  /\ stage[d] = "moves"
  /\ disk' = [disk EXCEPT ![Paths[at[d]]] = d]
  /\ IF at[d] < Len(Paths)
     THEN Goes(d, "checks") /\ at' = [at EXCEPT ![d] = @ + 1]
     ELSE Goes(d, "verifies") /\ UNCHANGED at
  /\ UNCHANGED <<result, companions, lockFile, history>>

RenameFails(d) ==
  /\ stage[d] = "moves"
  /\ MoveFails(d)
  /\ UNCHANGED <<result, companions, lockFile, history>>

(* The second inspection, then defaultVerifyFreshClientBundle, which needs *)
(* client.temp.db and client_files too.  It opens the databases to read    *)
(* and then to write, and closes them in the other order: the connection   *)
(* that is left last cannot remove the companions the writer made.         *)
Verify(d) ==
  /\ stage[d] = "verifies"
  /\ Present = AllPaths /\ Verified(MainDB, MasterDB)
  /\ Returns(d, "bootstrapped") /\ companions' \in BOOLEAN
  /\ UNCHANGED <<at, disk, lockFile, history>>

(* Not ready, not as seeded, a database that cannot be opened, or the      *)
(* bootstrap timeout.                                                      *)
VerifyFails(d) ==
  /\ stage[d] = "verifies"
  /\ Goes(d, "cleans") /\ companions' \in BOOLEAN
  /\ at' = [at EXCEPT ![d] = 1]
  /\ UNCHANGED <<result, disk, lockFile, history>>

(* The second inspection itself fails, or clearBootstrapThumbnailMarker    *)
(* after a good verification: an error, and the bundle stays.              *)
FailWithoutCleanup(d) ==
  /\ stage[d] = "verifies"
  /\ Returns(d, "failed") /\ companions' \in BOOLEAN
  /\ UNCHANGED <<at, disk, lockFile, history>>

(* Removes the next path, whoever made it, up to number last; what cannot  *)
(* be removed stays and the next is tried.                                 *)
CleanupUpTo(d, last) ==
  /\ stage[d] = "cleans"
  /\ \/ disk' = [disk EXCEPT ![Paths[at[d]]] = Absent] /\ UNCHANGED spoilt
     \/ spoilt' = TRUE /\ UNCHANGED disk
  /\ IF at[d] < last
     THEN at' = [at EXCEPT ![d] = @ + 1] /\ UNCHANGED <<stage, result>>
     ELSE Returns(d, "failed") /\ UNCHANGED at
  /\ UNCHANGED <<companions, lockFile, takenOver, starts>>

(* Seeded fault: only the files a bundle must have are removed.            *)
CleanupRequired(d) == CleanupUpTo(d, Cardinality(RequiredFiles))

(* cleanupFreshBundleArtifacts: every path of the bundle by its name.      *)
CleanupPath(d) == CleanupUpTo(d, Len(Paths))

(* Before it removes anything it asks for the thumbnail marker, a file     *)
(* nothing creates, and gives up when it cannot.                           *)
CleanupGivesUp(d) ==
  /\ stage[d] = "cleans" /\ at[d] = 1
  /\ Returns(d, "failed") /\ spoilt' = TRUE
  /\ UNCHANGED <<at, disk, companions, lockFile, takenOver, starts>>

(* The lock file is removed, whoever created it; when it cannot be, the    *)
(* start fails and the file stays.                                         *)
Unlock(d) ==
  /\ stage[d] = "unlocks"
  /\ \/ lock' = Absent /\ stale' = FALSE /\ Goes(d, result[d])
     \/ /\ UNCHANGED lockFile
        /\ Goes(d, IF result[d] \in {"ready", "bootstrapped"}
                   THEN "failed" ELSE result[d])
  /\ UNCHANGED <<at, result, disk, companions, history>>

-----------------------------------------------------------------------------
(* Faults.                                                                 *)

BootCrash(d) ==
  /\ stage[d] \notin Ends
  /\ Goes(d, "stopped")
  /\ spoilt' =
       (spoilt \/ stage[d] \in {"checks", "moves", "verifies", "cleans"})
  /\ companions' \in {companions, companions \/ stage[d] = "verifies"}
  /\ UNCHANGED <<at, result, disk, lockFile, takenOver, starts>>

(* startBootstrapLockHeartbeat of any daemon at work keeps the file young. *)
LockAges ==
  /\ lock # Absent /\ ~stale
  /\ \A d \in Daemons : stage[d] \notin Locked
  /\ stale' = TRUE
  /\ UNCHANGED <<stage, at, result, disk, companions, lock, history>>

BootStep(d) ==
  \/ EnsureFreshClientBundle(d) \/ Inspect(d)
  \/ CreateLock(d) \/ FindStaleLock(d) \/ RemoveStaleLock(d) \/ NoLock(d)
  \/ InspectLocked(d) \/ CreateStaged(d) \/ CreateFails(d)
  \/ EnsureTargetMissing(d) \/ MoveIntoPlace(d) \/ RenameFails(d)
  \/ Verify(d) \/ VerifyFails(d) \/ FailWithoutCleanup(d)
  \/ CleanupPath(d) \/ CleanupGivesUp(d) \/ Unlock(d)
  \/ BootCrash(d)

BootNext == (\E d \in Daemons : BootStep(d)) \/ LockAges

BootSpec == BootInit /\ [][BootNext]_bootVars

-----------------------------------------------------------------------------
(* A bundle that a daemon bootstrapped stays: complete, from that daemon's *)
(* staging alone, whichever daemons are started beside it.  A stale lock   *)
(* taken over voids it (two daemons may both find it stale, and the second *)
(* removes the lock the first has just created).                           *)
BootstrappedStays ==
  \A d \in Daemons : stage[d] = "bootstrapped" /\ ~takenOver =>
    \A p \in AllPaths : disk[p] = d

(* A start that fails takes back every path it published, and never part   *)
(* of a bundle: the directory has all the paths of one or none, so that    *)
(* the next start is not refused for the files of this one.  A crash, or   *)
(* a file system that will not remove them, voids it.                      *)
FailureRemovesPublished ==
  \A d \in Daemons :
    /\ stage[d] = "failed" /\ ~takenOver /\ ~spoilt
    /\ \A e \in Daemons : stage[e] \notin Locked
    => Present \in {{}, AllPaths}

(* The stronger claim of the test of the clean-up (clientbundle_test.go:   *)
(* 394): the directory is then empty, so that the next start can make a    *)
(* bundle.  The companions left by the verification refute it.             *)
FailureLeavesEmpty ==
  \A d \in Daemons :
    /\ stage[d] = "failed" /\ ~takenOver /\ ~spoilt
    /\ \A e \in Daemons : stage[e] \notin Locked
    => BundleState \in {"empty", "ready"}

(* What a daemon has just moved into place passes its own verification,    *)
(* and the layout that is then read from it has a root for every file and  *)
(* every thumbnail, the two kinds apart: a verification that fails only    *)
(* fails for want of time or disk.                                         *)
SeedPassesVerification ==
  \A d \in Daemons : stage[d] = "verifies" /\ ~takenOver =>
    LET layout == ManagedLayout("dbDir", MainDB.storage) IN
    /\ Present = AllPaths
    /\ Verified(MainDB, MasterDB)
    /\ \A k \in Kinds, h \in Hashes : HasRoot(layout, k, h)
    /\ \A h \in Hashes : RootOf(layout, "f", h) # RootOf(layout, "t", h)

-----------------------------------------------------------------------------
(* The inductive invariant.                                                *)

BootTypes ==
  /\ stage \in [Daemons -> Stages] /\ result \in [Daemons -> Ends]
  /\ at \in [Daemons -> DOMAIN Paths]
  /\ disk \in [AllPaths -> Daemons \cup {Absent}]
  /\ lock \in Daemons \cup {Absent} /\ stale \in BOOLEAN
  /\ takenOver \in BOOLEAN /\ spoilt \in BOOLEAN /\ companions \in BOOLEAN
  /\ starts \in 0..MaxStarts

(* Unless a stale lock was taken over, a daemon that works holds the lock. *)
LockInv == ~takenOver => \A d \in Daemons : stage[d] \in Locked => lock = d

(* Stages in which a daemon changes the directory or is about to.          *)
Working == {"staging", "checks", "moves", "verifies", "cleans"}
Changing == Working \ {"staging"}

(* Then the directory holds what it moved there and nothing else.          *)
OwnInv ==
  ~takenOver => \A d \in Daemons, p \in AllPaths :
    stage[d] \in Working => disk[p] \in {Absent, d}

(* How far it has come.                                                    *)
ProgressInv ==
  ~takenOver => \A d \in Daemons :
    /\ stage[d] = "staging" => \A p \in AllPaths : disk[p] = Absent
    /\ stage[d] \in {"checks", "moves"} =>
         \A i \in 1..(at[d] - 1) : disk[Paths[i]] = d
    /\ stage[d] = "verifies" => \A p \in AllPaths : disk[p] = d
    /\ stage[d] = "cleans" /\ ~spoilt =>
         \A i \in 1..(at[d] - 1) : disk[Paths[i]] = Absent
    /\ stage[d] = "unlocks" /\ result[d] = "bootstrapped" =>
         \A p \in AllPaths : disk[p] = d

(* While nobody changes it, the directory has all the paths or none.       *)
WholeInv ==
  ~takenOver /\ ~spoilt /\ (\A d \in Daemons : stage[d] \notin Changing) =>
    Present = {} \/ Present = AllPaths

BootInv ==
  /\ BootTypes /\ LockInv /\ OwnInv /\ ProgressInv /\ BootstrappedStays
  /\ WholeInv
=============================================================================
