------------------------------- MODULE ReadPool -------------------------------
(***************************************************************************)
(* The connections of a read-only bundle (internal/db/hydrusdb/bundle.go)  *)
(* and the reads that take them: a full metadata read keeps one connection *)
(* while lookupFileTags takes more of the same pool, one per pair of tag   *)
(* service and file service group, and then one to resolve the tag names.  *)
(*                                                                         *)
(* A receive from connPool in acquireReadConn races with ctx.Done(): when  *)
(* both are ready Go takes either, so a cancelled read may still get a     *)
(* connection.                                                             *)
(***************************************************************************)
EXTENDS Naturals, FiniteSets

CONSTANTS Reads,       \* GetMetadata calls
          PoolSize,    \* readPoolSize
          PairsPerRead \* (tag service, file service group) pairs of a read

ASSUME PoolAssumption ==
  /\ IsFiniteSet(Reads)
  /\ PoolSize \in Nat \ {0} /\ PairsPerRead \in Nat

VARIABLES
  free,        \* connections in connPool
  reader,      \* what each read is doing: see ReadStates
  unstarted,   \* pairs of a read whose goroutine was not started yet
  waiting,     \* its goroutines that wait for a connection
  running,     \* its goroutines that hold one
  failed,      \* its errgroup has an error, which cancels egCtx
  cancelled,   \* its context is cancelled: the caller gave up
  closing,     \* "open", "closing" (Close was called), "closed"
  received     \* connections Close has received and closed

poolVars == <<free, reader, unstarted, waiting, running, failed, cancelled,
              closing, received>>

(* "waits": in GetMetadata's acquireReadConn; "rows": runs the queries of  *)
(* one row set; "tags": in eg.Wait; "waitsTags": waits for tagConn;        *)
(* "names": resolves tag ids on it; "builds": builds the rows.             *)
ReadStates == {"idle", "waits", "rows", "tags", "waitsTags", "names", "builds",
               "answered", "error"}

Holding == {"rows", "tags", "waitsTags", "builds"}

(* The connections a read holds itself, its goroutines' excluded.          *)
Held(r) ==
  IF reader[r] \in Holding THEN 1 ELSE IF reader[r] = "names" THEN 2 ELSE 0

Ended(r) == reader[r] \in {"idle", "answered", "error"}

(* The connections counted by f, numbered for each read: a read holds two  *)
(* of its own at most and its goroutines PoolSize.                         *)
Counted(f) == {c \in Reads \X (1..PoolSize + 1) : c[2] <= f[c[1]]}

(* A sum over the reads.                                                   *)
SumOver(f) == Cardinality(Counted(f))

PoolInit ==
  /\ free = PoolSize
  /\ reader = [r \in Reads |-> "idle"]
  /\ unstarted = [r \in Reads |-> 0]
  /\ waiting = [r \in Reads |-> 0]
  /\ running = [r \in Reads |-> 0]
  /\ failed = [r \in Reads |-> FALSE]
  /\ cancelled = [r \in Reads |-> FALSE]
  /\ closing = "open" /\ received = 0

To(r, state) == reader' = [reader EXCEPT ![r] = state]

groupVars == <<unstarted, waiting, running, failed>>
closeVars == <<closing, received>>

-----------------------------------------------------------------------------
(* The read itself.                                                        *)

(* acquireReadConn: from connPool, unless it is empty.                     *)
TakeConn == free > 0 /\ free' = free - 1

GiveConns(n) == free' = free + n

(* A handler calls GetMetadata; the server takes no request once it stops. *)
GetMetadata(r) ==
  /\ reader[r] = "idle" /\ closing = "open"
  /\ To(r, "waits")
  /\ UNCHANGED <<free, groupVars, cancelled, closeVars>>

(* Any query on the reader's own connection may fail; deferred calls release *)
(* the connection.                                                         *)
QueryError(r) ==
  /\ \/ reader[r] \in {"rows", "names"}
     \/ reader[r] = "waitsTags" /\ cancelled[r]
  /\ To(r, "error")
  /\ GiveConns(Held(r))
  /\ UNCHANGED <<groupVars, cancelled, closeVars>>

Acquire(r) ==
  /\ reader[r] = "waits" /\ TakeConn
  /\ To(r, "rows")
  /\ UNCHANGED <<groupVars, cancelled, closeVars>>

AcquireCancelled(r) ==
  /\ reader[r] = "waits" /\ cancelled[r]
  /\ To(r, "error")
  /\ UNCHANGED <<free, groupVars, cancelled, closeVars>>

(* Identifiers or basic information only: no tags are looked up.           *)
BasicRows(r) ==
  /\ reader[r] = "rows"
  /\ To(r, "answered") /\ GiveConns(1)
  /\ UNCHANGED <<groupVars, cancelled, closeVars>>

(* fullMetadataRowsConn reaches lookupFileTags with its connection held.   *)
LookupFileTags(r) ==
  /\ reader[r] = "rows"
  /\ To(r, "tags")
  /\ unstarted' = [unstarted EXCEPT ![r] = PairsPerRead]
  /\ UNCHANGED <<free, waiting, running, failed, cancelled, closeVars>>

-----------------------------------------------------------------------------
(* The goroutines of its errgroup.                                         *)

(* eg.Go blocks while readPoolSize goroutines of the group are active.     *)
StartPair(r) ==
  /\ unstarted[r] > 0 /\ waiting[r] + running[r] < PoolSize
  /\ unstarted' = [unstarted EXCEPT ![r] = @ - 1]
  /\ waiting' = [waiting EXCEPT ![r] = @ + 1]
  /\ UNCHANGED <<free, reader, running, failed, cancelled, closeVars>>

AcquirePair(r) ==
  /\ waiting[r] > 0 /\ TakeConn
  /\ waiting' = [waiting EXCEPT ![r] = @ - 1]
  /\ running' = [running EXCEPT ![r] = @ + 1]
  /\ UNCHANGED <<reader, unstarted, failed, cancelled, closeVars>>

(* Seeded fault: a goroutine only watches its group, not the caller.       *)
AcquirePairIgnoresCaller(r) ==
  /\ waiting[r] > 0 /\ failed[r]
  /\ waiting' = [waiting EXCEPT ![r] = @ - 1]
  /\ UNCHANGED <<free, reader, unstarted, running, failed, cancelled,
                 closeVars>>

AcquirePairCancelled(r) ==
  /\ waiting[r] > 0 /\ (cancelled[r] \/ failed[r])
  /\ waiting' = [waiting EXCEPT ![r] = @ - 1]
  /\ failed' = [failed EXCEPT ![r] = TRUE]
  /\ UNCHANGED <<free, reader, unstarted, running, cancelled, closeVars>>

(* The storage and display lookups of one pair end, in an error or not.    *)
PairEnds(r) ==
  /\ running[r] > 0
  /\ running' = [running EXCEPT ![r] = @ - 1]
  /\ GiveConns(1)
  /\ \E error \in BOOLEAN : failed' = [failed EXCEPT ![r] = @ \/ error]
  /\ UNCHANGED <<reader, unstarted, waiting, cancelled, closeVars>>

(* Seeded fault: a failed group returns before its goroutines have ended.  *)
GroupEndsEarly(r) ==
  /\ reader[r] = "tags"
  /\ \/ failed[r]
     \/ unstarted[r] = 0 /\ waiting[r] = 0 /\ running[r] = 0
  /\ IF failed[r] THEN To(r, "error") /\ GiveConns(1)
     ELSE To(r, "waitsTags") /\ UNCHANGED free
  /\ UNCHANGED <<groupVars, cancelled, closeVars>>

(* eg.Wait returns once every goroutine has.                               *)
GroupEnds(r) ==
  /\ reader[r] = "tags"
  /\ unstarted[r] = 0 /\ waiting[r] = 0 /\ running[r] = 0
  /\ IF failed[r] THEN To(r, "error") /\ GiveConns(1)
     ELSE To(r, "waitsTags") /\ UNCHANGED free
  /\ UNCHANGED <<groupVars, cancelled, closeVars>>

(* tagConn is taken while the reader's own connection is still held.         *)
AcquireTagConn(r) ==
  /\ reader[r] = "waitsTags" /\ TakeConn
  /\ To(r, "names")
  /\ UNCHANGED <<groupVars, cancelled, closeVars>>

NamesResolved(r) ==
  /\ reader[r] = "names"
  /\ To(r, "builds") /\ GiveConns(1)
  /\ UNCHANGED <<groupVars, cancelled, closeVars>>

AnswerRead(r) ==
  /\ reader[r] = "builds"
  /\ To(r, "answered") /\ GiveConns(1)
  /\ UNCHANGED <<groupVars, cancelled, closeVars>>

-----------------------------------------------------------------------------
(* Callers and shutdown.                                                   *)

(* The caller's timeout: it closes its request, and net/http cancels the   *)
(* context of the handler.                                                 *)
Cancel(r) ==
  /\ ~Ended(r) /\ ~cancelled[r]
  /\ cancelled' = [cancelled EXCEPT ![r] = TRUE]
  /\ UNCHANGED <<free, reader, groupVars, closeVars>>

(* Run returned: with handlers still at work if server.Shutdown timed out. *)
CallClose ==
  /\ closing = "open" /\ closing' = "closing"
  /\ UNCHANGED <<free, reader, groupVars, cancelled, received>>

(* Close takes every connection out of the pool, one by one.               *)
CloseReceives ==
  /\ closing = "closing" /\ TakeConn
  /\ received' = received + 1
  /\ closing' = IF received' = PoolSize THEN "closed" ELSE "closing"
  /\ UNCHANGED <<reader, groupVars, cancelled>>

(* What a reader, its goroutines and its queries do of their own accord.     *)
Proceed(r) ==
  \/ QueryError(r) \/ Acquire(r) \/ AcquireCancelled(r) \/ BasicRows(r)
  \/ LookupFileTags(r) \/ StartPair(r) \/ AcquirePair(r)
  \/ AcquirePairCancelled(r) \/ PairEnds(r) \/ GroupEnds(r)
  \/ AcquireTagConn(r) \/ NamesResolved(r) \/ AnswerRead(r)

PoolNext ==
  \/ \E r \in Reads : GetMetadata(r) \/ Proceed(r) \/ Cancel(r)
  \/ CallClose \/ CloseReceives

(* Goroutines are scheduled and queries end; every caller has a timeout    *)
(* (the desktop's are 20 s to 5 min); Close runs on.                       *)
PoolFairness ==
  /\ \A r \in Reads : WF_poolVars(Proceed(r)) /\ WF_poolVars(Cancel(r))
  /\ WF_poolVars(CloseReceives)

PoolSpec == PoolInit /\ [][PoolNext]_poolVars /\ PoolFairness

-----------------------------------------------------------------------------
PoolTypes ==
  /\ free \in 0..PoolSize
  /\ reader \in [Reads -> ReadStates]
  /\ unstarted \in [Reads -> 0..PairsPerRead]
  /\ waiting \in [Reads -> 0..PoolSize] /\ running \in [Reads -> 0..PoolSize]
  /\ failed \in [Reads -> BOOLEAN] /\ cancelled \in [Reads -> BOOLEAN]
  /\ closing \in {"open", "closing", "closed"} /\ received \in 0..PoolSize

(* No connection is lost or given back twice, whichever way a read or a    *)
(* goroutine of its group ends (releaseReadConn, deferred or called), and  *)
(* a read that has returned has no goroutine left that holds one: after    *)
(* Close every connection is closed and none is in use.                    *)
ConnectionsConserved ==
  /\ PoolTypes
  /\ free + received + SumOver(running) + SumOver([r \in Reads |-> Held(r)])
       = PoolSize
  /\ \A r \in Reads : reader[r] # "tags" =>
       unstarted[r] = 0 /\ waiting[r] = 0 /\ running[r] = 0
  /\ closing = "closed" => \A r \in Reads : reader[r] \in
       {"idle", "waits", "answered", "error"}

(* A read ends with an answer or an error, and Close, which waits for      *)
(* every connection of the pool, returns: even when reads wait for each    *)
(* other's connections, because their callers give up (acquireReadConn     *)
(* selects on ctx.Done, and egCtx is derived from the caller's context).   *)
NobodyWaitsForEver ==
  /\ (closing = "closing") ~> (closing = "closed")
  /\ \A r \in Reads : (reader[r] = "waits") ~> Ended(r)

-----------------------------------------------------------------------------
(* The inductive invariant: besides ConnectionsConserved, errgroup's limit *)
(* bounds the goroutines of a read, and Close is done when it has all      *)
(* connections.                                                            *)
PoolInv ==
  /\ ConnectionsConserved
  /\ \A r \in Reads : waiting[r] + running[r] <= PoolSize
  /\ closing = "closed" => received = PoolSize
=============================================================================
