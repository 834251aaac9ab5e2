--------------------------- MODULE PTRSyncProofs ---------------------------
(***************************************************************************)
(* Proofs about PTRSync for every repository, every set of processes and   *)
(* every bound: SyncInv is inductive, and the safety properties and the    *)
(* refinement of PTRReplay follow from it.                                 *)
(***************************************************************************)
EXTENDS PTRSync, WellFoundedInduction, TLAPS

(* Repository order is a strict total order on the updates.                *)
LEMMA PrecedesOrder ==
  ASSUME NEW u \in Update, NEW v \in Update
  PROVE  /\ ~Precedes(u, u)
         /\ Precedes(u, v) => ~Precedes(v, u)
         /\ u # v => Precedes(u, v) \/ Precedes(v, u)
         /\ Precedes(u, v) => IndexOf[u] <= IndexOf[v]
  <1>1. /\ IndexOf[u] \in Nat /\ IndexOf[v] \in Nat /\ u \in Nat /\ v \in Nat
        /\ KindOf[u] \in {"definitions", "mappings"}
        /\ KindOf[v] \in {"definitions", "mappings"}
    BY RepositoryAssumption DEF Kind
  <1>2. QED
    BY <1>1 DEF Precedes

(* The order of updates in the log is transitive.                          *)
LEMMA PrecedesTransitive ==
  ASSUME NEW u \in Update, NEW v \in Update, NEW w \in Update,
         Precedes(u, v), Precedes(v, w)
  PROVE  Precedes(u, w)
  <1>1. /\ IndexOf[u] \in Nat /\ IndexOf[v] \in Nat /\ IndexOf[w] \in Nat
        /\ u \in Nat /\ v \in Nat /\ w \in Nat
        /\ KindOf[u] \in {"definitions", "mappings"}
        /\ KindOf[v] \in {"definitions", "mappings"}
        /\ KindOf[w] \in {"definitions", "mappings"}
    BY RepositoryAssumption DEF Kind
  <1>2. QED
    BY <1>1 DEF Precedes

(* queryPTRNextUpdateIndex is one past the highest index, 0 for no update. *)
LEMMA NextUpdateIndexSpec ==
  ASSUME NEW S \in SUBSET Update
  PROVE  /\ NextUpdateIndex(S) \in 0..(MaxIndex + 1)
         /\ \A u \in S : IndexOf[u] < NextUpdateIndex(S)
         /\ NextUpdateIndex(S) = 0
              \/ \E u \in S : IndexOf[u] = NextUpdateIndex(S) - 1
  <1> DEFINE T == {n \in Nat : \A u \in S : IndexOf[u] < n}
             R == OpToRel(<, Nat)
  <1>1. MaxIndex \in Nat /\ \A u \in S : IndexOf[u] \in 0..MaxIndex
    BY RepositoryAssumption
  <1>2. MaxIndex + 1 \in T
    BY <1>1
  <1>3. PICK n \in T : \A k \in T : ~(<<k, n>> \in R)
    <2>1. T \subseteq Nat /\ T # {}
      BY <1>2
    <2>2. IsWellFoundedOn(R, Nat)
      BY NatLessThanWellFounded
    <2>3. QED
      BY <2>1, <2>2, WFMin
  <1>4. \A k \in T : ~(k < n)
    BY <1>3 DEF OpToRel
  <1>5. n \in 0..(MaxIndex + 1)
    BY <1>1, <1>2, <1>4
  <1>6. n = 0 \/ \E u \in S : IndexOf[u] = n - 1
    <2>1. SUFFICES ASSUME n # 0 PROVE \E u \in S : IndexOf[u] = n - 1
      OBVIOUS
    <2>2. n - 1 \in Nat /\ n - 1 < n
      BY <2>1
    <2>3. n - 1 \notin T
      BY <1>4, <2>2
    <2>4. PICK u \in S : ~(IndexOf[u] < n - 1)
      BY <2>2, <2>3
    <2>5. IndexOf[u] < n /\ IndexOf[u] \in Nat
      BY <1>1
    <2>6. QED
      BY <2>2, <2>4, <2>5
  <1>7. QED
    BY <1>5, <1>6 DEF NextUpdateIndex

-----------------------------------------------------------------------------
(* The parts of SyncInv that do not mention the runs.                      *)
DataInv == TableInv /\ RetriesBounded /\ AppliedInOrder /\ TablesMatchReplay

(* A step that changes one run and nothing durable keeps the invariant if  *)
(* the new run keeps its token or gives it up and is sound.                *)
LEMMA LocalStep ==
  ASSUME SyncInv, NEW p \in Proc, NEW r \in Run,
         UNCHANGED <<published, durable, tokens>>,
         up' \in [Proc -> BOOLEAN],
         run' = [run EXCEPT ![p] = r],
         r.token \in {run[p].token, NoToken},
         r.attempt <= MaxRetryAttempts,
         Holds(p) /\ r.token = run[p].token => SoundRun(r)
  PROVE  SyncInv'
  <1>1. TypeOK'
    BY DEF SyncInv, TypeOK, LeaseShape, durable
  <1>2. TokenInv'
    BY DEF SyncInv, TypeOK, TokenInv, durable, NoToken, Run, SyncState
  <1>3. DataInv'
    BY DEF SyncInv, DataInv, TableInv, RetriesBounded, AppliedInOrder,
           TablesMatchReplay, durable
  <1>4. RunInv'
    <2> SUFFICES ASSUME NEW q \in Proc, Holds(q)' PROVE SoundRun(run[q])'
      BY DEF RunInv
    <2>1. sync.isRunning /\ sync.runToken = run'[q].token
      BY DEF Holds, durable
    <2>2. CASE q # p
      <3>1. run'[q] = run[q]
        BY <2>2 DEF SyncInv, TypeOK
      <3>2. SoundRun(run[q])
        BY <2>1, <3>1 DEF SyncInv, RunInv, Holds
      <3>3. QED
        BY <3>1, <3>2 DEF SoundRun, durable
    <2>3. CASE q = p
      <3>1. run'[q] = r
        BY <2>3 DEF SyncInv, TypeOK
      <3>2. r.token # NoToken
        BY <2>1, <3>1 DEF SyncInv, TypeOK, LeaseShape
      <3>3. SoundRun(r)
        BY <2>1, <2>3, <3>1, <3>2 DEF Holds
      <3>4. QED
        BY <3>1, <3>3 DEF SoundRun, durable
    <2>4. QED
      BY <2>2, <2>3
  <1>5. QED
    BY <1>1, <1>2, <1>3, <1>4 DEF SyncInv, DataInv

(* A step that leaves no run holding the lease keeps the invariant if it   *)
(* leaves the tables alone and moves the slice to the next update index    *)
(* or not at all.                                                          *)
LEMMA ReleaseStep ==
  ASSUME SyncInv,
         UNCHANGED <<published, updates, unregistered, stored, processed,
                     defined, tables, tokens>>,
         up' \in [Proc -> BOOLEAN],
         run' \in [Proc -> Run],
         \A q \in Proc : /\ run'[q].token \in {run[q].token, NoToken}
                        /\ run'[q].attempt <= MaxRetryAttempts,
         sync' \in SyncState, LeaseShape', ~sync'.isRunning,
         sync'.metadataSlice \in {sync.metadataSlice, NextUpdateIndex(updates)},
         sync'.retryAttempt <= MaxRetryAttempts
  PROVE  SyncInv'
  <1>1. TypeOK'
    BY DEF SyncInv, TypeOK
  <1>2. TokenInv'
    <2>1. sync'.runToken = NoToken /\ tokens \in Nat
      BY DEF LeaseShape, SyncInv, TypeOK
    <2>2. QED
      BY <2>1 DEF SyncInv, TypeOK, TokenInv, NoToken, Run
  <1>3. TableInv'
    <2>1. CASE sync'.metadataSlice = sync.metadataSlice
      BY <2>1 DEF SyncInv, TableInv
    <2>2. CASE sync'.metadataSlice = NextUpdateIndex(updates)
      <3> DEFINE n == NextUpdateIndex(updates)
      <3>1. /\ n \in 0..(MaxIndex + 1)
            /\ \A u \in updates : IndexOf[u] < n
            /\ n = 0 \/ \E u \in updates : IndexOf[u] = n - 1
        BY NextUpdateIndexSpec DEF SyncInv, TypeOK
      <3>2. \A u \in Update : IndexOf[u] \in Nat
        BY RepositoryAssumption
      <3> HIDE DEF n
      <3>3. ASSUME NEW u \in Update, IndexOf[u] < n PROVE u \in updates
        <4>1. PICK w \in updates : IndexOf[w] = n - 1
          BY <3>1, <3>2, <3>3
        <4>2. w \in Update
          BY DEF SyncInv, TypeOK
        <4>3. IndexOf[u] <= IndexOf[w]
          BY <3>1, <3>2, <3>3, <4>1, <4>2
        <4>4. QED
          BY <4>3 DEF SyncInv, TableInv
      <3>4. sync'.metadataSlice = n
        BY <2>2 DEF n
      <3>5. QED
        BY <3>1, <3>3, <3>4 DEF SyncInv, TableInv
    <2>3. QED
      BY <2>1, <2>2
  <1>4. RetriesBounded' /\ AppliedInOrder' /\ TablesMatchReplay'
    BY DEF SyncInv, RetriesBounded, AppliedInOrder, TablesMatchReplay
  <1>5. RunInv'
    BY DEF RunInv, Holds
  <1>6. QED
    BY <1>1, <1>2, <1>3, <1>4, <1>5 DEF SyncInv

-----------------------------------------------------------------------------
(* The initial states.                                                     *)
LEMMA InitSyncInv == Init => SyncInv
  <1> SUFFICES ASSUME Init PROVE SyncInv
    OBVIOUS
  <1> USE RepositoryAssumption, SyncAssumption DEF Init, NoToken
  <1>1. NoRun \in Run
    BY DEF NoRun, Run, Steps, DBSteps
  <1>2. TypeOK
    BY <1>1 DEF TypeOK, SyncState, LeaseShape, Tables, InitialTables
  <1>3. TokenInv /\ TableInv /\ RetriesBounded
    BY DEF TokenInv, TableInv, RetriesBounded, NoRun
  <1>4. AppliedInOrder /\ TablesMatchReplay /\ RunInv
    BY DEF AppliedInOrder, TablesMatchReplay, RunInv, Holds
  <1>5. QED
    BY <1>2, <1>3, <1>4 DEF SyncInv

(* The remote publishes: everything known stays below the published index. *)
LEMMA PublishStep == SyncInv /\ Publish => SyncInv'
  <1> SUFFICES ASSUME SyncInv, Publish PROVE SyncInv'
    OBVIOUS
  <1> USE DEF Publish, durable
  <1>1. published \in Nat /\ published' = published + 1
    BY RepositoryAssumption DEF SyncInv, TypeOK
  <1>2. TypeOK'
    BY RepositoryAssumption DEF SyncInv, TypeOK, LeaseShape
  <1>3. TokenInv'
    BY DEF SyncInv, TokenInv
  <1>4. TableInv'
    <2>1. \A u \in updates : IndexOf[u] \in Nat
      BY RepositoryAssumption DEF SyncInv, TypeOK
    <2>2. \A u \in updates : IndexOf[u] < published'
      BY <1>1, <2>1 DEF SyncInv, TableInv
    <2>3. QED
      BY <2>2 DEF SyncInv, TableInv
  <1>5. RetriesBounded' /\ AppliedInOrder' /\ TablesMatchReplay'
    BY DEF SyncInv, RetriesBounded, AppliedInOrder, TablesMatchReplay
  <1>6. RunInv'
    <2> SUFFICES ASSUME NEW p \in Proc, Holds(p)' PROVE SoundRun(run[p])'
      BY DEF RunInv
    <2>1. SoundRun(run[p])
      BY DEF SyncInv, RunInv, Holds
    <2>2. run[p].seen \in Nat
      BY DEF SyncInv, TypeOK, Run
    <2>3. QED
      BY <1>1, <2>1, <2>2 DEF SoundRun
  <1>7. QED
    BY <1>2, <1>3, <1>4, <1>5, <1>6 DEF SyncInv

(* A run takes the lease: its token is fresh, so no other run holds it.    *)
LEMMA BeginStep == ASSUME NEW p \in Proc, SyncInv, BeginPTRSync(p)
                   PROVE  SyncInv'
  <1>1. NoRun \in Run /\ NoRun.token = NoToken /\ NoRun.attempt = 0
    BY DEF NoRun, Run, Steps, DBSteps, NoToken
  <1>2. CASE run' = [run EXCEPT ![p] = NoRun] /\ UNCHANGED <<sync, tokens>>
    <2>1. UNCHANGED <<published, durable, tokens>> /\ up' \in [Proc -> BOOLEAN]
      BY <1>2 DEF BeginPTRSync, durable, SyncInv, TypeOK
    <2>2. Holds(p) /\ NoToken = run[p].token => FALSE
      BY DEF Holds, SyncInv, TypeOK, LeaseShape
    <2>3. 0 <= MaxRetryAttempts
      BY SyncAssumption
    <2>4. QED
      BY <1>1, <1>2, <2>1, <2>2, <2>3, LocalStep
  <1>3. CASE ~(run' = [run EXCEPT ![p] = NoRun] /\ UNCHANGED <<sync, tokens>>)
    <2> DEFINE t == tokens + 1
               r == [NoRun EXCEPT !.pc = "fetch", !.token = t,
                                  !.since = sync.metadataSlice,
                                  !.attempt = sync.retryAttempt]
    <2>1. /\ ~sync.isRunning
          /\ tokens' = t /\ sync' = Running(sync, t)
          /\ run' = [run EXCEPT ![p] = r]
          /\ UNCHANGED <<published, updates, unregistered, stored, processed,
                         defined, tables, up>>
      BY <1>3 DEF BeginPTRSync
    <2>2. /\ sync \in SyncState /\ tokens \in Nat /\ t \in Nat /\ t > tokens
          /\ t # NoToken
      BY DEF SyncInv, TypeOK, NoToken
    <2>3. /\ r \in Run /\ r.pc = "fetch" /\ r.token = t
          /\ r.since = sync.metadataSlice
          /\ r.attempt = sync.retryAttempt /\ r.todo = {} /\ r.batch = {}
      BY <2>2 DEF NoRun, Run, Steps, DBSteps, SyncState
    <2>4. /\ sync' \in SyncState /\ LeaseShape'
          /\ sync'.isRunning /\ sync'.runToken = t
          /\ sync'.metadataSlice = sync.metadataSlice
          /\ sync'.retryAttempt = sync.retryAttempt
      BY <2>1, <2>2 DEF Running, SyncState, LeaseShape
    <2> HIDE DEF r, t
    <2>5. TypeOK'
      BY <2>1, <2>2, <2>3, <2>4 DEF SyncInv, TypeOK
    <2>6. /\ \A q \in Proc : run[q].token \in Nat /\ run[q].token <= tokens
          /\ sync.retryAttempt <= MaxRetryAttempts
      BY DEF SyncInv, TokenInv, RetriesBounded, TypeOK, Run
    <2>7. run'[p] = r /\ \A q \in Proc \ {p} : run'[q] = run[q]
      BY <2>1 DEF SyncInv, TypeOK
    <2>8. TokenInv'
      BY <2>1, <2>2, <2>3, <2>4, <2>6, <2>7 DEF SyncInv, TokenInv, NoToken
    <2>9. DataInv'
      BY <2>1, <2>4 DEF SyncInv, DataInv, TableInv, RetriesBounded,
                        AppliedInOrder, TablesMatchReplay
    <2>10. RunInv'
      <3> SUFFICES ASSUME NEW q \in Proc, Holds(q)' PROVE SoundRun(run[q])'
        BY DEF RunInv
      <3>1. q = p
        <4>1. run'[q].token = t
          BY <2>4 DEF Holds
        <4>2. ASSUME q # p PROVE FALSE
          <5>1. run'[q] = run[q]
            BY <2>7, <4>2
          <5>2. run[q].token = t
            BY <4>1, <5>1
          <5>3. QED
            BY <2>2, <2>6, <5>2
        <4>3. QED
          BY <4>2
      <3>2. QED
        BY <2>1, <2>3, <2>4, <2>7, <3>1 DEF SoundRun
    <2>11. QED
      BY <2>5, <2>8, <2>9, <2>10 DEF SyncInv, DataInv
  <1>4. QED
    BY <1>2, <1>3

(* The fence admits one run: tokens are never shared.                      *)
LEMMA OneHolder ==
  ASSUME SyncInv, NEW p \in Proc, NEW q \in Proc, Holds(p), Holds(q)
  PROVE  q = p
  BY DEF SyncInv, TokenInv, TypeOK, LeaseShape, Holds

(* A step of the run that holds the lease keeps the invariant if it keeps  *)
(* its own obligations and those of the tables.                            *)
LEMMA HolderStep ==
  ASSUME SyncInv, NEW p \in Proc, Holds(p), NEW r \in Run,
         UNCHANGED <<published, sync, up, tokens>>,
         run' = [run EXCEPT ![p] = r],
         r.token = run[p].token, r.attempt = run[p].attempt,
         updates' \in SUBSET Update, unregistered' \in SUBSET Update,
         stored' \in SUBSET Update, processed' \in SUBSET Update,
         defined' \in SUBSET Mapping, tables' \in Tables(Mapping),
         TableInv', AppliedInOrder', TablesMatchReplay', SoundRun(run[p])'
  PROVE  SyncInv'
  <1>1. run'[p] = r /\ \A q \in Proc \ {p} : run'[q] = run[q]
    BY DEF SyncInv, TypeOK
  <1>2. TypeOK'
    BY DEF SyncInv, TypeOK, LeaseShape
  <1>3. \A q \in Proc : run'[q].token = run[q].token
                      /\ run'[q].attempt = run[q].attempt
    BY <1>1
  <1>4. TokenInv' /\ RetriesBounded'
    BY <1>3 DEF SyncInv, TokenInv, RetriesBounded
  <1>5. RunInv'
    <2> SUFFICES ASSUME NEW q \in Proc, Holds(q)' PROVE SoundRun(run[q])'
      BY DEF RunInv
    <2>1. Holds(q)
      BY <1>3 DEF Holds
    <2>2. q = p
      BY <2>1, OneHolder
    <2>3. QED
      BY <2>2
  <1>6. QED
    BY <1>2, <1>4, <1>5 DEF SyncInv

(* Persisting metadata only adds updates: a run that replaces the tables   *)
(* started from slice 0, and the remote still lists everything known.      *)
LEMMA PersistGrows ==
  ASSUME SyncInv, NEW p \in Proc, PersistPTRSyncMetadata(p)
  PROVE  \E L \in SUBSET Update :
           /\ L = {u \in Update : /\ IndexOf[u] >= run[p].since
                                 /\ IndexOf[u] < run[p].seen}
           /\ updates' = updates \cup L
           /\ unregistered' = unregistered \cup L
           /\ stored' = stored
           /\ processed' = processed
  <1> DEFINE L == {u \in Update : /\ IndexOf[u] >= run[p].since
                                 /\ IndexOf[u] < run[p].seen}
  <1>1. /\ run[p].pc = "persist" /\ Holds(p)
        /\ updates' = IF run[p].since = 0 THEN L ELSE updates \cup L
        /\ unregistered' = IF run[p].since = 0 THEN L ELSE unregistered \cup L
        /\ stored' = IF run[p].since = 0 THEN stored \cap L ELSE stored
        /\ processed' = IF run[p].since = 0 THEN processed \cap L
                                            ELSE processed
    BY DEF PersistPTRSyncMetadata
  <1>2. \A u \in updates : u \in Update /\ IndexOf[u] < run[p].seen
    BY <1>1 DEF SyncInv, TypeOK, RunInv, SoundRun
  <1>3. \A u \in Update : IndexOf[u] \in Nat
    BY RepositoryAssumption
  <1>4. run[p].since = 0 => updates \subseteq L
    BY <1>2, <1>3
  <1>5. /\ unregistered \subseteq updates /\ stored \subseteq updates
        /\ processed \subseteq stored
    BY DEF SyncInv, TableInv
  <1> HIDE DEF L
  <1>6. CASE run[p].since = 0
    <2>1. updates' = updates \cup L /\ unregistered' = unregistered \cup L
      BY <1>1, <1>4, <1>5, <1>6
    <2>2. stored' = stored /\ processed' = processed
      BY <1>1, <1>4, <1>5, <1>6
    <2>3. QED
      BY <2>1, <2>2 DEF L
  <1>7. CASE run[p].since # 0
    BY <1>1, <1>7 DEF L
  <1>8. QED
    BY <1>6, <1>7

(* The transaction that registers a slice of metadata.                     *)
LEMMA PersistStep ==
  ASSUME SyncInv, NEW p \in Proc, PersistPTRSyncMetadata(p)
  PROVE  SyncInv'
  <1>1. PICK L \in SUBSET Update :
           /\ L = {u \in Update : /\ IndexOf[u] >= run[p].since
                                 /\ IndexOf[u] < run[p].seen}
           /\ updates' = updates \cup L
           /\ unregistered' = unregistered \cup L
           /\ stored' = stored
           /\ processed' = processed
    BY PersistGrows
  <1> DEFINE r == [run[p] EXCEPT !.pc = "list"]
  <1>2. /\ run[p].pc = "persist" /\ Holds(p)
        /\ UNCHANGED <<published, sync, defined, tables, up, tokens>>
        /\ run' = [run EXCEPT ![p] = r]
    BY DEF PersistPTRSyncMetadata
  <1>3. run[p] \in Run
    BY DEF SyncInv, TypeOK
  <1>4. /\ r \in Run /\ r.token = run[p].token /\ r.attempt = run[p].attempt
        /\ r.pc = "list" /\ r.since = run[p].since
        /\ r.todo = run[p].todo /\ r.batch = run[p].batch
    BY <1>3 DEF Run, Steps, DBSteps
  <1> HIDE DEF r
  <1>5. SoundRun(run[p])
    BY <1>2 DEF SyncInv, RunInv
  <1>6. run'[p] = r
    BY <1>2 DEF SyncInv, TypeOK
  <1>7. SoundRun(run[p])'
    BY <1>1, <1>2, <1>4, <1>5, <1>6 DEF SoundRun
  <1>8. /\ \A u \in Update : IndexOf[u] \in Nat
        /\ run[p].since \in Nat /\ run[p].seen \in Nat
        /\ sync.metadataSlice \in Nat /\ published \in Nat
    BY <1>3, RepositoryAssumption DEF SyncInv, TypeOK, SyncState, Run
  <1>9. \A u \in updates' : IndexOf[u] < published
    BY <1>1, <1>2, <1>5, <1>8 DEF SoundRun, SyncInv, TableInv
  <1>10. ASSUME NEW u \in updates', NEW v \in Update, IndexOf[v] <= IndexOf[u]
         PROVE  v \in updates'
    <2>1. CASE u \in updates
      BY <1>1, <1>10, <2>1 DEF SyncInv, TableInv
    <2>2. CASE u \in L
      <3>1. IndexOf[v] < run[p].seen
        BY <1>1, <1>8, <1>10, <2>2
      <3>2. CASE IndexOf[v] >= run[p].since
        BY <1>1, <3>1, <3>2
      <3>3. CASE ~(IndexOf[v] >= run[p].since)
        <4>1. IndexOf[v] < sync.metadataSlice
          BY <1>5, <1>8, <3>3 DEF SoundRun
        <4>2. QED
          BY <1>1, <4>1 DEF SyncInv, TableInv
      <3>4. QED
        BY <3>2, <3>3
    <2>3. QED
      BY <1>1, <2>1, <2>2
  <1>11. TableInv'
    BY <1>1, <1>2, <1>9, <1>10 DEF SyncInv, TableInv
  <1>12. AppliedInOrder' /\ TablesMatchReplay'
    BY <1>1, <1>2 DEF SyncInv, AppliedInOrder, TablesMatchReplay
  <1>13. QED
    BY <1>1, <1>2, <1>4, <1>7, <1>11, <1>12, HolderStep DEF SyncInv, TypeOK

(* Storing a batch moves updates from the download list to the store.      *)
LEMMA FinalizeStep ==
  ASSUME SyncInv, NEW p \in Proc, FinalizePTRDownloadedUpdatesBatch(p)
  PROVE  SyncInv'
  <1> DEFINE r == [run[p] EXCEPT !.pc = "listApply", !.batch = {}]
  <1>1. /\ Holds(p)
        /\ stored' = stored \cup run[p].batch
        /\ unregistered' = unregistered \ run[p].batch
        /\ UNCHANGED <<published, sync, updates, processed, defined, tables,
                       up, tokens>>
        /\ run' = [run EXCEPT ![p] = r]
    BY DEF FinalizePTRDownloadedUpdatesBatch
  <1>2. run[p] \in Run
    BY DEF SyncInv, TypeOK
  <1>3. /\ r \in Run /\ r.token = run[p].token /\ r.attempt = run[p].attempt
        /\ r.pc = "listApply" /\ r.since = run[p].since
        /\ r.todo = run[p].todo /\ r.batch = {}
    BY <1>2 DEF Run, Steps, DBSteps
  <1> HIDE DEF r
  <1>4. SoundRun(run[p])
    BY <1>1 DEF SyncInv, RunInv
  <1>5. run'[p] = r
    BY <1>1 DEF SyncInv, TypeOK
  <1>6. SoundRun(run[p])'
    BY <1>1, <1>3, <1>4, <1>5 DEF SoundRun
  <1>7. run[p].batch \subseteq updates
    BY <1>4 DEF SoundRun
  <1>8. TableInv'
    BY <1>1, <1>7 DEF SyncInv, TableInv
  <1>9. AppliedInOrder' /\ TablesMatchReplay'
    BY <1>1 DEF SyncInv, AppliedInOrder, TablesMatchReplay
  <1>10. QED
    BY <1>1, <1>3, <1>6, <1>7, <1>8, <1>9, HolderStep DEF SyncInv, TypeOK

(* The update an apply step takes has every predecessor applied, and has   *)
(* not been applied itself: the step is one of ordered replay.             *)
LEMMA AppliedNext ==
  ASSUME SyncInv, NEW p \in Proc, run[p].pc = "apply", Holds(p),
         NEW u \in run[p].applying, IsFirst(u, run[p].applying)
  PROVE  /\ u \in stored /\ u \in Update /\ u \notin processed
         /\ \A v \in Update : Precedes(v, u) => v \in processed
  <1>1. SoundRun(run[p])
    BY DEF SyncInv, RunInv
  <1>2. run[p].applying \subseteq stored \ processed
    BY <1>1 DEF SoundRun
  <1>3. /\ u \in stored /\ u \notin processed
        /\ run[p].applying \subseteq Update
    BY <1>2 DEF SyncInv, TypeOK
  <1>4. ASSUME NEW v \in Update, Precedes(v, u) PROVE v \in processed
    <2>1. v \in processed \cup run[p].applying
      BY <1>1, <1>4 DEF SoundRun
    <2>2. ASSUME v \in run[p].applying PROVE FALSE
      <3>1. v # u
        BY <1>3, <1>4, PrecedesOrder
      <3>2. Precedes(u, v)
        BY <2>2, <3>1 DEF IsFirst
      <3>3. QED
        BY <1>3, <1>4, <3>2, PrecedesOrder
    <2>3. QED
      BY <2>1, <2>2
  <1>5. QED
    BY <1>3, <1>4

(* The transaction that applies one downloaded update.                     *)
LEMMA ApplyStep ==
  ASSUME SyncInv, NEW p \in Proc, ApplyPTRProcessableUpdate(p)
  PROVE  SyncInv'
  <1>1. /\ run[p].pc = "apply" /\ Holds(p)
        /\ UNCHANGED <<published, sync, updates, unregistered, stored, up,
                       tokens>>
    BY DEF ApplyPTRProcessableUpdate
  <1>2. PICK u \in run[p].applying :
          /\ IsFirst(u, run[p].applying)
          /\ defined' = IF KindOf[u] = "definitions"
                          THEN defined \cup Defines[u] ELSE defined
          /\ tables' = TablesAfter(tables, u)
          /\ processed' = processed \cup {u}
          /\ run' = [run EXCEPT
               ![p].applying = run[p].applying \ {u},
               ![p].pc = AfterApply(run[p].applying \ {u}, run[p].after)]
    BY DEF ApplyPTRProcessableUpdate
  <1>3. /\ u \in stored /\ u \in Update /\ u \notin processed
        /\ \A v \in Update : Precedes(v, u) => v \in processed
    BY <1>1, <1>2, AppliedNext
  <1> DEFINE r == [run[p] EXCEPT
                    !.applying = run[p].applying \ {u},
                    !.pc = AfterApply(run[p].applying \ {u}, run[p].after)]
  <1>4. run[p] \in Run
    BY DEF SyncInv, TypeOK
  <1>5. AfterApply(run[p].applying \ {u}, run[p].after) \in Steps
    BY <1>4 DEF AfterApply, Run, Steps, DBSteps
  <1>6. /\ r \in Run /\ r.token = run[p].token /\ r.attempt = run[p].attempt
        /\ r.applying = run[p].applying \ {u} /\ r.since = run[p].since
        /\ r.pc = AfterApply(run[p].applying \ {u}, run[p].after)
        /\ r.todo = run[p].todo /\ r.batch = run[p].batch
    BY <1>4, <1>5 DEF Run
  <1>7. run' = [run EXCEPT ![p] = r]
    BY <1>2
  <1> HIDE DEF r
  <1>8. run'[p] = r
    BY <1>7 DEF SyncInv, TypeOK
  <1>9. SoundRun(run[p])
    BY <1>1 DEF SyncInv, RunInv
  <1>10. r.pc # "persist"
    BY <1>4, <1>6 DEF AfterApply, Run
  <1>11. SoundRun(run[p])'
    <2>1. ASSUME r.pc = "apply"
          PROVE  /\ r.applying \subseteq stored \ processed'
                 /\ \A w \in r.applying, v \in Update :
                      Precedes(v, w) => v \in processed' \cup r.applying
      BY <1>1, <1>2, <1>6, <1>9 DEF SoundRun
    <2>2. QED
      BY <1>1, <1>2, <1>6, <1>8, <1>9, <1>10, <2>1 DEF SoundRun
  <1>12. TableInv'
    BY <1>1, <1>2, <1>3 DEF SyncInv, TableInv
  <1>13. AppliedInOrder'
    BY <1>2, <1>3 DEF SyncInv, AppliedInOrder
  <1>14. /\ Adds[u] \subseteq Mapping /\ Deletes[u] \subseteq Mapping
         /\ Defines[u] \subseteq Mapping
    BY <1>3, RepositoryAssumption
  <1>15. tables' \in Tables(Mapping)
    BY <1>2, <1>14 DEF TablesAfter, ApplyMappings, Tables, SyncInv, TypeOK
  <1>16. TablesMatchReplay'
    <2> SUFFICES ASSUME NEW w \in processed', KindOf[w] = "mappings",
                        NEW m \in Mentions(w),
                        \A v \in processed' :
                          Precedes(w, v) /\ KindOf[v] = "mappings"
                            => m \notin Mentions(v)
                 PROVE  IF m \in Deletes[w]
                          THEN m \in tables'.deleted /\ m \notin tables'.current
                          ELSE m \in tables'.current /\ m \notin tables'.deleted
      BY DEF TablesMatchReplay
    <2>1. CASE w = u
      BY <1>2, <2>1 DEF TablesAfter, ApplyMappings, Mentions
    <2>2. CASE w # u
      <3>1. w \in processed /\ w \in Update
        BY <1>2, <2>2 DEF SyncInv, TypeOK
      <3>2. ~Precedes(u, w)
        BY <1>3, <3>1 DEF SyncInv, AppliedInOrder
      <3>3. Precedes(w, u)
        BY <1>3, <2>2, <3>1, <3>2, PrecedesOrder
      <3>4. KindOf[u] = "mappings" => m \notin Mentions(u)
        BY <1>2, <3>3
      <3>5. IF m \in Deletes[w]
              THEN m \in tables.deleted /\ m \notin tables.current
              ELSE m \in tables.current /\ m \notin tables.deleted
        BY <1>2, <3>1 DEF SyncInv, TablesMatchReplay
      <3>6. /\ m \in tables'.deleted <=> m \in tables.deleted
            /\ m \in tables'.current <=> m \in tables.current
        BY <1>2, <3>4 DEF TablesAfter, ApplyMappings, Mentions
      <3>7. QED
        BY <3>5, <3>6
    <2>3. QED
      BY <2>1, <2>2
  <1>17. defined' \in SUBSET Mapping /\ processed' \in SUBSET Update
    BY <1>2, <1>3, <1>14 DEF SyncInv, TypeOK
  <1>18. QED
    BY <1>1, <1>6, <1>7, <1>11, <1>12, <1>13, <1>15, <1>16, <1>17, HolderStep
    DEF SyncInv, TypeOK

-----------------------------------------------------------------------------
(* A step of a run that touches nothing durable and keeps the lease only   *)
(* changes where the run is and the sets it works on.                      *)
LEMMA RunLocalStep ==
  ASSUME SyncInv, NEW p \in Proc, NEW r \in Run,
         UNCHANGED <<published, durable, up, tokens>>,
         run' = [run EXCEPT ![p] = r],
         r.token = run[p].token, r.attempt = run[p].attempt,
         r.since = run[p].since,
         Holds(p) => /\ r.todo \subseteq updates /\ r.batch \subseteq updates
                     /\ r.pc = "persist" => /\ r.seen <= published
                                            /\ \A u \in updates :
                                                 IndexOf[u] < r.seen,
         r.pc # "apply"
  PROVE  SyncInv'
  <1>1. r.attempt <= MaxRetryAttempts
    BY DEF SyncInv, TokenInv
  <1>2. Holds(p) => SoundRun(run[p])
    BY DEF SyncInv, RunInv
  <1>3. Holds(p) => SoundRun(r)
    BY <1>2 DEF SoundRun
  <1>4. up' \in [Proc -> BOOLEAN]
    BY DEF SyncInv, TypeOK
  <1>5. QED
    BY <1>1, <1>3, <1>4, LocalStep

(* A run is dropped without releasing its lease (crash, failed cleanup,    *)
(* a lease somebody else took away).                                       *)
LEMMA DropStep ==
  ASSUME SyncInv, NEW p \in Proc,
         UNCHANGED <<published, durable, tokens>>,
         up' \in [Proc -> BOOLEAN],
         run' = [run EXCEPT ![p] = NoRun]
  PROVE  SyncInv'
  <1>1. NoRun \in Run /\ NoRun.token = NoToken /\ NoRun.attempt = 0
    BY DEF NoRun, Run, Steps, DBSteps, NoToken
  <1>2. ~(Holds(p) /\ NoToken = run[p].token)
    BY DEF Holds, SyncInv, TypeOK, LeaseShape
  <1>3. 0 <= MaxRetryAttempts
    BY SyncAssumption
  <1>4. QED
    BY <1>1, <1>2, <1>3, LocalStep

(* The run's control moves on and nothing else of it changes.              *)
LEMMA MoveStep ==
  ASSUME SyncInv, NEW p \in Proc,
         UNCHANGED <<published, durable, up, tokens>>,
         NEW pc \in Steps \ {"apply", "persist"},
         run' = [run EXCEPT ![p].pc = pc]
  PROVE  SyncInv'
  <1> DEFINE r == [run[p] EXCEPT !.pc = pc]
  <1>1. run[p] \in Run
    BY DEF SyncInv, TypeOK
  <1>2. /\ r \in Run /\ r.pc = pc /\ r.token = run[p].token
        /\ r.attempt = run[p].attempt /\ r.since = run[p].since
        /\ r.todo = run[p].todo /\ r.batch = run[p].batch
    BY <1>1 DEF Run
  <1>3. run' = [run EXCEPT ![p] = r]
    OBVIOUS
  <1> HIDE DEF r
  <1>4. Holds(p) => r.todo \subseteq updates /\ r.batch \subseteq updates
    BY <1>2 DEF SyncInv, RunInv, SoundRun
  <1>5. QED
    BY <1>2, <1>3, <1>4, RunLocalStep

(* Fetched metadata reaches at least as far as everything known locally.   *)
LEMMA FetchStep ==
  ASSUME SyncInv, NEW p \in Proc, FetchRemoteState(p)
  PROVE  SyncInv'
  <1>1. UNCHANGED <<published, durable, up, tokens>>
    BY DEF FetchRemoteState
  <1>2. CASE run' = [run EXCEPT ![p].pc = "persist", ![p].seen = published]
    <2> DEFINE r == [run[p] EXCEPT !.pc = "persist", !.seen = published]
    <2>1. run[p] \in Run /\ published \in Nat
      BY RepositoryAssumption DEF SyncInv, TypeOK
    <2>2. /\ r \in Run /\ r.pc = "persist" /\ r.token = run[p].token
          /\ r.attempt = run[p].attempt /\ r.since = run[p].since
          /\ r.todo = run[p].todo /\ r.batch = run[p].batch
          /\ r.seen = published
      BY <2>1 DEF Run, Steps, DBSteps
    <2>3. run' = [run EXCEPT ![p] = r]
      BY <1>2
    <2> HIDE DEF r
    <2>4. Holds(p) => r.todo \subseteq updates /\ r.batch \subseteq updates
      BY <2>2 DEF SyncInv, RunInv, SoundRun
    <2>5. r.seen <= published /\ \A u \in updates : IndexOf[u] < r.seen
      BY <2>1, <2>2 DEF SyncInv, TableInv
    <2>6. QED
      BY <1>1, <2>2, <2>3, <2>4, <2>5, RunLocalStep
  <1>3. ASSUME NEW err \in {"throttle", "fail"},
               run' = [run EXCEPT ![p].pc = err]
        PROVE  SyncInv'
    <2>1. err \in Steps \ {"apply", "persist"}
      BY DEF Steps, DBSteps
    <2>2. QED
      BY <1>1, <1>3, <2>1, MoveStep
  <1>4. QED
    BY <1>2, <1>3 DEF FetchRemoteState

(* A run lists the updates whose content it has yet to download.           *)
LEMMA ListPendingStep ==
  ASSUME SyncInv, NEW p \in Proc, ListPTRPendingUpdateHashes(p)
  PROVE  SyncInv'
  <1> DEFINE r == [run[p] EXCEPT !.pc = "download", !.todo = unregistered]
  <1>1. run[p] \in Run /\ unregistered \in SUBSET Update
    BY DEF SyncInv, TypeOK
  <1>2. /\ r \in Run /\ r.pc = "download" /\ r.token = run[p].token
        /\ r.attempt = run[p].attempt /\ r.since = run[p].since
        /\ r.todo = unregistered /\ r.batch = run[p].batch
    BY <1>1 DEF Run, Steps, DBSteps
  <1>3. /\ run' = [run EXCEPT ![p] = r]
        /\ UNCHANGED <<published, durable, up, tokens>>
    BY DEF ListPTRPendingUpdateHashes
  <1> HIDE DEF r
  <1>4. Holds(p) => r.todo \subseteq updates /\ r.batch \subseteq updates
    BY <1>2 DEF SyncInv, RunInv, SoundRun, TableInv
  <1>5. QED
    BY <1>2, <1>3, <1>4, RunLocalStep

(* A round downloads hashes of the list only, and the list comes from the  *)
(* update tables.                                                          *)
LEMMA DownloadStep ==
  ASSUME SyncInv, NEW p \in Proc, DownloadRound(p)
  PROVE  SyncInv'
  <1> DEFINE chunk == Chunk(run[p].todo)
             missing == chunk \ stored
  <1>1. /\ run[p] \in Run /\ chunk \subseteq run[p].todo
        /\ run[p].todo \subseteq Update /\ run[p].batch \subseteq Update
    BY DEF SyncInv, TypeOK, Run, Chunk
  <1>2. UNCHANGED <<published, durable, up, tokens>>
    BY DEF DownloadRound
  <1>3. PICK got \in SUBSET missing,
             err \in {"none"} \cup ({"throttle", "fail"} \cap Faults) :
       LET batch == run[p].batch \cup (chunk \cap stored) \cup got IN
       run' = [run EXCEPT
            ![p].todo = run[p].todo \ chunk,
            ![p].batch = batch,
            ![p].after = IF err = "none" THEN "download" ELSE err,
            ![p].pc = IF err = "none"
                        THEN IF Cardinality(batch) >= BatchSize
                             THEN "flush" ELSE "download"
                        ELSE IF batch = {} THEN err ELSE "flush"]
    BY DEF DownloadRound
  <1> DEFINE batch == run[p].batch \cup (chunk \cap stored) \cup got
             after == IF err = "none" THEN "download" ELSE err
             pc == IF err = "none"
                     THEN IF Cardinality(batch) >= BatchSize
                          THEN "flush" ELSE "download"
                     ELSE IF batch = {} THEN err ELSE "flush"
             r == [run[p] EXCEPT !.todo = run[p].todo \ chunk, !.batch = batch,
                                 !.after = after, !.pc = pc]
  <1>4. /\ pc \in {"flush", "download", "throttle", "fail"}
        /\ after \in {"download", "throttle", "fail"}
    OBVIOUS
  <1>5. run' = [run EXCEPT ![p] = r]
    BY <1>3
  <1>6. batch \subseteq run[p].batch \cup run[p].todo
    BY <1>1
  <1> HIDE DEF chunk, missing, batch, after, pc
  <1>7. /\ r \in Run /\ r.pc = pc /\ r.token = run[p].token
        /\ r.attempt = run[p].attempt /\ r.since = run[p].since
        /\ r.todo = run[p].todo \ chunk /\ r.batch = batch
    BY <1>1, <1>4, <1>6 DEF Run, Steps, DBSteps
  <1> HIDE DEF r
  <1>8. Holds(p) => r.todo \subseteq updates /\ r.batch \subseteq updates
    BY <1>6, <1>7 DEF SyncInv, RunInv, SoundRun
  <1>9. r.pc # "apply" /\ r.pc # "persist"
    BY <1>4, <1>7
  <1>10. QED
    BY <1>2, <1>5, <1>7, <1>8, <1>9, RunLocalStep

(* The end of a round of parallel downloads.                               *)
LEMMA DownloadsDoneStep ==
  ASSUME SyncInv, NEW p \in Proc, DownloadsDone(p)
  PROVE  SyncInv'
  <1>1. PICK pc \in {"flush", "listApply"}, after \in {"download", "complete"} :
          run' = [run EXCEPT ![p].pc = pc, ![p].after = after]
    BY DEF DownloadsDone
  <1>2. UNCHANGED <<published, durable, up, tokens>>
    BY DEF DownloadsDone
  <1> DEFINE r == [run[p] EXCEPT !.pc = pc, !.after = after]
  <1>3. run[p] \in Run
    BY DEF SyncInv, TypeOK
  <1>4. /\ r \in Run /\ r.pc = pc /\ r.token = run[p].token
        /\ r.attempt = run[p].attempt /\ r.since = run[p].since
        /\ r.todo = run[p].todo /\ r.batch = run[p].batch
    BY <1>3 DEF Run, Steps, DBSteps
  <1>5. run' = [run EXCEPT ![p] = r]
    BY <1>1
  <1> HIDE DEF r
  <1>6. Holds(p) => r.todo \subseteq updates /\ r.batch \subseteq updates
    BY <1>4 DEF SyncInv, RunInv, SoundRun
  <1>7. QED
    BY <1>2, <1>4, <1>5, <1>6, RunLocalStep

(* Listed updates are stored, and their predecessors are applied or listed *)
(* with them: an update still to be downloaded blocks its own index and    *)
(* all later ones.                                                         *)
LEMMA ListProcessableStep ==
  ASSUME SyncInv, NEW p \in Proc, ListPTRProcessableUpdates(p)
  PROVE  SyncInv'
  <1> DEFINE A == ProcessableUpdates
             pc == AfterApply(A, run[p].after)
             r == [run[p] EXCEPT !.applying = A, !.pc = pc]
  <1>1. /\ Holds(p) /\ UNCHANGED <<published, durable, up, tokens>>
        /\ run' = [run EXCEPT ![p] = r]
    BY DEF ListPTRProcessableUpdates
  <1>2. run[p] \in Run
    BY DEF SyncInv, TypeOK
  <1>3. A \subseteq stored \ processed /\ A \subseteq Update
    BY DEF ProcessableUpdates, SyncInv, TypeOK
  <1>4. pc \in {"apply", "download", "throttle", "fail", "complete"}
    BY <1>2 DEF AfterApply, Run
  <1>5. \A u \in Update : IndexOf[u] \in Nat
    BY RepositoryAssumption
  <1>6. ASSUME NEW u \in A, NEW v \in Update, Precedes(v, u)
        PROVE  v \in processed \cup A
    <2>1. /\ u \in stored /\ u \in updates /\ u \in Update
          /\ \A w \in updates \cap unregistered : IndexOf[u] < IndexOf[w]
      BY <1>3 DEF ProcessableUpdates
    <2>2. IndexOf[v] <= IndexOf[u]
      BY <1>6, <2>1, PrecedesOrder
    <2>3. v \in updates
      BY <2>1, <2>2 DEF SyncInv, TableInv
    <2>4. \A w \in updates \cap unregistered : IndexOf[v] < IndexOf[w]
      BY <1>5, <2>1, <2>2 DEF SyncInv, TypeOK
    <2>5. v \notin unregistered
      BY <1>5, <2>3, <2>4
    <2>6. v \in stored
      BY <2>3, <2>5 DEF SyncInv, TableInv
    <2>7. QED
      BY <2>3, <2>4, <2>6 DEF ProcessableUpdates
  <1> HIDE DEF A, pc
  <1>7. /\ r \in Run /\ r.pc = pc /\ r.token = run[p].token
        /\ r.attempt = run[p].attempt /\ r.since = run[p].since
        /\ r.todo = run[p].todo /\ r.batch = run[p].batch
        /\ r.applying = A
    BY <1>2, <1>3, <1>4 DEF Run, Steps, DBSteps
  <1> HIDE DEF r
  <1>8. SoundRun(run[p])
    BY <1>1 DEF SyncInv, RunInv
  <1>9. SoundRun(r)
    BY <1>3, <1>4, <1>6, <1>7, <1>8 DEF SoundRun
  <1>10. r.attempt <= MaxRetryAttempts /\ up' \in [Proc -> BOOLEAN]
    BY <1>1, <1>7 DEF SyncInv, TokenInv, TypeOK
  <1>11. QED
    BY <1>1, <1>7, <1>9, <1>10, LocalStep

-----------------------------------------------------------------------------
(* The ends of a run: the row no longer holds a lease.                     *)

(* What the writes of the ptr_sync_state row that release the lease give.  *)
LEMMA ReleasedRow ==
  ASSUME NEW s \in SyncState, NEW n \in Nat
  PROVE  /\ Failed(s) \in SyncState /\ ~Failed(s).isRunning
         /\ Failed(s).runToken = NoToken /\ Failed(s).phase = "idle"
         /\ Failed(s).retryAt = "none" /\ Failed(s).retryAttempt = 0
         /\ Failed(s).metadataSlice = s.metadataSlice
         /\ Idle(s, n) \in SyncState /\ ~Idle(s, n).isRunning
         /\ Idle(s, n).runToken = NoToken /\ Idle(s, n).phase = "idle"
         /\ Idle(s, n).retryAt = "none" /\ Idle(s, n).retryAttempt = 0
         /\ Idle(s, n).metadataSlice = n
         /\ Throttled(s, n) \in SyncState /\ ~Throttled(s, n).isRunning
         /\ Throttled(s, n).runToken = NoToken
         /\ Throttled(s, n).phase = "retrying"
         /\ Throttled(s, n).retryAt = "future"
         /\ Throttled(s, n).retryAttempt = n
         /\ Throttled(s, n).metadataSlice = s.metadataSlice
  <1>1. NoToken \in Nat /\ 0 \in Nat
    BY DEF NoToken
  <1>2. QED
    BY <1>1 DEF SyncState, Failed, Idle, Throttled

(* The row after recovery holds no lease.                                  *)
LEMMA RecoveredRow ==
  ASSUME NEW s \in SyncState,
         s.isRunning <=> s.runToken # NoToken,
         s.isRunning <=> s.phase = "syncing",
         s.retryAt # "none" <=> s.phase = "retrying"
  PROVE  /\ Recovered(s) \in SyncState /\ ~Recovered(s).isRunning
         /\ Recovered(s).runToken = NoToken
         /\ Recovered(s).phase \in {"idle", "retrying"}
         /\ Recovered(s).retryAt # "none" <=> Recovered(s).phase = "retrying"
         /\ Recovered(s).retryAttempt \in {0, s.retryAttempt}
         /\ Recovered(s).metadataSlice = s.metadataSlice
  <1> DEFINE R == [s EXCEPT !.phase = "idle", !.isRunning = FALSE,
                            !.runToken = NoToken, !.retryAt = "none",
                            !.retryAttempt = 0, !.lastError = FALSE]
  <1>1. NoToken \in Nat
    BY DEF NoToken
  <1>2. /\ R \in SyncState /\ ~R.isRunning /\ R.runToken = NoToken
        /\ R.phase = "idle" /\ R.retryAt = "none" /\ R.retryAttempt = 0
        /\ R.metadataSlice = s.metadataSlice
    BY <1>1 DEF SyncState
  <1> HIDE DEF R
  <1>3. CASE Recovered(s) = s /\ ~s.isRunning
    BY <1>3 DEF SyncState
  <1>4. CASE Recovered(s) = R
    BY <1>2, <1>4
  <1>5. QED
    BY <1>3, <1>4 DEF Recovered, R

(* Recovery takes the lease away from whoever holds it.                    *)
LEMMA RecoverStep ==
  ASSUME SyncInv, NEW p \in Proc, RecoverPTRSyncFoundation(p)
  PROVE  SyncInv'
  <1>1. /\ sync' = Recovered(sync) /\ up' \in [Proc -> BOOLEAN]
        /\ UNCHANGED <<published, updates, unregistered, stored, processed,
                       defined, tables, run, tokens>>
    BY DEF RecoverPTRSyncFoundation, SyncInv, TypeOK
  <1>2. /\ sync' \in SyncState /\ ~sync'.isRunning /\ sync'.runToken = NoToken
        /\ sync'.phase \in {"idle", "retrying"}
        /\ sync'.retryAt # "none" <=> sync'.phase = "retrying"
        /\ sync'.retryAttempt \in {0, sync.retryAttempt}
        /\ sync'.metadataSlice = sync.metadataSlice
    BY <1>1, RecoveredRow DEF SyncInv, TypeOK, LeaseShape
  <1>3. LeaseShape'
    BY <1>2 DEF LeaseShape
  <1>4. sync'.retryAttempt <= MaxRetryAttempts
    BY <1>2, SyncAssumption DEF SyncInv, RetriesBounded
  <1>5. \A q \in Proc : /\ run'[q].token = run[q].token
                       /\ run'[q].attempt <= MaxRetryAttempts
    BY <1>1 DEF SyncInv, TokenInv
  <1>6. run' \in [Proc -> Run]
    BY <1>1 DEF SyncInv, TypeOK
  <1>7. QED
    BY <1>1, <1>2, <1>3, <1>4, <1>5, <1>6, ReleaseStep

(* The time of a retry has come.                                           *)
LEMMA RetryDueStep == ASSUME SyncInv, RetryFallsDue PROVE SyncInv'
  <1>1. sync \in SyncState /\ LeaseShape
    BY DEF SyncInv, TypeOK
  <1>2. /\ sync.retryAt = "future" /\ sync' = [sync EXCEPT !.retryAt = "past"]
        /\ UNCHANGED <<published, updates, unregistered, stored, processed,
                       defined, tables, up, run, tokens>>
    BY DEF RetryFallsDue
  <1>3. /\ sync' \in SyncState /\ sync'.retryAt = "past"
        /\ sync'.phase = sync.phase /\ sync'.isRunning = sync.isRunning
        /\ sync'.runToken = sync.runToken
        /\ sync'.retryAttempt = sync.retryAttempt
        /\ sync'.metadataSlice = sync.metadataSlice
    BY <1>1, <1>2 DEF SyncState
  <1>4. LeaseShape' /\ ~sync'.isRunning
    BY <1>1, <1>2, <1>3 DEF LeaseShape
  <1>5. /\ \A q \in Proc : /\ run'[q].token = run[q].token
                          /\ run'[q].attempt <= MaxRetryAttempts
        /\ sync'.retryAttempt <= MaxRetryAttempts
    BY <1>2, <1>3 DEF SyncInv, TokenInv, RetriesBounded
  <1>6. run' \in [Proc -> Run] /\ up' \in [Proc -> BOOLEAN]
    BY <1>2 DEF SyncInv, TypeOK
  <1>7. QED
    BY <1>2, <1>3, <1>4, <1>5, <1>6, ReleaseStep

(* A run ends by one of these writes: the lease is released.               *)
LEMMA EndStep ==
  ASSUME SyncInv, NEW p \in Proc,
         UNCHANGED <<published, updates, unregistered, stored, processed,
                     defined, tables, up, tokens>>,
         run' \in {[run EXCEPT ![p] = NoRun], [run EXCEPT ![p].pc = "fail"]},
         sync' \in SyncState, ~sync'.isRunning, sync'.runToken = NoToken,
         sync'.phase \in {"idle", "retrying"},
         sync'.retryAt # "none" <=> sync'.phase = "retrying",
         sync'.metadataSlice \in {sync.metadataSlice, NextUpdateIndex(updates)},
         sync'.retryAttempt <= MaxRetryAttempts
  PROVE  SyncInv'
  <1>1. /\ NoRun \in Run /\ NoRun.token = NoToken /\ NoRun.attempt = 0
        /\ 0 <= MaxRetryAttempts
    BY SyncAssumption DEF NoRun, Run, Steps, DBSteps, NoToken
  <1>2. run[p] \in Run /\ run \in [Proc -> Run] /\ up' \in [Proc -> BOOLEAN]
    BY DEF SyncInv, TypeOK
  <1> DEFINE f == [run[p] EXCEPT !.pc = "fail"]
  <1>3. f \in Run /\ f.token = run[p].token /\ f.attempt = run[p].attempt
    BY <1>2 DEF Run, Steps
  <1>4. run' = [run EXCEPT ![p] = NoRun] \/ run' = [run EXCEPT ![p] = f]
    OBVIOUS
  <1> HIDE DEF f
  <1>5. run' \in [Proc -> Run]
    BY <1>1, <1>2, <1>3, <1>4
  <1>6. \A q \in Proc : /\ run'[q].token \in {run[q].token, NoToken}
                       /\ run'[q].attempt <= MaxRetryAttempts
    BY <1>1, <1>2, <1>3, <1>4 DEF SyncInv, TokenInv
  <1>7. LeaseShape'
    BY DEF LeaseShape
  <1>8. QED
    BY <1>2, <1>5, <1>6, <1>7, ReleaseStep

(* The transaction that ends a run with everything applied.                *)
LEMMA CompleteStep ==
  ASSUME SyncInv, NEW p \in Proc, CompletePTRSyncSuccess(p) PROVE SyncInv'
  <1>1. sync \in SyncState /\ NextUpdateIndex(updates) \in Nat
    BY NextUpdateIndexSpec, RepositoryAssumption DEF SyncInv, TypeOK
  <1>2. sync' = Idle(sync, NextUpdateIndex(updates))
    BY DEF CompletePTRSyncSuccess
  <1>3. /\ sync' \in SyncState /\ ~sync'.isRunning
        /\ sync'.runToken = NoToken /\ sync'.phase = "idle"
        /\ sync'.retryAt = "none" /\ sync'.retryAttempt = 0
        /\ sync'.metadataSlice = NextUpdateIndex(updates)
    BY <1>1, <1>2, ReleasedRow
  <1>4. 0 <= MaxRetryAttempts
    BY SyncAssumption
  <1>5. QED
    BY <1>3, <1>4, EndStep DEF CompletePTRSyncSuccess

(* The repository is busy: the run is put off.                             *)
LEMMA ThrottledStep ==
  ASSUME SyncInv, NEW p \in Proc, FinishPTRSyncThrottled(p) PROVE SyncInv'
  <1> DEFINE n == run[p].attempt + 1
  <1>1. sync \in SyncState /\ n \in Nat /\ 0 <= MaxRetryAttempts
    BY SyncAssumption DEF SyncInv, TypeOK, Run
  <1>2. CASE n <= MaxRetryAttempts /\ sync' = Throttled(sync, n)
    BY <1>1, <1>2, ReleasedRow, EndStep DEF FinishPTRSyncThrottled
  <1>3. CASE sync' = Failed(sync)
    BY <1>1, <1>3, ReleasedRow, EndStep DEF FinishPTRSyncThrottled
  <1>4. QED
    BY <1>2, <1>3 DEF FinishPTRSyncThrottled

(* The deferred cleanup: either the lease is still held and is released,   *)
(* or somebody took it away and the row is left alone.                     *)
LEMMA CleanupStep ==
  ASSUME SyncInv, NEW p \in Proc,
         FinishPTRSyncFailure(p) \/ CancelPTRSync(p)
  PROVE  SyncInv'
  <1>1. /\ UNCHANGED <<published, updates, unregistered, stored, processed,
                       defined, tables, up, tokens>>
        /\ run' = [run EXCEPT ![p] = NoRun]
    BY DEF FinishPTRSyncFailure, CancelPTRSync
  <1>2. /\ sync \in SyncState /\ NextUpdateIndex(updates) \in Nat
        /\ 0 <= MaxRetryAttempts
    BY NextUpdateIndexSpec, RepositoryAssumption, SyncAssumption
    DEF SyncInv, TypeOK
  <1>3. CASE sync' = sync
    <2>1. UNCHANGED <<published, durable, tokens>> /\ up' \in [Proc -> BOOLEAN]
      BY <1>1, <1>3 DEF durable, SyncInv, TypeOK
    <2>2. QED
      BY <1>1, <2>1, DropStep
  <1>4. CASE sync' = Failed(sync)
    <2>1. /\ sync' \in SyncState /\ ~sync'.isRunning
          /\ sync'.runToken = NoToken /\ sync'.phase = "idle"
          /\ sync'.retryAt = "none" /\ sync'.retryAttempt = 0
          /\ sync'.metadataSlice = sync.metadataSlice
      BY <1>2, <1>4, ReleasedRow
    <2>2. QED
      BY <1>1, <1>2, <2>1, EndStep
  <1>5. CASE sync' = Idle(sync, NextUpdateIndex(updates))
    <2>1. /\ sync' \in SyncState /\ ~sync'.isRunning
          /\ sync'.runToken = NoToken /\ sync'.phase = "idle"
          /\ sync'.retryAt = "none" /\ sync'.retryAttempt = 0
          /\ sync'.metadataSlice = NextUpdateIndex(updates)
      BY <1>2, <1>5, ReleasedRow
    <2>2. QED
      BY <1>1, <1>2, <2>1, EndStep
  <1>6. QED
    BY <1>3, <1>4, <1>5 DEF FinishPTRSyncFailure, CancelPTRSync

(* Every step of a process keeps the invariant, one case per action.       *)
LEMMA ProcSyncInv ==
  ASSUME SyncInv, NEW p \in Proc, ProcStep(p)
  PROVE  SyncInv'
  <1> USE DEF Steps, DBSteps
  <1>1. CASE RecoverPTRSyncFoundation(p)
    BY <1>1, RecoverStep
  <1>2. CASE CheckRetry(p)
    <2>1. "begin" \in Steps \ {"apply", "persist"}
      OBVIOUS
    <2>2. QED
      BY <1>2, <2>1, MoveStep DEF CheckRetry
  <1>3. CASE BeginPTRSync(p)
    BY <1>3, BeginStep
  <1>4. CASE FetchRemoteState(p)
    BY <1>4, FetchStep
  <1>5. CASE PersistPTRSyncMetadata(p)
    BY <1>5, PersistStep
  <1>6. CASE ListPTRPendingUpdateHashes(p)
    BY <1>6, ListPendingStep
  <1>7. CASE DownloadRound(p)
    BY <1>7, DownloadStep
  <1>8. CASE DownloadsDone(p)
    BY <1>8, DownloadsDoneStep
  <1>9. CASE FinalizePTRDownloadedUpdatesBatch(p)
    BY <1>9, FinalizeStep
  <1>10. CASE ListPTRProcessableUpdates(p)
    BY <1>10, ListProcessableStep
  <1>11. CASE ApplyPTRProcessableUpdate(p)
    BY <1>11, ApplyStep
  <1>12. CASE CompletePTRSyncSuccess(p)
    BY <1>12, CompleteStep
  <1>13. CASE FinishPTRSyncThrottled(p)
    BY <1>13, ThrottledStep
  <1>14. CASE TransactionRejected(p)
    <2>1. "fail" \in Steps \ {"apply", "persist"}
      OBVIOUS
    <2>2. QED
      BY <1>14, <2>1, MoveStep DEF TransactionRejected
  <1>15. CASE FinishPTRSyncFailure(p) \/ CancelPTRSync(p)
    BY <1>15, CleanupStep
  <1>16. CASE ContextCancelled(p)
    <2>1. "cancel" \in Steps \ {"apply", "persist"}
      OBVIOUS
    <2>2. QED
      BY <1>16, <2>1, MoveStep DEF ContextCancelled
  <1>17. CASE CleanupFails(p) \/ Crash(p)
    <2>1. up' \in [Proc -> BOOLEAN]
      BY <1>17 DEF CleanupFails, Crash, SyncInv, TypeOK
    <2>2. QED
      BY <1>17, <2>1, DropStep DEF CleanupFails, Crash
  <1>18. QED
    BY <1>1, <1>2, <1>3, <1>4, <1>5, <1>6, <1>7, <1>8, <1>9, <1>10, <1>11,
       <1>12, <1>13, <1>14, <1>15, <1>16, <1>17 DEF ProcStep, RunStep

(* Every step keeps the invariant.                                         *)
LEMMA NextSyncInv == SyncInv /\ [Next]_vars => SyncInv'
  <1> SUFFICES ASSUME SyncInv, [Next]_vars PROVE SyncInv'
    OBVIOUS
  <1>1. CASE UNCHANGED vars
    BY <1>1 DEF vars, durable, SyncInv, TypeOK, LeaseShape, TokenInv, TableInv,
                RetriesBounded, AppliedInOrder, TablesMatchReplay, RunInv,
                Holds, SoundRun
  <1>2. CASE Publish
    BY <1>2, PublishStep
  <1>3. CASE RetryFallsDue
    BY <1>3, RetryDueStep
  <1>4. ASSUME NEW p \in Proc, ProcStep(p) PROVE SyncInv'
    BY <1>4, ProcSyncInv
  <1>5. QED
    BY <1>1, <1>2, <1>3, <1>4 DEF Next

(* The inductive invariant holds in every behaviour of the daemon's PTR    *)
(* synchronisation, for any number of processes and any repository.        *)
THEOREM SyncInvariant == Spec => []SyncInv
  BY InitSyncInv, NextSyncInv, PTL DEF Spec

(* Type correctness: rows, tables and runs stay well formed, and the lease *)
(* columns of the ptr_sync_state row agree with each other.                *)
THEOREM TypeCorrect == Spec => []TypeOK
  <1>1. SyncInv => TypeOK
    BY DEF SyncInv
  <1>2. QED
    BY <1>1, SyncInvariant, PTL

(* Updates are applied in repository order (queryPTRProcessableUpdates).   *)
THEOREM OrderedApplication == Spec => []AppliedInOrder
  <1>1. SyncInv => AppliedInOrder
    BY DEF SyncInv
  <1>2. QED
    BY <1>1, SyncInvariant, PTL

(* The mapping tables are the replay of the applied updates                *)
(* (applyPTRMappingsTx).                                                   *)
THEOREM ReplayedTables == Spec => []TablesMatchReplay
  <1>1. SyncInv => TablesMatchReplay
    BY DEF SyncInv
  <1>2. QED
    BY <1>1, SyncInvariant, PTL

(* No update below the metadata slice is lost (finishPTRSyncIdle).         *)
THEOREM NoUpdateLost == Spec => []NothingBelowSliceLost
  <1>1. SyncInv => NothingBelowSliceLost
    BY DEF SyncInv, TableInv, NothingBelowSliceLost
  <1>2. QED
    BY <1>1, SyncInvariant, PTL

(* A status reported as complete is complete (lookupPTRSyncStatus).        *)
THEOREM CompleteIsComplete == Spec => []CompleteMeansApplied
  <1>1. SyncInv => CompleteMeansApplied
    BY DEF SyncInv, TableInv, CompleteMeansApplied, IsComplete
  <1>2. QED
    BY <1>1, SyncInvariant, PTL

(* The throttle back-off gives up at its limit (finishPTRSyncThrottled).   *)
THEOREM BoundedRetries == Spec => []RetriesBounded
  <1>1. SyncInv => RetriesBounded
    BY DEF SyncInv
  <1>2. QED
    BY <1>1, SyncInvariant, PTL

(* The run that holds the lease never meets an undefined repository id     *)
(* (normalizePTRMappingRow), given a remote that defines before it uses.   *)
THEOREM DefinitionsInTime == Spec => []DefinitionsReady
  <1>1. ASSUME SyncInv PROVE DefinitionsReady
    <2> SUFFICES ASSUME NEW p \in Proc, run[p].pc = "apply", Holds(p),
                        NEW u \in run[p].applying,
                        IsFirst(u, run[p].applying),
                        KindOf[u] = "mappings", NEW m \in Mentions(u)
                 PROVE  m \in defined
      BY DEF DefinitionsReady, Resolvable
    <2>1. u \in Update /\ \A v \in Update : Precedes(v, u) => v \in processed
      BY <1>1, AppliedNext
    <2>2. PICK d \in Update :
            KindOf[d] = "definitions" /\ Precedes(d, u) /\ m \in Defines[d]
      BY <2>1, DefinedBeforeUse
    <2>3. d \in processed
      BY <2>1, <2>2
    <2>4. QED
      BY <1>1, <2>2, <2>3 DEF SyncInv, TableInv
  <1>2. QED
    BY <1>1, SyncInvariant, PTL

-----------------------------------------------------------------------------
(* Only an apply step touches the applied set and the mapping tables.      *)
LEMMA OnlyApplyApplies ==
  ASSUME SyncInv, [Next]_vars,
         ~\E p \in Proc : ApplyPTRProcessableUpdate(p)
  PROVE  UNCHANGED <<processed, tables>>
  <1>1. ASSUME NEW p \in Proc, PersistPTRSyncMetadata(p)
        PROVE  UNCHANGED <<processed, tables>>
    <2>1. processed' = processed
      BY <1>1, PersistGrows
    <2>2. QED
      BY <1>1, <2>1 DEF PersistPTRSyncMetadata
  <1>2. ASSUME NEW p \in Proc, ProcStep(p), ~PersistPTRSyncMetadata(p)
        PROVE  UNCHANGED <<processed, tables>>
    BY <1>2 DEF ProcStep, RunStep, RecoverPTRSyncFoundation, CheckRetry,
         BeginPTRSync, FetchRemoteState, ListPTRPendingUpdateHashes,
         DownloadRound, DownloadsDone, FinalizePTRDownloadedUpdatesBatch,
         ListPTRProcessableUpdates, CompletePTRSyncSuccess,
         FinishPTRSyncThrottled, TransactionRejected, FinishPTRSyncFailure,
         CancelPTRSync, ContextCancelled, CleanupFails, Crash, durable
  <1>3. QED
    BY <1>1, <1>2 DEF Next, Publish, RetryFallsDue, vars, durable

(* The slice moves only to the next update index, which is no smaller.     *)
LEMMA SliceMovesForward ==
  ASSUME SyncInv, [Next]_vars
  PROVE  sync.metadataSlice <= sync'.metadataSlice
  <1>1. /\ sync \in SyncState /\ sync.metadataSlice \in Nat
        /\ NextUpdateIndex(updates) \in Nat /\ tokens + 1 \in Nat
    BY NextUpdateIndexSpec, RepositoryAssumption DEF SyncInv, TypeOK, SyncState
  <1>2. sync.metadataSlice <= NextUpdateIndex(updates)
    <2>1. CASE sync.metadataSlice = 0
      BY <1>1, <2>1
    <2>2. CASE \E u \in updates : IndexOf[u] = sync.metadataSlice - 1
      BY <1>1, <2>2, NextUpdateIndexSpec DEF SyncInv, TypeOK
    <2>3. QED
      BY <2>1, <2>2 DEF SyncInv, TableInv
  <1>3. \/ sync' = sync
        \/ sync' = [sync EXCEPT !.retryAt = "past"]
        \/ sync' = Recovered(sync)
        \/ sync' = Running(sync, tokens + 1)
        \/ sync' = Idle(sync, NextUpdateIndex(updates))
        \/ sync' = Failed(sync)
        \/ \E p \in Proc : sync' = Throttled(sync, run[p].attempt + 1)
    <2>1. ASSUME NEW p \in Proc, ProcStep(p)
          PROVE  <1>3!:
      BY <2>1 DEF ProcStep, RunStep, RecoverPTRSyncFoundation, CheckRetry,
         BeginPTRSync, FetchRemoteState, PersistPTRSyncMetadata,
         ListPTRPendingUpdateHashes, DownloadRound, DownloadsDone,
         FinalizePTRDownloadedUpdatesBatch, ListPTRProcessableUpdates,
         ApplyPTRProcessableUpdate, CompletePTRSyncSuccess,
         FinishPTRSyncThrottled, TransactionRejected, FinishPTRSyncFailure,
         CancelPTRSync, ContextCancelled, CleanupFails, Crash, durable
    <2>2. QED
      BY <2>1 DEF Next, Publish, RetryFallsDue, vars, durable
  <1>4. CASE sync' = Idle(sync, NextUpdateIndex(updates))
    <2>1. sync'.metadataSlice = NextUpdateIndex(updates)
      BY <1>1, <1>4 DEF Idle, SyncState
    <2>2. QED
      BY <1>2, <2>1
  <1>5. CASE ~(sync' = Idle(sync, NextUpdateIndex(updates)))
    <2>1. sync'.metadataSlice = sync.metadataSlice
      BY <1>1, <1>3, <1>5 DEF Recovered, Running, Failed, Throttled, SyncState
    <2>2. QED
      BY <1>1, <2>1
  <1>6. QED
    BY <1>4, <1>5

(* Applied updates stay applied and the slice never moves back             *)
(* (applyPTRRepositoryMetadata's replacement and prune, setPTRSyncIdle).   *)
THEOREM ProgressIsKept == Spec => ProgressKept
  <1>1. SyncInv /\ [Next]_vars =>
          [/\ processed \subseteq processed'
           /\ sync.metadataSlice <= sync'.metadataSlice]_vars
    <2> SUFFICES ASSUME SyncInv, [Next]_vars
                 PROVE  /\ processed \subseteq processed'
                        /\ sync.metadataSlice <= sync'.metadataSlice
      OBVIOUS
    <2>1. CASE \E p \in Proc : ApplyPTRProcessableUpdate(p)
      BY <2>1, SliceMovesForward DEF ApplyPTRProcessableUpdate
    <2>2. CASE ~\E p \in Proc : ApplyPTRProcessableUpdate(p)
      BY <2>2, OnlyApplyApplies, SliceMovesForward
    <2>3. QED
      BY <2>1, <2>2
  <1>2. QED
    BY <1>1, SyncInvariant, PTL DEF Spec, ProgressKept

(* The synchronisation implements ordered replay: whatever processes,      *)
(* runs, retries and crashes there are, the mapping tables change only by  *)
(* applying the next update of the repository, once                        *)
(* (applyPTRProcessableUpdate).                                            *)
THEOREM SyncImplementsReplay == Spec => ImplementsReplay
  <1>1. Init => Replay!Init
    BY DEF Init, Replay!Init, InitialTables, Replay!InitialTables
  <1>2. SyncInv /\ [Next]_vars => [Replay!Next]_(Replay!vars)
    <2> SUFFICES ASSUME SyncInv, [Next]_vars
                 PROVE  [Replay!Next]_(Replay!vars)
      OBVIOUS
    <2>1. ASSUME NEW p \in Proc, ApplyPTRProcessableUpdate(p)
          PROVE  Replay!Next
      <3>1. PICK u \in run[p].applying :
              /\ IsFirst(u, run[p].applying)
              /\ tables' = TablesAfter(tables, u)
              /\ processed' = processed \cup {u}
        BY <2>1 DEF ApplyPTRProcessableUpdate
      <3>2. /\ u \in Update /\ u \notin processed
            /\ \A v \in Update : Precedes(v, u) => v \in processed
        BY <2>1, <3>1, AppliedNext DEF ApplyPTRProcessableUpdate
      <3>3. \A v \in Update : Replay!Precedes(v, u) <=> Precedes(v, u)
        BY DEF Precedes, Replay!Precedes
      <3>4. Replay!TablesAfter(tables, u) = TablesAfter(tables, u)
        BY DEF TablesAfter, Replay!TablesAfter, ApplyMappings,
               Replay!ApplyMappings
      <3>5. Replay!Apply(u)
        BY <3>1, <3>2, <3>3, <3>4 DEF Replay!Apply
      <3>6. QED
        BY <3>2, <3>5 DEF Replay!Next
    <2>2. CASE ~\E p \in Proc : ApplyPTRProcessableUpdate(p)
      BY <2>2, OnlyApplyApplies DEF Replay!vars
    <2>3. QED
      BY <2>1, <2>2
  <1>3. QED
    BY <1>1, <1>2, SyncInvariant, PTL
    DEF Spec, ImplementsReplay, Replay!Spec
=============================================================================
