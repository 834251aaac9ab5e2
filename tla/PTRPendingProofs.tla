--------------------------- MODULE PTRPendingProofs ---------------------------
(***************************************************************************)
(* PTRPending's safety properties for every set of mappings, every number  *)
(* of concurrent commits and every log.                                    *)
(***************************************************************************)
EXTENDS PTRPending, TLAPS

(* The initial states.                                                     *)
LEMMA InitPending == PendingInit => PendingInv
  BY PendingAssumption
  DEF PendingInit, PendingInv, MappingTypes, Tables,
      Commit, NoCommit, RemoteUpdate,
      StatusUnambiguous, LogInv, LagInv, CommitInv, Unapplied

-----------------------------------------------------------------------------
(* The remote publishes.                                                   *)

(* What Publish does to the log.                                           *)
LEMMA LogGrows ==
  ASSUME log \in Seq(RemoteUpdate),
         NEW a \in SUBSET Mapping, NEW d \in SUBSET Mapping,
         Publish(a, d)
  PROVE  /\ log' \in Seq(RemoteUpdate)
         /\ Len(log) \in Nat
         /\ Len(log') = Len(log) + 1
         /\ \A i \in 1..Len(log) : log'[i] = log[i]
         /\ log'[Len(log) + 1].adds = a
         /\ log'[Len(log) + 1].deletes = d
         /\ remote' = (remote \cup a) \ d
<1> DEFINE u == [adds |-> a, deletes |-> d]
<1>1. u \in RemoteUpdate
  BY DEF RemoteUpdate
<1>2. log' = Append(log, u) /\ remote' = (remote \cup a) \ d
  BY DEF Publish
<1>3. u.adds = a /\ u.deletes = d
  OBVIOUS
<1> HIDE DEF u
<1> QED
  BY <1>1, <1>2, <1>3

(* A new update settles every disagreement it causes.                      *)
LEMMA PublishKeeps ==
  ASSUME PendingInv,
         NEW a \in SUBSET Mapping, NEW d \in SUBSET Mapping,
         a \cap d = {}, Len(log) < MaxLog, Publish(a, d),
         UNCHANGED <<tables, synced, unsent>>
  PROVE  /\ log' \in Seq(RemoteUpdate) /\ Len(log') <= MaxLog
         /\ remote' \in SUBSET Mapping /\ synced' \in 0..Len(log')
         /\ LogInv' /\ LagInv'
         /\ \A m \in Mapping :
              (m \in a \/ \E j \in Unapplied : m \in log[j].adds)
                => \E j \in Unapplied' : m \in log'[j].adds
<1> USE DEF PendingInv
<1>1. /\ log' \in Seq(RemoteUpdate)
      /\ Len(log) \in Nat
      /\ Len(log') = Len(log) + 1
      /\ \A i \in 1..Len(log) : log'[i] = log[i]
      /\ log'[Len(log) + 1].adds = a
      /\ log'[Len(log) + 1].deletes = d
      /\ remote' = (remote \cup a) \ d
  BY LogGrows DEF MappingTypes
<1>2. synced \in 0..Len(log) /\ remote \in SUBSET Mapping
  BY DEF MappingTypes
<1>3. Len(log') <= MaxLog /\ remote' \in SUBSET Mapping /\ synced' \in 0..Len(log')
  BY <1>1, <1>2, PendingAssumption
<1>4. LogInv'
  <2> SUFFICES ASSUME NEW i \in 1..Len(log')
               PROVE  /\ log'[i].adds \cap log'[i].deletes = {}
                      /\ \A m \in log'[i].deletes \cap remote' :
                           \E j \in i + 1 .. Len(log') : m \in log'[j].adds
                      /\ \A m \in log'[i].adds \ remote' :
                           \E j \in i + 1 .. Len(log') : m \in log'[j].deletes
    BY DEF LogInv
  <2>1. CASE i = Len(log) + 1
    BY <1>1, <2>1
  <2>2. CASE i \in 1..Len(log)
    <3>1. log'[i] = log[i] /\ log[i].adds \cap log[i].deletes = {}
      BY <1>1, <2>2 DEF LogInv
    <3>2. ASSUME NEW m \in log[i].deletes \cap remote'
          PROVE  \E j \in i + 1 .. Len(log') : m \in log'[j].adds
      <4>1. CASE m \in a
        BY <4>1, <1>1, <2>2
      <4>2. CASE m \in remote
        <5>1. PICK j \in i + 1 .. Len(log) : m \in log[j].adds
          BY <4>2, <2>2 DEF LogInv
        <5> QED
          BY <5>1, <1>1, <2>2
      <4> QED
        BY <4>1, <4>2, <1>1
    <3>3. ASSUME NEW m \in log[i].adds \ remote'
          PROVE  \E j \in i + 1 .. Len(log') : m \in log'[j].deletes
      <4>1. CASE m \in d
        BY <4>1, <1>1, <2>2
      <4>2. CASE m \notin remote
        <5>1. PICK j \in i + 1 .. Len(log) : m \in log[j].deletes
          BY <4>2, <2>2 DEF LogInv
        <5> QED
          BY <5>1, <1>1, <2>2
      <4> QED
        BY <4>1, <4>2, <1>1
    <3> QED
      BY <3>1, <3>2, <3>3
  <2> QED
    BY <2>1, <2>2, <1>1
<1>5. ASSUME NEW m, m \in a \/ \E j \in Unapplied : m \in log[j].adds
      PROVE  \E j \in Unapplied' : m \in log'[j].adds
  BY <1>1, <1>2, <1>5 DEF Unapplied
<1>6. ASSUME NEW m, m \in d \/ \E j \in Unapplied : m \in log[j].deletes
      PROVE  \E j \in Unapplied' : m \in log'[j].deletes
  BY <1>1, <1>2, <1>6 DEF Unapplied
<1>7. LagInv'
  BY <1>1, <1>5, <1>6 DEF LagInv
<1> QED
  BY <1>1, <1>3, <1>4, <1>5, <1>7

(* Another client's change.                                                *)
LEMMA OtherClientKeeps == PendingInv /\ OtherClient => PendingInv'
<1> SUFFICES ASSUME PendingInv, OtherClient
             PROVE  PendingInv'
  OBVIOUS
<1>1. PICK a \in SUBSET Mapping, d \in SUBSET Mapping :
        a \cap d = {} /\ Publish(a, d)
  BY DEF OtherClient
<1>2. Len(log) < MaxLog /\ UNCHANGED <<tables, synced, commit, unsent>>
  BY DEF OtherClient
<1>3. /\ log' \in Seq(RemoteUpdate) /\ Len(log') <= MaxLog
      /\ remote' \in SUBSET Mapping /\ synced' \in 0..Len(log')
      /\ LogInv' /\ LagInv'
      /\ \A m \in Mapping : (\E j \in Unapplied : m \in log[j].adds)
                              => \E j \in Unapplied' : m \in log'[j].adds
  BY <1>1, <1>2, PublishKeeps
<1>4. MappingTypes' /\ StatusUnambiguous'
  BY <1>2, <1>3 DEF PendingInv, MappingTypes, StatusUnambiguous
<1>5. CommitInv'
  BY <1>2, <1>3 DEF PendingInv, MappingTypes, Tables, CommitInv
<1> QED
  BY <1>3, <1>4, <1>5 DEF PendingInv

-----------------------------------------------------------------------------
(* The synchronisation applies the next update (ptrsync.go:3377).          *)

(* The sync applies the next published update.                             *)
LEMMA SyncApplyKeeps == PendingInv /\ SyncApply => PendingInv'
<1> SUFFICES ASSUME PendingInv, SyncApply
             PROVE  PendingInv'
  OBVIOUS
<1> USE DEF PendingInv
<1> DEFINE i == synced + 1
           a == log[i].adds
           d == log[i].deletes
<1>1. /\ i \in 1..Len(log) /\ synced \in Nat /\ Len(log) \in Nat
      /\ log[i] \in RemoteUpdate
  BY DEF MappingTypes, SyncApply
<1>2. a \in SUBSET Mapping /\ d \in SUBSET Mapping /\ a \cap d = {}
  BY <1>1 DEF RemoteUpdate, LogInv
<1>3. /\ synced' = i /\ UNCHANGED <<log, remote, commit>>
      /\ tables' = ApplyMappings(tables, a, d)
      /\ unsent' = unsent \ (a \cup d)
  BY DEF SyncApply
<1> HIDE DEF a, d
<1>4. /\ tables'.current = (tables.current \cup a) \ d
      /\ tables'.deleted = (tables.deleted \ a) \cup d
      /\ tables'.pending = tables.pending \ a
      /\ tables'.petitioned = tables.petitioned \ d
      /\ tables' \in Tables(Mapping)
  BY <1>2, <1>3 DEF ApplyMappings, MappingTypes, Tables
<1>5. MappingTypes'
  BY <1>1, <1>3, <1>4 DEF MappingTypes
<1>6. StatusUnambiguous'
  BY <1>2, <1>4 DEF StatusUnambiguous
<1>7. LogInv'
  BY <1>3 DEF LogInv
<1>8. ASSUME NEW m, NEW j \in Unapplied, m \in log[j].adds, m \notin a
      PROVE  j \in Unapplied' /\ m \in log'[j].adds
  BY <1>1, <1>3, <1>8 DEF Unapplied, a
<1>9. ASSUME NEW m, NEW j \in Unapplied, m \in log[j].deletes, m \notin d
      PROVE  j \in Unapplied' /\ m \in log'[j].deletes
  BY <1>1, <1>3, <1>9 DEF Unapplied, d
<1>10. LagInv'
  <2>1. ASSUME NEW m \in remote' \ tables'.current
        PROVE  \E j \in Unapplied' : m \in log'[j].adds
    <3>1. CASE m \in d
      <4>1. PICK j \in i + 1 .. Len(log) : m \in log[j].adds
        BY <1>1, <1>3, <3>1 DEF LogInv, d
      <4> QED
        BY <4>1, <1>1, <1>3 DEF Unapplied
    <3>2. CASE m \notin d
      <4>1. m \notin a /\ m \in remote \ tables.current
        BY <1>3, <1>4, <3>2
      <4>2. PICK j \in Unapplied : m \in log[j].adds
        BY <4>1 DEF LagInv
      <4> QED
        BY <4>1, <4>2, <1>8
    <3> QED
      BY <3>1, <3>2
  <2>2. ASSUME NEW m \in (tables'.current \ remote') \ unsent'
        PROVE  \E j \in Unapplied' : m \in log'[j].deletes
    <3>1. CASE m \in a
      <4>1. PICK j \in i + 1 .. Len(log) : m \in log[j].deletes
        BY <1>1, <1>3, <3>1 DEF LogInv, a
      <4> QED
        BY <4>1, <1>1, <1>3 DEF Unapplied
    <3>2. CASE m \notin a
      <4>1. m \notin d /\ m \in (tables.current \ remote) \ unsent
        BY <1>3, <1>4, <3>2
      <4>2. PICK j \in Unapplied : m \in log[j].deletes
        BY <4>1 DEF LagInv
      <4> QED
        BY <4>1, <4>2, <1>9
    <3> QED
      BY <3>1, <3>2
  <2> QED
    BY <2>1, <2>2 DEF LagInv
<1>11. CommitInv'
  <2> SUFFICES ASSUME NEW c \in Committer
               PROVE  /\ commit'[c].pc # "idle" =>
                           tables'.pending \ commit'[c].late \subseteq commit'[c].groups
                      /\ commit'[c].pc = "success" =>
                           \A m \in tables'.pending \ commit'[c].late :
                             \E j \in Unapplied' : m \in log'[j].adds
    BY DEF CommitInv
  <2>1. commit'[c].pc # "idle" =>
          tables'.pending \ commit'[c].late \subseteq commit'[c].groups
    BY <1>3, <1>4 DEF CommitInv
  <2>2. ASSUME commit'[c].pc = "success",
               NEW m \in tables'.pending \ commit'[c].late
        PROVE  \E j \in Unapplied' : m \in log'[j].adds
    <3>1. m \notin a /\ m \in tables.pending \ commit[c].late
      BY <1>3, <1>4
    <3>2. PICK j \in Unapplied : m \in log[j].adds
      BY <2>2, <3>1, <1>3 DEF CommitInv
    <3> QED
      BY <3>1, <3>2, <1>8
  <2> QED
    BY <2>1, <2>2
<1> QED
  BY <1>5, <1>6, <1>7, <1>10, <1>11

-----------------------------------------------------------------------------
(* A request stages mappings (ptrsync.go:3677).                            *)

(* The user stages mappings.                                               *)
LEMMA AddPendingKeeps ==
  ASSUME PendingInv, NEW ms \in SUBSET Mapping, AddPendingMappings(ms)
  PROVE  PendingInv'
<1> USE DEF PendingInv
<1>1. /\ tables'.current = tables.current
      /\ tables'.deleted = tables.deleted \ ms
      /\ tables'.pending = tables.pending \cup (ms \ tables.current)
      /\ tables' \in Tables(Mapping)
  BY DEF AddPendingMappings, StagePending, MappingTypes, Tables
<1>2. UNCHANGED <<log, remote, synced, unsent>>
  BY DEF AddPendingMappings
<1> DEFINE new == NewlyStaged(ms)
<1>3. /\ commit' = [c \in Committer |-> [commit[c] EXCEPT !.late = @ \cup new]]
      /\ new \in SUBSET Mapping
      /\ tables'.pending = tables.pending \cup new
  BY <1>1 DEF AddPendingMappings, StagedLate, NewlyStaged
<1> HIDE DEF new
<1>4. ASSUME NEW c \in Committer
      PROVE  /\ commit'[c].pc = commit[c].pc
             /\ commit'[c].groups = commit[c].groups
             /\ commit'[c].late = commit[c].late \cup new
             /\ commit'[c] \in Commit
  BY <1>3 DEF MappingTypes, Commit
<1>5. MappingTypes'
  BY <1>1, <1>2, <1>3, <1>4 DEF MappingTypes
<1>6. StatusUnambiguous' /\ LogInv' /\ LagInv'
  BY <1>1, <1>2 DEF StatusUnambiguous, LogInv, LagInv, Unapplied
<1>7. CommitInv'
  BY <1>2, <1>3, <1>4 DEF CommitInv, Unapplied
<1> QED
  BY <1>5, <1>6, <1>7

-----------------------------------------------------------------------------
(* The steps of a commit (manager.go:424).                                 *)

(* Only the call that takes a step changes.                                *)
LEMMA OneCommitChanges ==
  ASSUME MappingTypes, NEW c \in Committer, NEW r \in Commit,
         r.pc # "idle" => r.groups # {},
         commit' = [commit EXCEPT ![c] = r]
  PROVE  /\ commit' \in [Committer -> Commit]
         /\ commit'[c] = r
         /\ \A b \in Committer : b # c => commit'[b] = commit[b]
         /\ \A b \in Committer : commit'[b].pc # "idle" => commit'[b].groups # {}
  BY DEF MappingTypes

(* A commit lists what is pending before it uploads it.                    *)
LEMMA ListKeeps ==
  ASSUME PendingInv, NEW c \in Committer, ListPTRPendingMappingsForCommit(c)
  PROVE  PendingInv'
<1> USE DEF PendingInv
<1> DEFINE r == [pc |-> "upload", groups |-> tables.pending, late |-> {}]
<1>1. r \in Commit /\ r.groups # {}
  BY DEF ListPTRPendingMappingsForCommit, MappingTypes, Tables, Commit
<1>2. commit' = [commit EXCEPT ![c] = r]
  BY DEF ListPTRPendingMappingsForCommit
<1>3. r.pc = "upload" /\ r.groups = tables.pending /\ r.late = {}
  OBVIOUS
<1> HIDE DEF r
<1>4. UNCHANGED <<tables, log, remote, synced, unsent>>
  BY DEF ListPTRPendingMappingsForCommit
<1>5. /\ commit' \in [Committer -> Commit]
      /\ commit'[c] = r
      /\ \A b \in Committer : b # c => commit'[b] = commit[b]
      /\ \A b \in Committer : commit'[b].pc # "idle" => commit'[b].groups # {}
  BY <1>1, <1>2, OneCommitChanges
<1>6. MappingTypes' /\ StatusUnambiguous' /\ LogInv' /\ LagInv'
  BY <1>4, <1>5 DEF MappingTypes,
         StatusUnambiguous, LogInv, LagInv, Unapplied
<1>7. CommitInv'
  BY <1>3, <1>4, <1>5 DEF CommitInv, Unapplied
<1> QED
  BY <1>6, <1>7

(* What a call that gives up leaves: the other calls and the tables as     *)
(* they were.                                                              *)
LEMMA GivingUpKeeps ==
  ASSUME PendingInv, NEW c \in Committer,
         commit' = [commit EXCEPT ![c] = NoCommit],
         UNCHANGED <<tables, log, remote, synced, unsent>>
  PROVE  PendingInv'
<1> USE DEF PendingInv
<1>1. NoCommit \in Commit /\ NoCommit.pc = "idle"
  BY DEF NoCommit, Commit
<1>2. /\ commit' \in [Committer -> Commit]
      /\ commit'[c] = NoCommit
      /\ \A b \in Committer : b # c => commit'[b] = commit[b]
      /\ \A b \in Committer : commit'[b].pc # "idle" => commit'[b].groups # {}
  BY <1>1, OneCommitChanges
<1>3. MappingTypes' /\ StatusUnambiguous' /\ LogInv' /\ LagInv'
  BY <1>2 DEF MappingTypes,
         StatusUnambiguous, LogInv, LagInv, Unapplied
<1>4. CommitInv'
  BY <1>1, <1>2 DEF CommitInv, Unapplied
<1> QED
  BY <1>3, <1>4

(* Whatever the answer, an accepted upload has put every listed mapping    *)
(* that the daemon still has pending on its way back.                      *)
LEMMA UploadAcceptedKeeps ==
  ASSUME PendingInv, NEW c \in Committer, UploadAccepted(c)
  PROVE  PendingInv'
<1> USE DEF PendingInv
<1> DEFINE g == commit[c].groups
           OnItsWay(m) == \E j \in Unapplied : m \in log[j].adds
<1>1. g \in SUBSET Mapping /\ g # {} /\ remote \in SUBSET Mapping
      /\ commit[c] \in Commit /\ commit[c].pc = "upload"
  BY DEF MappingTypes, Commit, UploadAccepted
<1>2. UNCHANGED <<tables, synced, unsent>>
  BY DEF UploadAccepted
<1>3. /\ log' \in Seq(RemoteUpdate) /\ Len(log') <= MaxLog
      /\ remote' \in SUBSET Mapping /\ synced' \in 0..Len(log')
      /\ LogInv' /\ LagInv'
      /\ \A m \in Mapping :
           OnItsWay(m) \/ m \in g \ remote => OnItsWay(m)'
  <2>1. CASE UNCHANGED <<log, remote>> /\ g \subseteq remote
    BY <2>1, <1>2 DEF MappingTypes, LogInv, LagInv, Unapplied
  <2>2. CASE Len(log) < MaxLog /\ Publish(g \ remote, {})
    <3> DEFINE a == g \ remote
               d == {}
    <3>1. /\ a \in SUBSET Mapping /\ d \in SUBSET Mapping
          /\ a \cap d = {} /\ Len(log) < MaxLog /\ Publish(a, d)
      BY <1>1, <2>2
    <3>2. a = g \ remote
      OBVIOUS
    <3> HIDE DEF a, d
    <3>3. /\ log' \in Seq(RemoteUpdate) /\ Len(log') <= MaxLog
          /\ remote' \in SUBSET Mapping /\ synced' \in 0..Len(log')
          /\ LogInv' /\ LagInv'
          /\ \A m \in Mapping :
               (m \in a \/ \E j \in Unapplied : m \in log[j].adds)
                 => \E j \in Unapplied' : m \in log'[j].adds
      BY <3>1, <1>2, PublishKeeps
    <3> QED
      BY <3>2, <3>3
  <2> QED
    BY <2>1, <2>2 DEF UploadAccepted, Receive
<1>4. ASSUME NEW m \in tables.pending \ commit[c].late
      PROVE  OnItsWay(m)'
  <2>1. m \in Mapping /\ m \in g /\ m \notin tables.current
    BY <1>1 DEF MappingTypes, Tables, StatusUnambiguous, CommitInv
  <2>2. m \in remote => OnItsWay(m)
    BY <2>1 DEF LagInv
  <2> QED
    BY <2>1, <2>2, <1>3
<1>5. PICK r \in {[commit[c] EXCEPT !.pc = "success"], NoCommit} :
        commit' = [commit EXCEPT ![c] = r]
  BY DEF UploadAccepted
<1>6. /\ r \in Commit
      /\ r.pc # "idle" => r.pc = "success" /\ r.groups = g
                          /\ r.late = commit[c].late
  BY <1>1, <1>5 DEF Commit, NoCommit
<1>7. /\ commit' \in [Committer -> Commit]
      /\ commit'[c] = r
      /\ \A b \in Committer : b # c => commit'[b] = commit[b]
      /\ \A b \in Committer : commit'[b].pc # "idle" => commit'[b].groups # {}
  BY <1>1, <1>5, <1>6, OneCommitChanges
<1>8. MappingTypes' /\ StatusUnambiguous'
  BY <1>2, <1>3, <1>7 DEF MappingTypes, StatusUnambiguous
<1>9. CommitInv'
  <2> SUFFICES ASSUME NEW b \in Committer
               PROVE  /\ commit'[b].pc # "idle" =>
                           tables.pending \ commit'[b].late \subseteq commit'[b].groups
                      /\ commit'[b].pc = "success" =>
                           \A m \in tables.pending \ commit'[b].late : OnItsWay(m)'
    BY <1>2 DEF CommitInv
  <2>1. CASE b = c
    <3>1. tables.pending \ commit[c].late \subseteq g
      BY <1>1 DEF CommitInv
    <3> QED
      BY <2>1, <3>1, <1>4, <1>6, <1>7
  <2>2. CASE b # c
    <3>1. tables.pending \in SUBSET Mapping
      BY DEF MappingTypes, Tables
    <3> QED
      BY <2>2, <3>1, <1>3, <1>7 DEF CommitInv
  <2> QED
    BY <2>1, <2>2
<1> QED
  BY <1>3, <1>8, <1>9

(* The local commit: what was sent is on its way back, so either the       *)
(* remote still has it or its deletion is on its way too.                  *)
LEMMA CommitSuccessKeeps ==
  ASSUME PendingInv, NEW c \in Committer, CommitPTRPendingMappingsSuccess(c)
  PROVE  PendingInv'
<1> USE DEF PendingInv
<1>1. commit[c].pc = "success" /\ UNCHANGED <<log, remote, synced>>
      /\ commit' = [commit EXCEPT ![c] = NoCommit]
      /\ unsent' = unsent \cup (tables.pending \cap commit[c].late)
  BY DEF CommitPTRPendingMappingsSuccess
<1>2. /\ tables'.current = tables.current \cup tables.pending
      /\ tables'.deleted = tables.deleted \ tables.pending
      /\ tables'.pending = {}
      /\ tables' \in Tables(Mapping)
  BY DEF CommitPTRPendingMappingsSuccess, CommitPending, MappingTypes, Tables
<1>3. NoCommit \in Commit /\ NoCommit.pc = "idle"
  BY DEF NoCommit, Commit
<1>4. /\ commit' \in [Committer -> Commit]
      /\ commit'[c] = NoCommit
      /\ \A b \in Committer : b # c => commit'[b] = commit[b]
      /\ \A b \in Committer : commit'[b].pc # "idle" => commit'[b].groups # {}
  BY <1>1, <1>3, OneCommitChanges
<1>5. MappingTypes'
  BY <1>1, <1>2, <1>4 DEF MappingTypes, Tables
<1>6. StatusUnambiguous' /\ LogInv'
  BY <1>1, <1>2 DEF StatusUnambiguous, LogInv
<1>7. LagInv'
  <2>1. ASSUME NEW m \in remote' \ tables'.current
        PROVE  \E j \in Unapplied' : m \in log'[j].adds
    BY <1>1, <1>2 DEF LagInv, Unapplied
  <2>2. ASSUME NEW m \in (tables'.current \ remote') \ unsent'
        PROVE  \E j \in Unapplied' : m \in log'[j].deletes
    <3>1. CASE m \in tables.current
      BY <3>1, <1>1 DEF LagInv, Unapplied
    <3>2. CASE m \in tables.pending
      <4>1. m \in tables.pending \ commit[c].late /\ m \notin remote
        BY <3>2, <1>1
      <4>2. PICK i \in Unapplied : m \in log[i].adds
        BY <4>1, <1>1 DEF CommitInv
      <4>3. i \in 1..Len(log) /\ synced \in Nat /\ Len(log) \in Nat
        BY <4>2 DEF Unapplied, MappingTypes
      <4>4. PICK j \in i + 1 .. Len(log) : m \in log[j].deletes
        BY <4>1, <4>2, <4>3 DEF LogInv
      <4> QED
        BY <4>2, <4>3, <4>4, <1>1 DEF Unapplied
    <3> QED
      BY <3>1, <3>2, <1>2
  <2> QED
    BY <2>1, <2>2 DEF LagInv
<1>8. CommitInv'
  BY <1>2, <1>3, <1>4 DEF CommitInv
<1> QED
  BY <1>5, <1>6, <1>7, <1>8

-----------------------------------------------------------------------------
(* A step of somebody else.                                                *)
LEMMA UnchangedPending == PendingInv /\ UNCHANGED pendingVars => PendingInv'
  BY DEF pendingVars, PendingInv, MappingTypes,
         StatusUnambiguous, LogInv, LagInv,
         CommitInv, Unapplied

(* Every step keeps the invariant.                                         *)
LEMMA NextPending == PendingInv /\ [PendingNext]_pendingVars => PendingInv'
<1> SUFFICES ASSUME PendingInv, [PendingNext]_pendingVars
             PROVE  PendingInv'
  OBVIOUS
<1>1. CASE OtherClient
  BY <1>1, OtherClientKeeps
<1>2. CASE SyncApply
  BY <1>2, SyncApplyKeeps
<1>3. ASSUME NEW ms \in SUBSET Mapping, AddPendingMappings(ms)
      PROVE  PendingInv'
  BY <1>3, AddPendingKeeps
<1>4. ASSUME NEW c \in Committer, ListPTRPendingMappingsForCommit(c)
      PROVE  PendingInv'
  BY <1>4, ListKeeps
<1>5. ASSUME NEW c \in Committer, UploadAccepted(c)
      PROVE  PendingInv'
  BY <1>5, UploadAcceptedKeeps
<1>6. ASSUME NEW c \in Committer, UploadFails(c) \/ CommitInterrupted(c)
      PROVE  PendingInv'
  BY <1>6, GivingUpKeeps DEF UploadFails, CommitInterrupted
<1>7. ASSUME NEW c \in Committer, CommitPTRPendingMappingsSuccess(c)
      PROVE  PendingInv'
  BY <1>7, CommitSuccessKeeps
<1>8. CASE UNCHANGED pendingVars
  BY <1>8, UnchangedPending
<1> QED
  BY <1>1, <1>2, <1>3, <1>4, <1>5, <1>6, <1>7, <1>8 DEF PendingNext

(* The daemon and the repository differ only where an update is on its way *)
(* or a mapping was never sent (manager.go:424).                           *)
THEOREM PendingInvariant == PendingSpec => []PendingInv
  BY InitPending, NextPending, PTL DEF PendingSpec

(* Type correctness of the pending mappings (ptrsync.go:143).              *)
THEOREM PendingTypes == PendingSpec => []MappingTypes
<1>1. PendingInv => MappingTypes
  BY DEF PendingInv
<1> QED
  BY PendingInvariant, <1>1, PTL

(* No mapping has two statuses at once (ptrsync.go:3677, 3746).            *)
THEOREM UnambiguousStatus == PendingSpec => []StatusUnambiguous
<1>1. PendingInv => StatusUnambiguous
  BY DEF PendingInv
<1> QED
  BY PendingInvariant, <1>1, PTL

(* When every update is applied the daemon agrees with the repository,     *)
(* save for what was never sent (manager.go:424).                          *)
THEOREM Convergence == PendingSpec => []Converged
<1>1. PendingInv => Converged
  BY DEF PendingInv, MappingTypes, LagInv, Unapplied, Converged
<1> QED
  BY PendingInvariant, <1>1, PTL

(* A staged mapping stops being pending only by becoming current           *)
(* (ptrsync.go:3746).                                                      *)
THEOREM PendingIsKept == PendingSpec => PendingNotDropped
<1> DEFINE Keep == \A m \in tables.pending : m \in tables'.pending \cup tables'.current
<1>1. PendingInv /\ [PendingNext]_pendingVars => [Keep]_pendingVars
  <2> SUFFICES ASSUME PendingInv, PendingNext
               PROVE  Keep
    OBVIOUS
  <2>1. CASE SyncApply
    <3>1. synced + 1 \in 1..Len(log)
      BY <2>1 DEF SyncApply, PendingInv, MappingTypes
    <3>2. log[synced + 1].adds \cap log[synced + 1].deletes = {}
      BY <3>1 DEF PendingInv, LogInv
    <3>3. /\ tables'.pending = tables.pending \ log[synced + 1].adds
          /\ tables'.current = (tables.current \cup log[synced + 1].adds)
                                 \ log[synced + 1].deletes
      BY <2>1 DEF SyncApply, ApplyMappings
    <3> QED
      BY <3>2, <3>3
  <2>2. ASSUME NEW ms \in SUBSET Mapping, AddPendingMappings(ms)
        PROVE  Keep
    BY <2>2 DEF AddPendingMappings, StagePending
  <2>3. ASSUME NEW c \in Committer, CommitPTRPendingMappingsSuccess(c)
        PROVE  Keep
    BY <2>3 DEF CommitPTRPendingMappingsSuccess, CommitPending
  <2>4. ASSUME UNCHANGED tables
        PROVE  Keep
    BY <2>4
  <2> HIDE DEF Keep
  <2> QED
    BY <2>1, <2>2, <2>3, <2>4
    DEF PendingNext, OtherClient,
        ListPTRPendingMappingsForCommit, UploadAccepted,
        UploadFails, CommitInterrupted
<1> QED
  BY PendingInvariant, <1>1, PTL DEF PendingSpec, PendingNotDropped
=============================================================================
