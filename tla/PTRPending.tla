------------------------------ MODULE PTRPending ------------------------------
(***************************************************************************)
(* Staging and committing pending PTR mappings (Manager.AddPendingMappings *)
(* and Manager.CommitPending in internal/ptrsync/manager.go) beside the    *)
(* synchronisation that applies the repository's updates to the same       *)
(* tables.  A commit is a read, an upload and a write transaction; other   *)
(* requests, other commits and the sync run in between.                    *)
(*                                                                         *)
(* Synchronisation is the promise PTRSync is shown to keep (PTRReplay):    *)
(* updates are applied once each, in repository order.                     *)
(***************************************************************************)
EXTENDS Naturals, Sequences, PTRMappingTables

CONSTANTS Mapping,    \* (tag, file) pairs
          Committer,  \* concurrent calls of CommitPending
          MaxLog      \* bound: updates the remote publishes

ASSUME PendingAssumption == MaxLog \in Nat

VARIABLES
  tables,    \* the mapping tables of the PTR service
  log,       \* remote: the updates published, in order
  remote,    \* remote: the mappings the repository holds as current
  synced,    \* how many updates the daemon has applied
  commit,    \* commit[c]: a call of CommitPending
  unsent     \* history: mappings a commit made current that were staged
             \* after it had read what to send

pendingVars == <<tables, log, remote, synced, commit, unsent>>

(* groups: the mappings listed for upload; late: history, the mappings     *)
(* that became pending since, a listed one among them when an update made  *)
(* it current and another deleted it before it was staged again.           *)
Commit == [pc : {"idle", "upload", "success"}, groups : SUBSET Mapping,
           late : SUBSET Mapping]

NoCommit == [pc |-> "idle", groups |-> {}, late |-> {}]

RemoteUpdate == [adds : SUBSET Mapping, deletes : SUBSET Mapping]

MappingTypes ==
  /\ tables \in Tables(Mapping)
  /\ log \in Seq(RemoteUpdate) /\ Len(log) <= MaxLog
  /\ remote \in SUBSET Mapping
  /\ synced \in 0..Len(log)
  /\ commit \in [Committer -> Commit]
  /\ \A c \in Committer : commit[c].pc # "idle" => commit[c].groups # {}
  /\ unsent \in SUBSET Mapping

PendingInit ==
  /\ tables = [current |-> {}, deleted |-> {}, pending |-> {},
               petitioned |-> {}]
  /\ log = <<>> /\ remote = {} /\ synced = 0
  /\ commit = [c \in Committer |-> NoCommit]
  /\ unsent = {}

-----------------------------------------------------------------------------
(* The remote.                                                             *)

(* It takes in what clients send: mappings it does not hold yet, and       *)
(* deletions, become the next update it publishes.                         *)
Publish(adds, deletes) ==
  /\ remote' = (remote \cup adds) \ deletes
  /\ log' = Append(log, [adds |-> adds, deletes |-> deletes])

(* Another client's change.                                                *)
OtherClient ==
  /\ Len(log) < MaxLog
  /\ \E m \in Mapping : IF m \in remote THEN Publish({}, {m})
                                        ELSE Publish({m}, {})
  /\ UNCHANGED <<tables, synced, commit, unsent>>

(* The remote accepts an upload.                                           *)
Receive(ms) ==
  IF ms \subseteq remote THEN UNCHANGED <<log, remote>>
                         ELSE Len(log) < MaxLog /\ Publish(ms \ remote, {})

-----------------------------------------------------------------------------
(* The daemon.                                                             *)

(* applyPTRMappingsTx: the next update.                                    *)
SyncApply ==
  /\ synced < Len(log)
  /\ LET u == log[synced + 1] IN
       /\ tables' = ApplyMappings(tables, u.adds, u.deletes)
       /\ unsent' = unsent \ (u.adds \cup u.deletes)
  /\ synced' = synced + 1
  /\ UNCHANGED <<log, remote, commit>>

(* Of the mappings of a request those that become pending are late for the *)
(* commits under way: nothing is staged for one that is current or pending *)
(* already.                                                                *)
NewlyStaged(ms) == ms \ (tables.current \cup tables.pending)

StagedLate(ms) ==
  commit' = [c \in Committer |->
               [commit[c] EXCEPT !.late = @ \cup NewlyStaged(ms)]]

(* Seeded fault: a mapping is staged whether or not it is current.         *)
AddPendingUnchecked(ms) ==
  /\ tables' = [tables EXCEPT !.deleted = @ \ ms, !.petitioned = @ \ ms,
                              !.pending = @ \cup ms]
  /\ StagedLate(ms)
  /\ UNCHANGED <<log, remote, synced, unsent>>

(* AddPendingMappings: one request, one transaction.                       *)
AddPendingMappings(ms) ==
  /\ tables' = StagePending(tables, ms)
  /\ StagedLate(ms)
  /\ UNCHANGED <<log, remote, synced, unsent>>

(* ListPTRPendingMappingsForCommit: a call with nothing to send is over.   *)
ListPTRPendingMappingsForCommit(c) ==
  /\ commit[c].pc = "idle"
  /\ tables.pending # {}
  /\ commit' = [commit EXCEPT ![c] = [pc |-> "upload",
                                      groups |-> tables.pending, late |-> {}]]
  /\ UNCHANGED <<tables, log, remote, synced, unsent>>

(* client.CommitPendingMappings: the upload is accepted; it fails before   *)
(* it reaches the remote; or it is accepted and the answer is lost.        *)
UploadAccepted(c) ==
  /\ commit[c].pc = "upload"
  /\ Receive(commit[c].groups)
  /\ \/ commit' = [commit EXCEPT ![c].pc = "success"]
     \/ commit' = [commit EXCEPT ![c] = NoCommit]
  /\ UNCHANGED <<tables, synced, unsent>>

UploadFails(c) ==
  /\ commit[c].pc = "upload"
  /\ commit' = [commit EXCEPT ![c] = NoCommit]
  /\ UNCHANGED <<tables, log, remote, synced, unsent>>

(* Seeded fault: the listed mappings become current, pending or not.       *)
CommitSuccessFromList(c) ==
  /\ commit[c].pc = "success"
  /\ tables' = [tables EXCEPT !.current = @ \cup commit[c].groups,
                              !.deleted = @ \ commit[c].groups,
                              !.pending = @ \ commit[c].groups,
                              !.petitioned = @ \ commit[c].groups]
  /\ unsent' = unsent \cup (tables.pending \cap commit[c].late)
  /\ commit' = [commit EXCEPT ![c] = NoCommit]
  /\ UNCHANGED <<log, remote, synced>>

(* CommitPTRPendingMappingsSuccess.                                        *)
CommitPTRPendingMappingsSuccess(c) ==
  /\ commit[c].pc = "success"
  /\ tables' = CommitPending(tables)
  /\ unsent' = unsent \cup (tables.pending \cap commit[c].late)
  /\ commit' = [commit EXCEPT ![c] = NoCommit]
  /\ UNCHANGED <<log, remote, synced>>

(* The transaction fails, or the daemon stops first: the mappings stay     *)
(* pending although they were sent.                                        *)
CommitInterrupted(c) ==
  /\ commit[c].pc = "success"
  /\ commit' = [commit EXCEPT ![c] = NoCommit]
  /\ UNCHANGED <<tables, log, remote, synced, unsent>>

PendingNext ==
  \/ OtherClient
  \/ SyncApply
  \/ \E ms \in (SUBSET Mapping) \ {{}} : AddPendingMappings(ms)
  \/ \E c \in Committer :
       \/ ListPTRPendingMappingsForCommit(c)
       \/ UploadAccepted(c)
       \/ UploadFails(c)
       \/ CommitPTRPendingMappingsSuccess(c)
       \/ CommitInterrupted(c)

PendingSpec == PendingInit /\ [][PendingNext]_pendingVars

-----------------------------------------------------------------------------
(* Properties.                                                             *)

(* No mapping is both current and deleted or both current and pending,     *)
(* whatever the order in which requests, commits and updates touch it.     *)
StatusUnambiguous ==
  /\ tables.current \cap tables.deleted = {}
  /\ tables.current \cap tables.pending = {}

(* Whenever every published update is applied, the daemon and the          *)
(* repository agree on the current mappings, except for the mappings a     *)
(* commit made current although they were staged after it had read its     *)
(* list (manager.go:458).                                                  *)
Converged ==
  synced = Len(log) =>
    /\ remote \subseteq tables.current
    /\ tables.current \ remote \subseteq unsent

(* A mapping a user asked for is never dropped: it stops being pending     *)
(* only in the step that makes it current.                                 *)
PendingNotDropped ==
  [][\A m \in tables.pending :
       m \in tables'.pending \cup tables'.current]_pendingVars

(* "CommitPending uploads currently pending PTR add mappings and, on       *)
(* success, applies the local pending->current transition"                 *)
(* (internal/ptrsync/manager.go:422): what the end of a commit makes       *)
(* current is in the list it uploaded, or the repository holds it anyway.  *)
CommittedWasUploaded ==
  [][\A c \in Committer :
       CommitPTRPendingMappingsSuccess(c)
         => tables'.current \ tables.current
              \subseteq commit[c].groups \cup remote]_pendingVars

-----------------------------------------------------------------------------
(* The inductive invariant behind Converged.                               *)

Unapplied == synced + 1 .. Len(log)

(* What the log says of a mapping after update i agrees with the remote.   *)
LogInv ==
  \A i \in 1..Len(log) :
    /\ log[i].adds \cap log[i].deletes = {}
    /\ \A m \in log[i].deletes \cap remote :
         \E j \in i + 1 .. Len(log) : m \in log[j].adds
    /\ \A m \in log[i].adds \ remote :
         \E j \in i + 1 .. Len(log) : m \in log[j].deletes

(* Where the daemon and the remote disagree, an update that will settle it *)
(* is published and not applied yet, or a commit made a late mapping       *)
(* current.                                                                *)
LagInv ==
  /\ \A m \in remote \ tables.current : \E j \in Unapplied : m \in log[j].adds
  /\ \A m \in (tables.current \ remote) \ unsent :
       \E j \in Unapplied : m \in log[j].deletes

(* What a commit may rely on between its steps: what is pending and was    *)
(* not staged since is listed; once it is sent, an update that adds it is  *)
(* on its way.                                                             *)
CommitInv ==
  \A c \in Committer :
    /\ commit[c].pc # "idle" =>
         tables.pending \ commit[c].late \subseteq commit[c].groups
    /\ commit[c].pc = "success" =>
         \A m \in tables.pending \ commit[c].late :
           \E j \in Unapplied : m \in log[j].adds

PendingInv ==
  /\ MappingTypes
  /\ StatusUnambiguous
  /\ LogInv
  /\ LagInv
  /\ CommitInv
=============================================================================
