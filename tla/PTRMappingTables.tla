-------------------------- MODULE PTRMappingTables --------------------------
(***************************************************************************)
(* The four mapping tables the daemon keeps for the PTR service            *)
(* (external_mappings.{current,deleted,pending,petitioned}_mappings_<id>)  *)
(* and the three transactions that change them, each as a function from    *)
(* the tables before to the tables after.  A mapping stands for one        *)
(* (tag_id, hash_id) row; a table is a set because of its primary key.     *)
(***************************************************************************)

Tables(M) == [current : SUBSET M, deleted : SUBSET M,
              pending : SUBSET M, petitioned : SUBSET M]

(***************************************************************************)
(* applyPTRMappingsTx: the adds of an update first, then its deletes.      *)
(***************************************************************************)
ApplyMappings(t, adds, deletes) ==
  [current    |-> (t.current \cup adds) \ deletes,
   deleted    |-> (t.deleted \ adds) \cup deletes,
   pending    |-> t.pending \ adds,
   petitioned |-> t.petitioned \ deletes]

(***************************************************************************)
(* stagePTRPendingMappingsTx: the deleted and petitioned rows go, and the  *)
(* mapping becomes pending unless it is already current.                   *)
(***************************************************************************)
StagePending(t, ms) ==
  [current    |-> t.current,
   deleted    |-> t.deleted \ ms,
   pending    |-> t.pending \cup (ms \ t.current),
   petitioned |-> t.petitioned \ ms]

(* Seeded fault: the pending rows go before they are copied.               *)
CommitPendingDeletesFirst(t) ==
  [current    |-> t.current,
   deleted    |-> t.deleted \ t.pending,
   pending    |-> {},
   petitioned |-> t.petitioned \ t.pending]

(***************************************************************************)
(* commitPTRPendingMappingsSuccessTx: every pending row becomes current.   *)
(***************************************************************************)
CommitPending(t) ==
  [current    |-> t.current \cup t.pending,
   deleted    |-> t.deleted \ t.pending,
   pending    |-> {},
   petitioned |-> t.petitioned \ t.pending]
=============================================================================
