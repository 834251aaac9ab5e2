------------------------------ MODULE PTRReplay ------------------------------
(***************************************************************************)
(* What PTR synchronisation promises, without leases, batches, retries or  *)
(* crashes: the updates of the remote repository are applied to the local  *)
(* mapping tables one at a time, each exactly once, in repository order.   *)
(***************************************************************************)
EXTENDS PTRRepository

VARIABLES applied,   \* the updates applied so far
          tables     \* the mapping tables, see PTRMappingTables

vars == <<applied, tables>>

Init == applied = {} /\ tables = InitialTables

(* The next update in repository order is applied.                         *)
Apply(u) ==
  /\ u \notin applied
  /\ \A v \in Update : Precedes(v, u) => v \in applied
  /\ applied' = applied \cup {u}
  /\ tables' = TablesAfter(tables, u)

Next == \E u \in Update : Apply(u)

Spec == Init /\ [][Next]_vars
=============================================================================
