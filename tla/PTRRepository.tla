---------------------------- MODULE PTRRepository ----------------------------
(***************************************************************************)
(* The remote repository as the daemon sees it.  It only grows: Update     *)
(* is the set of update files, named by their local hash_id, IndexOf and   *)
(* KindOf give the update index and the content type of each, Adds and     *)
(* Deletes the mappings a mappings update carries, and Defines the         *)
(* mappings whose tag and hash a definitions update makes resolvable.      *)
(***************************************************************************)
EXTENDS Naturals, PTRMappingTables

CONSTANTS Update, IndexOf, KindOf, Mapping, Adds, Deletes, Defines,
          MaxIndex,                    \* the highest update index
          StagedPending, Petitioned    \* rows present before the first sync

Kind == {"definitions", "mappings"}

Mentions(u) == Adds[u] \cup Deletes[u]

(***************************************************************************)
(* The order queryPTRProcessableUpdates lists updates in: by index, the    *)
(* definitions of an index before its mappings, then by hash_id.           *)
(***************************************************************************)
Precedes(u, v) ==
  \/ IndexOf[u] < IndexOf[v]
  \/ /\ IndexOf[u] = IndexOf[v]
     /\ \/ KindOf[u] = "definitions" /\ KindOf[v] = "mappings"
        \/ KindOf[u] = KindOf[v] /\ u < v

ASSUME RepositoryAssumption ==
  /\ Update \subseteq Nat
  /\ MaxIndex \in Nat
  /\ IndexOf \in [Update -> 0..MaxIndex]
  /\ KindOf \in [Update -> Kind]
  /\ Adds \in [Update -> SUBSET Mapping]
  /\ Deletes \in [Update -> SUBSET Mapping]
  /\ Defines \in [Update -> SUBSET Mapping]
  /\ StagedPending \subseteq Mapping
  /\ Petitioned \subseteq Mapping

(***************************************************************************)
(* The remote defines a tag or hash no later than the first update that    *)
(* mentions it, counting the definitions of an index as earlier.           *)
(***************************************************************************)
ASSUME DefinedBeforeUse ==
  \A u \in Update : KindOf[u] = "mappings" =>
    \A m \in Mentions(u) : \E d \in Update :
      KindOf[d] = "definitions" /\ Precedes(d, u) /\ m \in Defines[d]

InitialTables == [current |-> {}, deleted |-> {},
                  pending |-> StagedPending, petitioned |-> Petitioned]

(* The tables after update u: a definitions update leaves them alone.      *)
TablesAfter(t, u) ==
  IF KindOf[u] = "mappings" THEN ApplyMappings(t, Adds[u], Deletes[u]) ELSE t
=============================================================================
