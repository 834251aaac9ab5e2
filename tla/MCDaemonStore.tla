--------------------------- MODULE MCDaemonStore ---------------------------
(***************************************************************************)
(* A small instance of three parts of the daemon's store: the library and  *)
(* what reads of it return, the connections reads share, and the making of *)
(* a fresh bundle.  They share no state: part says which of them moves in  *)
(* a behaviour, the others stay in their initial states, where none of     *)
(* their fair actions is enabled.                                          *)
(***************************************************************************)
EXTENDS Library, ReadPool, Bootstrap

VARIABLE part

CONSTANTS f1, f2, bad, ideal, parent

MCFiles == {f1, f2}
MCTags == {bad, ideal, parent}
MCIdeal == [t \in MCTags |-> IF t = bad THEN ideal ELSE t]
MCAncestors == [t \in MCTags |-> IF t = ideal THEN {parent} ELSE {}]

storeVars == <<libraryVars, poolVars, bootVars, part>>

StoreInit ==
  /\ LibraryInit /\ PoolInit /\ BootInit
  /\ part \in {"library", "pool", "bundle"}
  /\ part # "library" => ~hydrusBundle

StoreNext ==
  /\ \/ part = "library" /\ LibraryNext /\ UNCHANGED <<poolVars, bootVars>>
     \/ part = "pool" /\ PoolNext /\ UNCHANGED <<libraryVars, bootVars>>
     \/ part = "bundle" /\ BootNext /\ UNCHANGED <<libraryVars, poolVars>>
  /\ UNCHANGED part

StoreSpec == StoreInit /\ [][StoreNext]_storeVars /\ PoolFairness
=============================================================================
