--------------------------- MODULE MCDesktopWork ---------------------------
(***************************************************************************)
(* A small instance of two parts of the desktop client that work through a *)
(* connection for longer than one request: the import queue and the PTR    *)
(* status.  Both run over the same steps of connect attempts and share     *)
(* nothing else: part says which of them is looked at in a behaviour, the  *)
(* other stays in its initial state, where none of its fair actions is     *)
(* enabled.                                                                *)
(***************************************************************************)
EXTENDS DesktopImportQueue, DesktopPTRStatus

VARIABLE part

CONSTANTS p1, p2, file, drop

\* A folder with two files is dropped together with one of them.
MCContents == [s \in {file, drop} |->
                 IF s = file THEN <<p1>> ELSE <<p1, p2, p1>>]

workVars == <<connectionVars, queueVars, ptrVars, part>>

WorkInit ==
  /\ ConnectionInit /\ QueueInit /\ PTRInit
  /\ part \in {"queue", "status"}
  /\ part = "queue" => \A d \in Daemons : daemonPhase[d] = "idle"

WorkNext ==
  /\ \/ part = "queue" /\ QueueNext /\ UNCHANGED ptrVars
     \/ part = "status" /\ PTRStatusNext /\ UNCHANGED queueVars
  /\ UNCHANGED part

WorkSpec ==
  /\ WorkInit /\ [][WorkNext]_workVars
  /\ QueueFairness /\ PTRStatusFairness
=============================================================================
