----------------------------- MODULE MCManagers -----------------------------
(***************************************************************************)
(* A small instance of what the managers of the daemon do beside the       *)
(* requests it serves: the PTR manager schedules runs and commits pending  *)
(* mappings, the hydownloader manager supervises its child.  The parts     *)
(* share nothing the properties tell apart: part says which of them is     *)
(* looked at in a behaviour, the others stay in their initial states,      *)
(* where none of their fair actions is enabled.                            *)
(***************************************************************************)
EXTENDS PTRManager, PTRPending, HyDownloader

VARIABLE part

managerVars == <<scheduleVars, pendingVars, supervisionVars, part>>

ManagersInit ==
  /\ ScheduleInit /\ PendingInit /\ SupervisionInit
  /\ part \in {"schedule", "pending", "supervision"}

ManagersNext ==
  /\ \/ /\ part = "schedule" /\ ScheduleNext
        /\ UNCHANGED <<pendingVars, supervisionVars>>
     \/ /\ part = "pending" /\ PendingNext
        /\ UNCHANGED <<scheduleVars, supervisionVars>>
     \/ /\ part = "supervision" /\ SupervisionNext
        /\ UNCHANGED <<scheduleVars, pendingVars>>
  /\ UNCHANGED part

ManagersSpec ==
  /\ ManagersInit /\ [][ManagersNext]_managerVars
  /\ ScheduleFairness /\ SupervisionFairness
=============================================================================
