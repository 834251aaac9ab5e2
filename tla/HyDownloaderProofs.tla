-------------------------- MODULE HyDownloaderProofs --------------------------
(***************************************************************************)
(* The safety properties of the hydownloader supervision, for every number *)
(* of starts of hydrusd and every back-off.                                *)
(***************************************************************************)
EXTENDS HyDownloader, TLAPS

(* Nothing is supervised before the first start (manager.go:68).           *)
LEMMA InitSupervision == SupervisionInit => SupervisionInv
<1> SUFFICES ASSUME SupervisionInit PROVE SupervisionInv
  OBVIOUS
<1>1. cmd \in BOOLEAN /\ paused \in BOOLEAN /\ orphan \in BOOLEAN
  BY Zenon DEF SupervisionInit
<1> QED
  BY <1>1, DownloaderAssumption
  DEF SupervisionInit, SupervisionInv, SupervisionTypes,
      TrackedChild, ExitNoticed, LoopOver,
      Alive, Supervisor, Stops

(* What the processes do by themselves (manager.go:573).                   *)
LEMMA ProcessSteps ==
  SupervisionInv
  /\ (ChildServes \/ ChildExits \/ OrphanExits \/ HydrusdExits \/ New)
    => SupervisionInv'
<1> SUFFICES ASSUME SupervisionInv,
                    \/ ChildServes \/ ChildExits \/ OrphanExits
                    \/ HydrusdExits \/ New
             PROVE  SupervisionInv'
  OBVIOUS
<1> USE DownloaderAssumption
    DEF SupervisionInv, SupervisionTypes,
      TrackedChild, ExitNoticed, LoopOver, Alive,
        Supervisor, Stops
<1>1. CASE ChildServes
  BY <1>1 DEF ChildServes, stopVars
<1>2. CASE ChildExits
  BY <1>2 DEF ChildExits, stopVars
<1>3. CASE OrphanExits
  <2>1. cmd' \in BOOLEAN /\ paused' \in BOOLEAN /\ orphan' \in BOOLEAN
    BY <1>3, Zenon DEF OrphanExits, stopVars
  <2> QED
    BY <1>3, <2>1 DEF OrphanExits, stopVars
<1>4. CASE HydrusdExits
  <2>1. cmd' \in BOOLEAN /\ paused' \in BOOLEAN /\ orphan' \in BOOLEAN
    BY <1>4, Zenon DEF HydrusdExits
  <2> QED
    BY <1>4, <2>1 DEF HydrusdExits
<1>5. CASE New
  <2>1. cmd' \in BOOLEAN /\ paused' \in BOOLEAN /\ orphan' \in BOOLEAN
    BY <1>5, Zenon DEF New, stopVars
  <2> QED
    BY <1>5, <2>1 DEF New, stopVars
<1> QED
  BY <1>1, <1>2, <1>3, <1>4, <1>5

(* start launches a child only where no live one is left, and gives it up  *)
(* only when it is dead (manager.go:537).                                  *)
LEMMA StartSteps ==
  SupervisionInv /\ (Start \/ StartFails \/ PollAnswered \/ PollExit
                     \/ PollTimeout)
    => SupervisionInv'
<1> SUFFICES ASSUME SupervisionInv,
                    Start \/ StartFails \/ PollAnswered \/ PollExit
                      \/ PollTimeout
             PROVE  SupervisionInv'
  OBVIOUS
<1> USE DownloaderAssumption
    DEF SupervisionInv, SupervisionTypes,
      TrackedChild, ExitNoticed, LoopOver, Alive,
        Supervisor, Stops, StartReturnsError, StartReturnsNil, Running
<1>1. CASE Start
  BY <1>1 DEF Start, Spawn, stopVars
<1>2. CASE StartFails
  BY <1>2 DEF StartFails, RefreshProcessState, processVars, stopVars
<1>3. CASE PollAnswered
  BY <1>3 DEF PollAnswered, InPoll, processVars, stopVars
<1>4. CASE PollExit
  BY <1>4 DEF PollExit, InPoll, processVars, stopVars
<1>5. CASE PollTimeout
  BY <1>5 DEF PollTimeout, InPoll, Kill, stopVars
<1> QED
  BY <1>1, <1>2, <1>3, <1>4, <1>5

(* The liveness loop and requests launch nothing and clear m.cmd only with *)
(* an exit in hand (manager.go:625, 758).                                  *)
LEMMA LoopSteps ==
  SupervisionInv /\ (Tick \/ RestartBackoffEnds \/ LoopStops \/ Status
                     \/ ActivateAutoimport)
    => SupervisionInv'
<1> SUFFICES ASSUME SupervisionInv,
                    Tick \/ RestartBackoffEnds \/ LoopStops \/ Status
                      \/ ActivateAutoimport
             PROVE  SupervisionInv'
  OBVIOUS
<1> USE DownloaderAssumption
    DEF SupervisionInv, SupervisionTypes,
      TrackedChild, ExitNoticed, LoopOver, Alive,
        Supervisor, Stops, Running
<1>1. CASE Tick
  <2>1. cmd' \in BOOLEAN /\ paused' \in BOOLEAN /\ orphan' \in BOOLEAN
    BY <1>1, Zenon DEF Tick, RefreshProcessState, processVars, stopVars
  <2>2. cmd' => cmd /\ waitDone # "full"
    BY <1>1, Zenon DEF Tick, RefreshProcessState, processVars, stopVars
  <2>3. cmd /\ waitDone # "full" => cmd'
    BY <1>1, Zenon DEF Tick, RefreshProcessState, processVars, stopVars
  <2>4. waitDone' = IF cmd /\ waitDone = "full" THEN "taken" ELSE waitDone
    BY <1>1, Zenon DEF Tick, RefreshProcessState, processVars, stopVars
  <2> QED
    BY <1>1, <2>1, <2>2, <2>3, <2>4 DEF Tick, processVars, stopVars
<1>2. CASE RestartBackoffEnds
  BY <1>2 DEF RestartBackoffEnds, processVars, stopVars
<1>3. CASE LoopStops
  BY <1>3 DEF LoopStops, processVars, stopVars
<1>4. CASE Status
  <2>1. cmd' \in BOOLEAN /\ paused' \in BOOLEAN /\ orphan' \in BOOLEAN
    BY <1>4, Zenon DEF Status, RefreshProcessState, processVars, stopVars
  <2>2. cmd' => cmd /\ waitDone # "full"
    BY <1>4, Zenon DEF Status, RefreshProcessState, processVars, stopVars
  <2>3. cmd /\ waitDone # "full" => cmd'
    BY <1>4, Zenon DEF Status, RefreshProcessState, processVars, stopVars
  <2>4. waitDone' = IF cmd /\ waitDone = "full" THEN "taken" ELSE waitDone
    BY <1>4, Zenon DEF Status, RefreshProcessState, processVars, stopVars
  <2> QED
    BY <1>4, <2>1, <2>2, <2>3, <2>4 DEF Status, processVars, stopVars
<1>5. CASE ActivateAutoimport
  BY <1>5 DEF ActivateAutoimport, stopVars
<1> QED
  BY <1>1, <1>2, <1>3, <1>4, <1>5

(* Shutdown waits for the loop before it looks at the child                *)
(* (manager.go:107).                                                       *)
LEMMA ShutdownSteps ==
  SupervisionInv /\ (CallShutdown \/ Shutdown) => SupervisionInv'
<1> SUFFICES ASSUME SupervisionInv, CallShutdown \/ Shutdown
             PROVE  SupervisionInv'
  OBVIOUS
<1> USE DownloaderAssumption
    DEF SupervisionInv, SupervisionTypes,
      TrackedChild, ExitNoticed, LoopOver, Alive,
        Supervisor, Stops, Running, Return
<1>1. CASE CallShutdown
  BY <1>1 DEF CallShutdown, processVars
<1>2. CASE ShutdownRefresh
  BY <1>2 DEF ShutdownRefresh, RefreshProcessState, processVars
<1>3. CASE LoopTooSlow
  BY <1>3 DEF LoopTooSlow, processVars
<1>4. CASE ExitReceived
  BY <1>4 DEF ExitReceived, processVars
<1>5. CASE ExitDeadline
  BY <1>5 DEF ExitDeadline, Kill
<1>6. CASE KillUnconfirmed
  BY <1>6 DEF KillUnconfirmed, processVars
<1> QED
  BY <1>1, <1>2, <1>3, <1>4, <1>5, <1>6 DEF Shutdown

(* A step that leaves the manager and its child alone.                     *)
LEMMA UnchangedSupervision ==
  SupervisionInv /\ UNCHANGED supervisionVars => SupervisionInv'
  BY DEF supervisionVars, processVars, stopVars, SupervisionInv, SupervisionTypes,
      TrackedChild,
         ExitNoticed, LoopOver, Alive, Supervisor, Stops

(* The supervision keeps its invariant (manager.go:47).                    *)
THEOREM SupervisionInvariant == SupervisionSpec => []SupervisionInv
<1>1. SupervisionInv /\ [SupervisionNext]_supervisionVars => SupervisionInv'
  BY ProcessSteps, StartSteps, LoopSteps, ShutdownSteps, UnchangedSupervision
  DEF SupervisionNext, Supervise
<1> QED
  BY InitSupervision, <1>1, PTL DEF SupervisionSpec

(* A live hydownloader is always the one m.cmd names (manager.go:540).     *)
THEOREM ChildIsTracked == SupervisionSpec => []TrackedChild
<1>1. SupervisionInv => TrackedChild
  BY DEF SupervisionInv
<1> QED
  BY SupervisionInvariant, <1>1, PTL

(* The exit of the child is never lost among its receivers                 *)
(* (manager.go:758).                                                       *)
THEOREM ExitIsNoticed == SupervisionSpec => []ExitNoticed
<1>1. SupervisionInv => ExitNoticed
  BY DEF SupervisionInv
<1> QED
  BY SupervisionInvariant, <1>1, PTL

(* A Shutdown that reports success has left no hydownloader behind         *)
(* (manager.go:107).                                                       *)
THEOREM StopIsStop == SupervisionSpec => []StoppedMeansStopped
<1>1. SupervisionInv => StoppedMeansStopped
  BY DEF SupervisionInv, LoopOver, StoppedMeansStopped
<1> QED
  BY SupervisionInvariant, <1>1, PTL
=============================================================================
