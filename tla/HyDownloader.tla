----------------------------- MODULE HyDownloader -----------------------------
(***************************************************************************)
(* The supervision of an external hydownloader daemon:                     *)
(* internal/downloader/hydownloader/manager.go (New, start, livenessLoop,  *)
(* Status, ActivateAutoimport, Shutdown) and its callers in internal/app.  *)
(*                                                                         *)
(* The exit of the child travels through waitDone, a channel that delivers *)
(* one value to one receiver.  Three parties receive from it: the start    *)
(* that launched the child, refreshProcessState (called by the liveness    *)
(* loop, by every Status request and by Shutdown) and Shutdown itself.     *)
(* A receive and the update of m.cmd under mu that follows it are one step.*)
(***************************************************************************)
EXTENDS Naturals

CONSTANTS Autoimport,   \* cfg.Autoimport
          BackoffBase,  \* restartBackoffBase
          BackoffMax,   \* restartBackoffMax
          MaxBoots      \* bound: starts of hydrusd

ASSUME DownloaderAssumption ==
  /\ Autoimport \in BOOLEAN
  /\ BackoffBase \in Nat \ {0} /\ BackoffMax \in Nat
  /\ BackoffBase <= BackoffMax
  /\ MaxBoots \in Nat

VARIABLES
  hydrusd,     \* the process: "down", "starting" (in New), "up"
  boots,       \* its starts so far
  sup,         \* New and then the liveness loop: see Supervisor
  backoff,     \* delay before the next restart
  cmd,         \* m.cmd and m.waitDone are set
  waitDone,    \* the channel of the newest child
  child,       \* the newest child process
  paused,      \* its autoimport worker is paused
  orphan,      \* a child of an earlier hydrusd still holds the port
  activation,  \* activateDownloaderAutoimportAfterReady
  stop,        \* the Shutdown call under way: see Stops
  calls,       \* Shutdown calls so far; the first one closes stopLiveness
  result       \* what the last Shutdown call returned

processVars == <<child, paused, orphan>>
stopVars == <<stop, calls, result>>
supervisionVars == <<hydrusd, boots, sup, backoff, cmd, waitDone,
                     processVars, activation, stopVars>>

Alive == {"booting", "serving"}

(* "new": New before its start; "newPoll", "poll": in start, waiting for   *)
(* the API; "tick", "backoff": the loop waits for a timer; "start": it     *)
(* calls start; "done": livenessDone is closed.                            *)
Supervisor == {"off", "new", "newPoll", "tick", "backoff", "start", "poll",
               "done"}

(* "loop": waits for the loop to end; "exit": /shutdown was posted;        *)
(* "killed": the deadline passed and the child was killed.                 *)
Stops == {"none", "loop", "exit", "killed", "returned"}

SupervisionTypes ==
  /\ hydrusd \in {"down", "starting", "up"} /\ boots \in 0..MaxBoots
  /\ sup \in Supervisor /\ backoff \in BackoffBase..BackoffMax
  /\ cmd \in BOOLEAN /\ waitDone \in {"empty", "full", "taken"}
  /\ child \in Alive \cup {"none", "dead"} /\ (child \in Alive => waitDone = "empty")
  /\ paused \in BOOLEAN /\ orphan \in BOOLEAN
  /\ activation \in {"due", "done"}
  /\ stop \in Stops /\ calls \in 0..2 /\ result \in {"none", "ok", "error"}
  /\ hydrusd = "up" <=> sup \in {"tick", "backoff", "start", "poll", "done"}

SupervisionInit ==
  /\ hydrusd = "down" /\ boots = 0 /\ sup = "off" /\ backoff = BackoffBase
  /\ cmd = FALSE /\ waitDone = "empty"
  /\ child = "none" /\ paused = FALSE /\ orphan = FALSE
  /\ activation = "due" /\ stop = "none" /\ calls = 0 /\ result = "none"

stopLiveness == calls > 0

(* Something answers on the port, whoever it is.                           *)
Answers == child = "serving" \/ orphan

-----------------------------------------------------------------------------
(* The processes.                                                          *)

(* A child binds its port if that is free.                                 *)
ChildServes ==
  /\ child = "booting" /\ ~orphan
  /\ child' = "serving"
  /\ UNCHANGED <<hydrusd, boots, sup, backoff, cmd, waitDone, paused, orphan,
                 activation, stopVars>>

(* A child ends, by itself or after /shutdown: cmd.Wait reports it.        *)
ChildExits ==
  /\ child \in Alive
  /\ child' = "dead" /\ waitDone' = "full"
  /\ UNCHANGED <<hydrusd, boots, sup, backoff, cmd, paused, orphan, activation,
                 stopVars>>

OrphanExits ==
  /\ orphan
  /\ orphan' = FALSE
  /\ UNCHANGED <<hydrusd, boots, sup, backoff, cmd, waitDone, child, paused,
                 activation, stopVars>>

(* hydrusd ends, by a crash or after closeResources.  A live child is sent *)
(* SIGTERM (Pdeathsig) and may outlast it as an orphan.                    *)
HydrusdExits ==
  /\ hydrusd # "down"
  /\ hydrusd' = "down" /\ sup' = "off" /\ cmd' = FALSE
  /\ child' = "none" /\ waitDone' = "empty"
  /\ orphan' \in {orphan, orphan \/ child \in Alive}
  /\ backoff' = BackoffBase /\ paused' = FALSE /\ activation' = "due"
  /\ stop' = "none" /\ calls' = 0 /\ result' = "none"
  /\ UNCHANGED boots

-----------------------------------------------------------------------------
(* New and start.                                                          *)

(* ensureInitialized and killOrphanDaemon: an orphan is asked to stop,     *)
(* then killed by its port, and New goes on even if both fail.             *)
New ==
  /\ hydrusd = "down" /\ boots < MaxBoots
  /\ hydrusd' = "starting" /\ boots' = boots + 1 /\ sup' = "new"
  /\ orphan' \in {orphan, FALSE}
  /\ UNCHANGED <<backoff, cmd, waitDone, child, paused, activation, stopVars>>

(* What m.cmd says once refreshProcessState has looked at the channel.     *)
Running == cmd /\ waitDone # "full"

(* Seeded fault: the exit is received and the process handle kept.         *)
RefreshKeepsCmd ==
  /\ waitDone' = IF cmd /\ waitDone = "full" THEN "taken" ELSE waitDone
  /\ UNCHANGED cmd

(* refreshProcessState receives an exit that is there and clears m.cmd.    *)
RefreshProcessState ==
  /\ waitDone' = IF cmd /\ waitDone = "full" THEN "taken" ELSE waitDone
  /\ cmd' = Running

(* start launches a child, its autoimport worker paused.  It returns at    *)
(* once where m.cmd names a child already; its callers rule that out.      *)
Spawn(caller, polling) ==
  /\ sup = caller /\ ~Running
  /\ child' = "booting" /\ waitDone' = "empty" /\ cmd' = TRUE
  /\ paused' = Autoimport
  /\ sup' = polling

(* Where the caller of start goes on: New fails and hydrusd gives up, or   *)
(* the loop takes the larger delay it has already chosen.                  *)
StartReturnsError ==
  \/ /\ hydrusd = "starting"
     /\ hydrusd' = "down" /\ sup' = "off" /\ backoff' = backoff
  \/ /\ hydrusd = "up"
     /\ sup' = "tick" /\ UNCHANGED <<hydrusd, backoff>>

StartReturnsNil ==
  /\ sup' = "tick" /\ hydrusd' = "up" /\ backoff' = BackoffBase

Start ==
  /\ \/ Spawn("new", "newPoll")
     \/ Spawn("start", "poll")
  /\ UNCHANGED <<hydrusd, boots, backoff, orphan, activation, stopVars>>

(* The executable cannot be started.                                       *)
StartFails ==
  /\ sup \in {"new", "start"}
  /\ StartReturnsError
  /\ RefreshProcessState
  /\ UNCHANGED <<boots, processVars, activation, stopVars>>

InPoll == sup \in {"newPoll", "poll"}

(* /api_version answers; a cancelled livenessCtx fails every request.      *)
PollAnswered ==
  /\ InPoll /\ Answers /\ ~stopLiveness
  /\ StartReturnsNil
  /\ UNCHANGED <<boots, cmd, waitDone, processVars, activation, stopVars>>

PollExit ==
  /\ InPoll /\ waitDone = "full"
  /\ waitDone' = "taken" /\ cmd' = FALSE
  /\ StartReturnsError
  /\ UNCHANGED <<boots, processVars, activation, stopVars>>

(* What killing the child does to it and to its channel.                   *)
Kill ==
  IF child \in Alive THEN <<"dead", "full">> ELSE <<child, waitDone>>

(* Seeded fault: a start that gives up leaves its child running.           *)
PollTimeoutWithoutKill ==
  /\ InPoll
  /\ cmd' = FALSE
  /\ StartReturnsError
  /\ UNCHANGED <<boots, waitDone, processVars, activation, stopVars>>

(* startupCtx ends, after 120 seconds or with livenessCtx: the child is    *)
(* killed and its exit awaited.  If a Status request has received the exit *)
(* before, that wait lasts its five seconds.                               *)
PollTimeout ==
  /\ InPoll
  /\ child' = Kill[1]
  /\ waitDone' = IF Kill[2] = "full" THEN "taken" ELSE Kill[2]
  /\ cmd' = FALSE
  /\ StartReturnsError
  /\ UNCHANGED <<boots, paused, orphan, activation, stopVars>>

-----------------------------------------------------------------------------
(* livenessLoop.                                                           *)

(* Seeded fault: the loop probes the API instead of the process.           *)
TickProbesOnly ==
  /\ sup = "tick" /\ ~stopLiveness
  /\ RefreshProcessState
  /\ \/ /\ Answers /\ UNCHANGED sup /\ backoff' = BackoffBase
     \/ /\ ~Answers /\ sup' = "backoff" /\ UNCHANGED backoff
  /\ UNCHANGED <<hydrusd, boots, processVars, activation, stopVars>>

(* The ticker fires: a vanished child is restarted after the back-off; one *)
(* that runs is probed, and only an answer resets the back-off.            *)
Tick ==
  /\ sup = "tick" /\ ~stopLiveness
  /\ RefreshProcessState
  /\ \/ /\ ~Running /\ sup' = "backoff" /\ UNCHANGED backoff
     \/ /\ Running /\ UNCHANGED sup
        /\ \/ Answers /\ backoff' = BackoffBase
           \/ UNCHANGED backoff
  /\ UNCHANGED <<hydrusd, boots, processVars, activation, stopVars>>

RestartBackoffEnds ==
  /\ sup = "backoff" /\ ~stopLiveness
  /\ backoff' = IF 2 * backoff > BackoffMax THEN BackoffMax ELSE 2 * backoff
  /\ sup' = "start"
  /\ UNCHANGED <<hydrusd, boots, cmd, waitDone, processVars, activation,
                 stopVars>>

LoopStops ==
  /\ sup \in {"tick", "backoff"} /\ stopLiveness
  /\ sup' = "done"
  /\ UNCHANGED <<hydrusd, boots, backoff, cmd, waitDone, processVars,
                 activation, stopVars>>

-----------------------------------------------------------------------------
(* Requests.                                                               *)

(* Status receives a pending exit on its own.                              *)
Status ==
  /\ hydrusd = "up"
  /\ cmd # Running
  /\ RefreshProcessState
  /\ UNCHANGED <<hydrusd, boots, sup, backoff, processVars, activation,
                 stopVars>>

(* Run resumes the autoimport worker once the HTTP server is ready; it may *)
(* be an orphan that answers.                                              *)
ActivateAutoimport ==
  /\ hydrusd = "up" /\ activation = "due" /\ ~stopLiveness
  /\ activation' = "done"
  /\ Autoimport => Answers
  /\ paused' = (paused /\ child # "serving")
  /\ UNCHANGED <<hydrusd, boots, sup, backoff, cmd, waitDone, child, orphan,
                 stopVars>>

-----------------------------------------------------------------------------
(* Shutdown: called by Run and again by closeResources, or only by the     *)
(* latter (the activation or the HTTP server failed).                      *)

CallShutdown ==
  /\ hydrusd = "up" /\ stop \in {"none", "returned"} /\ calls < 2
  /\ stop' = "loop" /\ calls' = calls + 1
  /\ UNCHANGED <<hydrusd, boots, sup, backoff, cmd, waitDone, processVars,
                 activation, result>>

Return(r) == stop' = "returned" /\ result' = r

(* Seeded fault: Shutdown does not wait for the loop.                      *)
ShutdownIgnoresLoop ==
  /\ stop = "loop"
  /\ RefreshProcessState
  /\ \/ ~Running /\ Return("ok")
     \/ Running /\ stop' = "exit" /\ UNCHANGED result
  /\ UNCHANGED <<hydrusd, boots, sup, backoff, processVars, activation, calls>>

(* The loop has ended: nobody starts a child any more.                     *)
ShutdownRefresh ==
  /\ stop = "loop" /\ sup = "done"
  /\ RefreshProcessState
  /\ \/ ~Running /\ Return("ok")
     \/ Running /\ stop' = "exit" /\ UNCHANGED result
  /\ UNCHANGED <<hydrusd, boots, sup, backoff, processVars, activation, calls>>

(* The deadline passes before the end of the loop is noticed.              *)
LoopTooSlow ==
  /\ stop = "loop"
  /\ Return("error")
  /\ UNCHANGED <<hydrusd, boots, sup, backoff, cmd, waitDone, processVars,
                 activation, calls>>

(* The child's exit arrives, by itself (an error if its status is not      *)
(* zero) or after the kill.                                                *)
ExitReceived ==
  /\ stop \in {"exit", "killed"} /\ waitDone = "full"
  /\ waitDone' = "taken" /\ cmd' = FALSE
  /\ \/ Return("ok")
     \/ stop = "exit" /\ Return("error")
  /\ UNCHANGED <<hydrusd, boots, sup, backoff, processVars, activation, calls>>

(* Seeded fault: no deadline while the child has been asked to stop.       *)
NoDeadline ==
  /\ stop = "exit" /\ child \notin Alive /\ waitDone = "full"
  /\ stop' = "killed" /\ child' = Kill[1] /\ waitDone' = Kill[2]
  /\ UNCHANGED <<hydrusd, boots, sup, backoff, cmd, paused, orphan, activation,
                 calls, result>>

ExitDeadline ==
  /\ stop = "exit"
  /\ stop' = "killed" /\ child' = Kill[1] /\ waitDone' = Kill[2]
  /\ UNCHANGED <<hydrusd, boots, sup, backoff, cmd, paused, orphan, activation,
                 calls, result>>

(* Five seconds after the kill: somebody else received the exit.           *)
KillUnconfirmed ==
  /\ stop = "killed" /\ waitDone # "full"
  /\ Return("error")
  /\ UNCHANGED <<hydrusd, boots, sup, backoff, cmd, waitDone, processVars,
                 activation, calls>>

-----------------------------------------------------------------------------
Supervise ==
  \/ Start \/ StartFails \/ PollAnswered \/ PollExit \/ PollTimeout
  \/ Tick \/ RestartBackoffEnds \/ LoopStops

Shutdown ==
  ShutdownRefresh \/ LoopTooSlow \/ ExitReceived \/ ExitDeadline
  \/ KillUnconfirmed

SupervisionNext ==
  \/ ChildServes \/ ChildExits \/ OrphanExits
  \/ HydrusdExits \/ New \/ Supervise
  \/ Status \/ ActivateAutoimport
  \/ CallShutdown \/ Shutdown

SupervisionSpec == SupervisionInit /\ [][SupervisionNext]_supervisionVars

(* Goroutines are scheduled, timers fire and every wait has a deadline.    *)
(* Nothing is assumed of hydownloader, of requests or of the operator.     *)
SupervisionFairness ==
  /\ WF_supervisionVars(Supervise) /\ WF_supervisionVars(Shutdown)
  /\ WF_supervisionVars(ActivateAutoimport)

-----------------------------------------------------------------------------
(* A live child is always the one m.cmd names: a restart never starts a    *)
(* second hydownloader next to it and Shutdown never overlooks it          *)
(* (manager.go:540, 129).                                                  *)
TrackedChild == child \in Alive => cmd

(* An exit is never lost: while m.cmd still names a dead child its exit    *)
(* waits in the channel, although a Status request, the loop, start and    *)
(* Shutdown compete for it (manager.go:758).                               *)
ExitNoticed == cmd /\ child = "dead" => waitDone = "full"

(* Shutdown reports success only when the daemon it supervised is gone     *)
(* (manager.go:107).                                                       *)
StoppedMeansStopped ==
  stop = "returned" /\ result = "ok" => child \notin Alive

(* A child that died is replaced: the loop gets to start again, unless     *)
(* hydrusd is stopping (manager.go:625).                                   *)
Restarts ==
  (hydrusd = "up" /\ child = "dead")
    ~> (sup = "start" \/ calls > 0 \/ hydrusd # "up")

(* Every call of Shutdown returns (manager.go:107).                        *)
ShutdownReturns == (stop = "loop") ~> (stop \in {"returned", "none"})

-----------------------------------------------------------------------------
(* The inductive invariant of the supervision: the tracking of the child   *)
(* and of its exit, and that nothing is launched once Shutdown has seen    *)
(* the loop end, which makes its answer last.                              *)
LoopOver ==
  /\ stop \in {"exit", "killed"} => sup = "done"
  /\ result = "ok" => sup = "done" /\ child \notin Alive

SupervisionInv ==
  /\ SupervisionTypes
  /\ TrackedChild
  /\ ExitNoticed
  /\ LoopOver
=============================================================================
