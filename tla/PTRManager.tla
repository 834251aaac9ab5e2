------------------------------ MODULE PTRManager ------------------------------
(***************************************************************************)
(* The scheduling of PTR synchronisation in one daemon process:            *)
(* internal/ptrsync/manager.go (NewManager, Trigger, the goroutine of a    *)
(* run, the wakeup timer, Shutdown) and the teardown of internal/app.      *)
(* What a run does to the tables is PTRSync; here it only ends, in one of  *)
(* the ways PTRSync ends it.                                               *)
(*                                                                         *)
(* Trigger holds runMu from start to end, and so does the end of a run:    *)
(* each is one step.  Time is abstract: a due time lies in the future or   *)
(* in the past.                                                            *)
(***************************************************************************)
EXTENDS Naturals

CONSTANTS MaxTriggers,   \* bound: a user triggers while fewer are under way
          MaxStarts      \* bound: starts of the daemon

ASSUME ManagerAssumption == MaxTriggers \in Nat /\ MaxStarts \in Nat

VARIABLES
  life,        \* the process: see Lives
  starts,      \* starts so far
  marker,      \* durable: the opt-in marker file exists
  phase,       \* durable: ptr_sync_state.phase
  retryAt,     \* durable: when the back-off ends
  nextDue,     \* durable: next_update_due of the stored metadata
  mappings,    \* durable: the PTR service has current mappings
  enabled,     \* cfg.Enabled of the manager
  active,      \* activeRun is set
  run,         \* the goroutine of a run: see Runs
  timer,       \* the wakeup that is armed
  triggers,    \* goroutines that are about to call Trigger
  outcome,     \* history: how the last run ended
  dropped      \* history: why a wakeup may be missing, see Drops

durable == <<marker, phase, retryAt, nextDue, mappings>>
scheduleVars == <<life, starts, durable, enabled, active, run, timer,
                  triggers, outcome, dropped>>

(* Shutdown runs twice, from Run and from closeResources: it cancels the   *)
(* runner ("stop1"), waits for the active run ("wait1"), and again         *)
(* ("stop2", "wait2") before the bundles are closed.                       *)
Stopping == {"stop1", "wait1", "stop2", "wait2", "stopped"}
Lives == {"down", "up", "closed"} \cup Stopping

(* "ended": runStartedSync has returned; what follows is decided.          *)
Runs == {"none", "running"} \cup
        {"endedIdle", "endedContinue", "endedSchedule"}

Due == {"none", "future", "past"}

(* "database": a scheduled Trigger failed on the database; "dueUnread":    *)
(* the next due time could not be read after a run; "optIn": a user        *)
(* enabled sync while the row was waiting for a retry.                     *)
Drops == {"no", "database", "dueUnread", "optIn"}

TypeOK ==
  /\ life \in Lives /\ starts \in 0..MaxStarts
  /\ marker \in BOOLEAN /\ mappings \in BOOLEAN
  /\ phase \in {"idle", "syncing", "retrying"}
  /\ retryAt \in Due /\ nextDue \in Due
  /\ enabled \in BOOLEAN /\ active \in BOOLEAN
  /\ run \in Runs /\ (active <=> run # "none")
  /\ timer \in {"none", "retry", "nextUpdate"}
  /\ triggers \in Nat
  /\ outcome \in {"none", "success", "throttled", "failed", "cancelled",
                 "stuck"}
  /\ dropped \in Drops

ScheduleInit ==
  /\ life = "down" /\ starts = 0
  /\ marker = FALSE /\ mappings = FALSE
  /\ phase = "idle" /\ retryAt = "none" /\ nextDue = "none"
  /\ enabled = FALSE /\ active = FALSE /\ run = "none"
  /\ timer = "none" /\ triggers = 0
  /\ outcome = "none" /\ dropped = "no"

-----------------------------------------------------------------------------
(* Start of the daemon.                                                    *)

Recovered(ph) == IF ph = "syncing" THEN "idle" ELSE ph

(* Seeded fault: a retry left over from before the restart is ignored.     *)
WakeupAtStartWithoutRetry(ph) ==
  IF nextDue = "future" THEN "nextUpdate" ELSE "none"

(* What a recovered manager waits for: the end of a back-off, or the next  *)
(* update if it is not due yet.                                            *)
WakeupAtStart(ph) ==
  IF ph = "retrying" THEN "retry"
  ELSE IF nextDue = "future" THEN "nextUpdate" ELSE "none"

(* NewManager: the marker opts in where the configuration does not; the    *)
(* sync state is recovered; without anything to wait for a sync starts at  *)
(* once, if the marker opted in or there are mappings from before.         *)
NewManager ==
  /\ life = "down" /\ starts < MaxStarts
  /\ life' = "up" /\ starts' = starts + 1
  /\ \E configured \in BOOLEAN :
       \/ /\ configured \/ marker
          /\ enabled' = TRUE
          /\ phase' = Recovered(phase)
          /\ timer' = WakeupAtStart(phase')
          /\ triggers' = IF timer' = "none" /\ (~configured \/ mappings)
                         THEN 1 ELSE 0
       \/ /\ ~configured /\ ~marker
          /\ UNCHANGED <<enabled, phase, timer, triggers>>
  /\ UNCHANGED <<marker, retryAt, nextDue, mappings, active, run, outcome,
                 dropped>>

(* The process ends, after closing its bundles or by a crash.              *)
Exit ==
  /\ life # "down"
  /\ life' = "down"
  /\ enabled' = FALSE /\ active' = FALSE /\ run' = "none"
  /\ timer' = "none" /\ triggers' = 0
  /\ outcome' = "none" /\ dropped' = "no"
  /\ UNCHANGED <<starts, durable>>

-----------------------------------------------------------------------------
(* Trigger.                                                                *)

(* beginSync succeeds: the lease is taken and the wakeup cancelled.        *)
Begin(ph) ==
  /\ ~(ph = "retrying" /\ retryAt = "future")
  /\ ph # "syncing"
  /\ phase' = "syncing" /\ retryAt' = "none"
  /\ active' = TRUE /\ run' = "running" /\ timer' = "none"
  /\ dropped' = "no"

(* beginSync starts nothing: a retry is not due, a run whose cleanup       *)
(* failed still holds the lease, or the database reports an error.         *)
RetryNotDue(ph) == ph = "retrying" /\ retryAt = "future"

LeaseHeld(ph) == ph = "syncing"

NotBegun(ph) == phase' = ph /\ UNCHANGED <<retryAt, active, run, timer>>

(* Trigger answers for the active run, or starts one; a manual trigger     *)
(* enables sync first (enablePTRSyncFromManualTrigger: the state is        *)
(* recovered, then the marker is written, which may fail).                 *)
Trigger(scheduled) ==
  \/ /\ active
     /\ UNCHANGED <<marker, phase, retryAt, enabled, active, run, timer,
                    dropped>>
  \/ /\ ~active /\ life # "closed" /\ enabled
     /\ UNCHANGED <<marker, enabled>>
     /\ \/ Begin(phase)
        \/ /\ RetryNotDue(phase) \/ LeaseHeld(phase)
           /\ NotBegun(phase) /\ UNCHANGED dropped
        \/ /\ NotBegun(phase)        \* an error
           /\ dropped' = IF scheduled THEN "database" ELSE dropped
  \/ /\ ~active /\ life # "closed" /\ ~enabled
     /\ \/ /\ marker' = TRUE /\ enabled' = TRUE
           /\ \/ Begin(Recovered(phase))
              \/ NotBegun(Recovered(phase)) /\ dropped' = "optIn"
        \/ NotBegun(Recovered(phase)) /\ UNCHANGED <<marker, enabled, dropped>>
  \/ /\ ~active /\ life = "closed"    \* every access is an error
     /\ NotBegun(phase)
     /\ UNCHANGED <<marker, enabled, dropped>>

(* POST /service/ptr/sync.                                                 *)
UserTrigger ==
  /\ life = "up" /\ triggers < MaxTriggers
  /\ Trigger(FALSE)
  /\ UNCHANGED <<life, starts, nextDue, mappings, triggers, outcome>>

(* A goroutine started to call Trigger does so; nothing stops it.          *)
ScheduledTrigger ==
  /\ triggers > 0
  /\ Trigger(TRUE)
  /\ triggers' = triggers - 1
  /\ UNCHANGED <<life, starts, nextDue, mappings, outcome>>

(* The wakeup timer fires.                                                 *)
WakeupFires ==
  /\ \/ timer = "retry" /\ retryAt # "future"
     \/ timer = "nextUpdate" /\ nextDue # "future"
  /\ timer' = "none" /\ triggers' = triggers + 1
  /\ UNCHANGED <<life, starts, durable, enabled, active, run, outcome,
                 dropped>>

-----------------------------------------------------------------------------
(* The goroutine of a run.                                                 *)

RunUnchanged == UNCHANGED <<life, starts, marker, enabled, active, triggers>>

(* What follows a run without an error: go on at once if the next update   *)
(* is due and the run made progress, or wait for it.                       *)
Following(due, advanced) ==
  IF due = "past" /\ advanced THEN "endedContinue"
  ELSE IF due = "future" THEN "endedSchedule" ELSE "endedIdle"

(* The run's goroutine reads the next due time from the database and       *)
(* decides; when the read fails nothing follows.                           *)
DecideWhatFollows ==
  \/ /\ \E advanced \in BOOLEAN : run' = Following(nextDue', advanced)
     /\ UNCHANGED dropped
  \/ run' = "endedIdle" /\ dropped' = "dueUnread"

RunSucceeds ==
  /\ run = "running" /\ life = "up"
  /\ phase' = "idle" /\ outcome' = "success"
  /\ nextDue' \in {"future", "past"}
  /\ mappings' \in {mappings, TRUE}
  /\ DecideWhatFollows
  /\ UNCHANGED <<retryAt, timer>>
  /\ RunUnchanged

(* finishPTRSyncThrottled schedules the retry while the run is active.     *)
RunThrottled ==
  /\ run = "running" /\ life = "up"
  /\ phase' = "retrying" /\ retryAt' = "future" /\ outcome' = "throttled"
  /\ nextDue' \in {nextDue, "future", "past"}
  /\ mappings' \in {mappings, TRUE}
  /\ run' = "endedIdle"
  /\ timer' = "retry"
  /\ UNCHANGED dropped
  /\ RunUnchanged

(* FinishPTRSyncFailure: nothing is scheduled.                             *)
RunFails ==
  /\ run = "running" /\ life # "closed"
  /\ phase' = "idle" /\ outcome' = "failed"
  /\ nextDue' \in {nextDue, "future", "past"}
  /\ mappings' \in {mappings, TRUE}
  /\ run' = "endedIdle"
  /\ UNCHANGED <<retryAt, timer, dropped>>
  /\ RunUnchanged

(* CancelPTRSync after runnerCancel: the cancelled run counts as a run     *)
(* without an error, and what follows it is decided as after success.      *)
RunCancelled ==
  /\ run = "running" /\ life \in Stopping
  /\ phase' = "idle" /\ outcome' = "cancelled"
  /\ nextDue' \in {nextDue, "future", "past"}
  /\ mappings' \in {mappings, TRUE}
  /\ DecideWhatFollows
  /\ UNCHANGED <<retryAt, timer>>
  /\ RunUnchanged

(* The cleanup cannot release the lease: the database reports an error, or *)
(* the bundle is closed.                                                   *)
CleanupFails ==
  /\ run = "running"
  /\ outcome' = IF life = "closed" /\ outcome # "stuck" THEN "failed"
                                                       ELSE "stuck"
  /\ run' = "endedIdle"
  /\ UNCHANGED <<phase, nextDue, mappings, retryAt, timer, dropped>>
  /\ RunUnchanged

RunEnds == RunSucceeds \/ RunThrottled \/ RunFails \/ RunCancelled
             \/ CleanupFails

(* Seeded fault: the next update is not waited for.                        *)
WakeupAfterNothing(r) == timer

(* schedulePTRNextUpdateWakeup; a cancelled runner makes the wakeup void.  *)
WakeupAfter(r) ==
  IF r = "endedSchedule" /\ life = "up" THEN "nextUpdate" ELSE timer

(* Seeded fault: done is not closed.                                       *)
DoneIgnored(l) == l

(* done is closed, which ends a Shutdown that waits for it.                *)
DoneClosed(l) ==
  CASE l = "wait1" -> "stop2" [] l = "wait2" -> "stopped" [] OTHER -> l

(* The goroutine takes runMu, clears activeRun, and starts the next        *)
(* Trigger or schedules a wakeup.                                          *)
FinishRun ==
  /\ run \in {"endedIdle", "endedContinue", "endedSchedule"}
  /\ run' = "none" /\ active' = FALSE
  /\ triggers' = IF run = "endedContinue" THEN triggers + 1 ELSE triggers
  /\ timer' = WakeupAfter(run)
  /\ life' = DoneClosed(life)
  /\ UNCHANGED <<starts, durable, enabled, outcome, dropped>>

-----------------------------------------------------------------------------
(* Teardown and time.                                                      *)

(* Run leaves its select: runnerCancel and cancelPTRWakeup.  When the HTTP *)
(* server has failed or does not stop in time, only closeResources calls   *)
(* Shutdown.                                                               *)
StopRequested ==
  /\ life = "up"
  /\ life' \in {"stop1", "stop2"} /\ timer' = "none"
  /\ UNCHANGED <<starts, durable, enabled, active, run, triggers, outcome,
                 dropped>>

(* Shutdown reads activeRun under runMu and waits for it if there is one.  *)
ShutdownReads ==
  /\ life \in {"stop1", "stop2"}
  /\ life' = CASE active /\ life = "stop1" -> "wait1"
               [] active /\ life = "stop2" -> "wait2"
               [] ~active /\ life = "stop1" -> "stop2"
               [] OTHER -> "stopped"
  /\ UNCHANGED <<starts, durable, enabled, active, run, timer, triggers,
                 outcome, dropped>>

(* The shutdown timeout ends the wait: the run keeps its lease.            *)
ShutdownTimesOut ==
  /\ life \in {"wait1", "wait2"}
  /\ life' = DoneClosed(life)
  /\ outcome' = "stuck"
  /\ UNCHANGED <<starts, durable, enabled, active, run, timer, triggers,
                 dropped>>

CloseBundles ==
  /\ life = "stopped"
  /\ life' = "closed"
  /\ UNCHANGED <<starts, durable, enabled, active, run, timer, triggers,
                 outcome, dropped>>

(* A back-off lasts ten minutes or more, far longer than the run that      *)
(* scheduled it takes to end.                                              *)
BackoffEnds ==
  /\ retryAt = "future" /\ run = "none"
  /\ retryAt' = "past"
  /\ UNCHANGED <<life, starts, marker, phase, nextDue, mappings, enabled,
                 active, run, timer, triggers, outcome, dropped>>

NextUpdateFallsDue ==
  /\ nextDue = "future"
  /\ nextDue' = "past"
  /\ UNCHANGED <<life, starts, marker, phase, retryAt, mappings, enabled,
                 active, run, timer, triggers, outcome, dropped>>

-----------------------------------------------------------------------------
ScheduleNext ==
  \/ NewManager \/ Exit
  \/ UserTrigger \/ ScheduledTrigger \/ WakeupFires
  \/ RunEnds \/ FinishRun
  \/ StopRequested \/ ShutdownReads \/ ShutdownTimesOut \/ CloseBundles
  \/ BackoffEnds \/ NextUpdateFallsDue

ScheduleSpec == ScheduleInit /\ [][ScheduleNext]_scheduleVars

(***************************************************************************)
(* Goroutines that are ready run, a run ends (PTRSync: RunTerminates),     *)
(* time passes, and a shutdown that has begun is carried on.  The shutdown  *)
(* timeout is not relied on.                                               *)
(***************************************************************************)
ScheduleFairness ==
  /\ WF_scheduleVars(ScheduledTrigger) /\ WF_scheduleVars(WakeupFires)
  /\ WF_scheduleVars(RunEnds) /\ WF_scheduleVars(FinishRun)
  /\ WF_scheduleVars(ShutdownReads) /\ WF_scheduleVars(CloseBundles)
  /\ WF_scheduleVars(BackoffEnds) /\ WF_scheduleVars(NextUpdateFallsDue)

-----------------------------------------------------------------------------
(* Properties.                                                             *)

(* What has to run later is never forgotten: while the row says retrying,  *)
(* and after a run that succeeded with an update due in the future, a      *)
(* wakeup is armed or a Trigger is on its way, however runs and triggers   *)
(* of users followed each other.  Three exceptions, each left in dropped:  *)
(* a scheduled Trigger that failed on the database is logged and not       *)
(* repeated; so is a run after which the next due time could not be read;  *)
(* and enabling sync by hand during a back-off arms nothing.               *)
WakeupScheduled ==
  life = "up" =>
    /\ (enabled /\ phase = "retrying" /\ dropped = "no")
         => (timer = "retry" \/ triggers > 0)
    /\ (~active /\ outcome = "success" /\ nextDue = "future")
         => (timer = "nextUpdate" \/ triggers > 0 \/ dropped # "no")

(* A throttled sync resumes: with the exceptions of WakeupScheduled, a new *)
(* run starts without a user and across a restart of the daemon.           *)
AutoResume ==
  (life = "up" /\ enabled /\ phase = "retrying")
    ~> (phase = "syncing" \/ life # "up" \/ dropped # "no")

(* A shutdown that has begun ends: no cycle of runs, triggers and waits    *)
(* keeps the daemon from closing its bundles.                              *)
ShutdownEnds == life \in Stopping ~> life \in {"closed", "down"}

-----------------------------------------------------------------------------
(* The inductive invariant.                                                *)

(* A process that is down has nothing under way.                           *)
DownInv ==
  life = "down" =>
    /\ ~enabled /\ ~active /\ timer = "none" /\ triggers = 0
    /\ outcome = "none" /\ dropped = "no"

(* What the row and the history say for each state of the run's goroutine. *)
RunInv ==
  /\ active => enabled
  /\ run = "running" => phase = "syncing"
  /\ run \in {"endedContinue", "endedSchedule"} => phase = "idle"
  /\ run = "endedIdle" /\ phase = "retrying" => retryAt = "future"
  /\ run = "endedIdle" /\ outcome = "success" /\ dropped # "dueUnread"
       => nextDue # "future"
  /\ outcome = "success" /\ run # "running" => enabled /\ phase = "idle"

(* While a back-off lasts its wakeup is armed: a Trigger that comes too    *)
(* early finds it so.                                                      *)
RetryArmed ==
  life = "up" /\ enabled /\ dropped = "no" /\ phase = "retrying"
    /\ retryAt = "future"
  => timer = "retry"

ManagerInv == TypeOK /\ DownInv /\ RunInv /\ RetryArmed /\ WakeupScheduled

=============================================================================
