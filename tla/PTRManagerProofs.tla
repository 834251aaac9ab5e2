-------------------------- MODULE PTRManagerProofs --------------------------
(***************************************************************************)
(* Proofs about PTRManager for any number of triggers and starts:          *)
(* ManagerInv is inductive, so no wakeup is forgotten.                     *)
(***************************************************************************)
EXTENDS PTRManager, TLAPS

(* A start of the daemon recovers the row and arms what it waits for.      *)
LEMMA NewManagerStep ==
  ASSUME ManagerInv, NewManager
  PROVE  ManagerInv'
  <1>1. /\ TypeOK /\ DownInv /\ RunInv /\ RetryArmed /\ WakeupScheduled
    BY DEF ManagerInv
  <1>2. TypeOK'
    <2>1. starts' \in 0..MaxStarts /\ triggers' \in Nat
      BY <1>1, ManagerAssumption
         DEF TypeOK, Lives, Stopping, Runs, Due, Drops, durable, NewManager,
             Recovered, WakeupAtStart
    <2>2. /\ life' \in Lives /\ phase' \in {"idle", "syncing", "retrying"}
          /\ retryAt' \in Due /\ nextDue' \in Due /\ run' \in Runs
          /\ timer' \in {"none", "retry", "nextUpdate"}
          /\ outcome' \in {"none", "success", "throttled", "failed",
                           "cancelled", "stuck"}
          /\ dropped' \in Drops
      BY <1>1
         DEF TypeOK, Lives, Stopping, Runs, Due, Drops, durable, NewManager,
             Recovered, WakeupAtStart
    <2>3. /\ marker' \in BOOLEAN /\ mappings' \in BOOLEAN
          /\ enabled' \in BOOLEAN /\ active' \in BOOLEAN
      BY <1>1
         DEF TypeOK, Lives, Stopping, Runs, Due, Drops, durable, NewManager,
             Recovered, WakeupAtStart
    <2>4. active' <=> run' # "none"
      BY <1>1
         DEF TypeOK, Lives, Stopping, Runs, Due, Drops, durable, NewManager,
             Recovered, WakeupAtStart
    <2>5. QED
      BY <2>1, <2>2, <2>3, <2>4 DEF TypeOK
  <1>3. DownInv'
    BY <1>1
       DEF DownInv, TypeOK, Lives, Stopping, Runs, Due, Drops, durable,
           NewManager, Recovered, WakeupAtStart
  <1>4. RunInv'
    BY <1>1
       DEF RunInv, DownInv, TypeOK, Lives, Stopping, Runs, Due, Drops, durable,
           NewManager, Recovered, WakeupAtStart
  <1>5. RetryArmed'
    BY <1>1
       DEF RetryArmed, DownInv, RunInv, TypeOK, Lives, Stopping, Runs, Due,
           Drops, durable, NewManager, Recovered, WakeupAtStart
  <1>6. WakeupScheduled'
    BY <1>1
       DEF WakeupScheduled, RetryArmed, DownInv, RunInv, TypeOK, Lives,
           Stopping, Runs, Due, Drops, durable, NewManager, Recovered,
           WakeupAtStart
  <1>7. QED
    BY <1>2, <1>3, <1>4, <1>5, <1>6 DEF ManagerInv

(* A process that ends leaves nothing under way.                           *)
LEMMA ExitStep ==
  ASSUME ManagerInv, Exit
  PROVE  ManagerInv'
  <1>1. /\ TypeOK /\ DownInv /\ RunInv /\ RetryArmed /\ WakeupScheduled
    BY DEF ManagerInv
  <1>2. TypeOK'
    BY <1>1, ManagerAssumption
       DEF TypeOK, Lives, Stopping, Runs, Due, Drops, durable, Exit
  <1>3. DownInv'
    BY <1>1
       DEF DownInv, TypeOK, Lives, Stopping, Runs, Due, Drops, durable, Exit
  <1>4. RunInv'
    BY <1>1 DEF RunInv, TypeOK, Lives, Stopping, Runs, Due, Drops, durable, Exit
  <1>5. RetryArmed'
    BY <1>1
       DEF RetryArmed, DownInv, RunInv, TypeOK, Lives, Stopping, Runs, Due,
           Drops, durable, Exit
  <1>6. WakeupScheduled'
    BY <1>1
       DEF WakeupScheduled, RetryArmed, DownInv, RunInv, TypeOK, Lives,
           Stopping, Runs, Due, Drops, durable, Exit
  <1>7. QED
    BY <1>2, <1>3, <1>4, <1>5, <1>6 DEF ManagerInv

(* POST /service/ptr/sync.                                                 *)
LEMMA UserTriggerStep ==
  ASSUME ManagerInv, UserTrigger
  PROVE  ManagerInv'
  <1>1. /\ TypeOK /\ DownInv /\ RunInv /\ RetryArmed /\ WakeupScheduled
    BY DEF ManagerInv
  <1>2. TypeOK'
    <2>1. starts' \in 0..MaxStarts /\ triggers' \in Nat
      BY <1>1, ManagerAssumption
         DEF TypeOK, Lives, Stopping, Runs, Due, Drops, durable, Trigger, Begin,
             RetryNotDue, LeaseHeld, NotBegun, Recovered, UserTrigger
    <2>2. /\ life' \in Lives /\ phase' \in {"idle", "syncing", "retrying"}
          /\ retryAt' \in Due /\ nextDue' \in Due /\ run' \in Runs
          /\ timer' \in {"none", "retry", "nextUpdate"}
          /\ outcome' \in {"none", "success", "throttled", "failed",
                           "cancelled", "stuck"}
          /\ dropped' \in Drops
      BY <1>1
         DEF TypeOK, Lives, Stopping, Runs, Due, Drops, durable, Trigger, Begin,
             RetryNotDue, LeaseHeld, NotBegun, Recovered, UserTrigger
    <2>3. /\ marker' \in BOOLEAN /\ mappings' \in BOOLEAN
          /\ enabled' \in BOOLEAN /\ active' \in BOOLEAN
      BY <1>1
         DEF TypeOK, Lives, Stopping, Runs, Due, Drops, durable, Trigger, Begin,
             RetryNotDue, LeaseHeld, NotBegun, Recovered, UserTrigger
    <2>4. active' <=> run' # "none"
      BY <1>1
         DEF TypeOK, Lives, Stopping, Runs, Due, Drops, durable, Trigger, Begin,
             RetryNotDue, LeaseHeld, NotBegun, Recovered, UserTrigger
    <2>5. QED
      BY <2>1, <2>2, <2>3, <2>4 DEF TypeOK
  <1>3. DownInv'
    BY <1>1
       DEF DownInv, TypeOK, Lives, Stopping, Runs, Due, Drops, durable, Trigger,
           Begin, RetryNotDue, LeaseHeld, NotBegun, Recovered, UserTrigger
  <1>4. RunInv'
    BY <1>1
       DEF RunInv, TypeOK, Lives, Stopping, Runs, Due, Drops, durable, Trigger,
           Begin, RetryNotDue, LeaseHeld, NotBegun, Recovered, UserTrigger
  <1>5. RetryArmed'
    BY <1>1
       DEF RetryArmed, DownInv, RunInv, TypeOK, Lives, Stopping, Runs, Due,
           Drops, durable, Trigger, Begin, RetryNotDue, LeaseHeld, NotBegun,
           Recovered, UserTrigger
  <1>6. WakeupScheduled'
    BY <1>1
       DEF WakeupScheduled, RetryArmed, DownInv, RunInv, TypeOK, Lives,
           Stopping, Runs, Due, Drops, durable, Trigger, Begin, RetryNotDue,
           LeaseHeld, NotBegun, Recovered, UserTrigger
  <1>7. QED
    BY <1>2, <1>3, <1>4, <1>5, <1>6 DEF ManagerInv

(* A Trigger of the wakeup, of a restart or of the run before.             *)
LEMMA ScheduledTriggerStep ==
  ASSUME ManagerInv, ScheduledTrigger
  PROVE  ManagerInv'
  <1>1. /\ TypeOK /\ DownInv /\ RunInv /\ RetryArmed /\ WakeupScheduled
    BY DEF ManagerInv
  <1>2. TypeOK'
    <2>1. starts' \in 0..MaxStarts /\ triggers' \in Nat
      BY <1>1, ManagerAssumption
         DEF TypeOK, Lives, Stopping, Runs, Due, Drops, durable, Trigger, Begin,
             RetryNotDue, LeaseHeld, NotBegun, Recovered, ScheduledTrigger
    <2>2. /\ life' \in Lives /\ phase' \in {"idle", "syncing", "retrying"}
          /\ retryAt' \in Due /\ nextDue' \in Due /\ run' \in Runs
          /\ timer' \in {"none", "retry", "nextUpdate"}
          /\ outcome' \in {"none", "success", "throttled", "failed",
                           "cancelled", "stuck"}
          /\ dropped' \in Drops
      BY <1>1
         DEF TypeOK, Lives, Stopping, Runs, Due, Drops, durable, Trigger, Begin,
             RetryNotDue, LeaseHeld, NotBegun, Recovered, ScheduledTrigger
    <2>3. /\ marker' \in BOOLEAN /\ mappings' \in BOOLEAN
          /\ enabled' \in BOOLEAN /\ active' \in BOOLEAN
      BY <1>1
         DEF TypeOK, Lives, Stopping, Runs, Due, Drops, durable, Trigger, Begin,
             RetryNotDue, LeaseHeld, NotBegun, Recovered, ScheduledTrigger
    <2>4. active' <=> run' # "none"
      BY <1>1
         DEF TypeOK, Lives, Stopping, Runs, Due, Drops, durable, Trigger, Begin,
             RetryNotDue, LeaseHeld, NotBegun, Recovered, ScheduledTrigger
    <2>5. QED
      BY <2>1, <2>2, <2>3, <2>4 DEF TypeOK
  <1>3. DownInv'
    BY <1>1
       DEF DownInv, TypeOK, Lives, Stopping, Runs, Due, Drops, durable, Trigger,
           Begin, RetryNotDue, LeaseHeld, NotBegun, Recovered, ScheduledTrigger
  <1>4. RunInv'
    BY <1>1
       DEF RunInv, TypeOK, Lives, Stopping, Runs, Due, Drops, durable, Trigger,
           Begin, RetryNotDue, LeaseHeld, NotBegun, Recovered, ScheduledTrigger
  <1>5. RetryArmed'
    BY <1>1
       DEF RetryArmed, DownInv, RunInv, TypeOK, Lives, Stopping, Runs, Due,
           Drops, durable, Trigger, Begin, RetryNotDue, LeaseHeld, NotBegun,
           Recovered, ScheduledTrigger
  <1>6. WakeupScheduled'
    BY <1>1
       DEF WakeupScheduled, RetryArmed, DownInv, RunInv, TypeOK, Lives,
           Stopping, Runs, Due, Drops, durable, Trigger, Begin, RetryNotDue,
           LeaseHeld, NotBegun, Recovered, ScheduledTrigger
  <1>7. QED
    BY <1>2, <1>3, <1>4, <1>5, <1>6 DEF ManagerInv

(* The timer fires: a Trigger is on its way instead.                       *)
LEMMA WakeupStep ==
  ASSUME ManagerInv, WakeupFires
  PROVE  ManagerInv'
  <1>1. /\ TypeOK /\ DownInv /\ RunInv /\ RetryArmed /\ WakeupScheduled
    BY DEF ManagerInv
  <1>2. TypeOK'
    BY <1>1, ManagerAssumption
       DEF TypeOK, Lives, Stopping, Runs, Due, Drops, durable, WakeupFires
  <1>3. DownInv'
    BY <1>1
       DEF DownInv, TypeOK, Lives, Stopping, Runs, Due, Drops, durable,
           WakeupFires
  <1>4. RunInv'
    BY <1>1
       DEF RunInv, TypeOK, Lives, Stopping, Runs, Due, Drops, durable,
           WakeupFires
  <1>5. RetryArmed'
    BY <1>1
       DEF RetryArmed, DownInv, RunInv, TypeOK, Lives, Stopping, Runs, Due,
           Drops, durable, WakeupFires
  <1>6. WakeupScheduled'
    BY <1>1
       DEF WakeupScheduled, RetryArmed, DownInv, RunInv, TypeOK, Lives,
           Stopping, Runs, Due, Drops, durable, WakeupFires
  <1>7. QED
    BY <1>2, <1>3, <1>4, <1>5, <1>6 DEF ManagerInv

(* A run ends in one of its ways.                                          *)
LEMMA RunEndsStep ==
  ASSUME ManagerInv, RunEnds
  PROVE  ManagerInv'
  <1>1. /\ TypeOK /\ DownInv /\ RunInv /\ RetryArmed /\ WakeupScheduled
    BY DEF ManagerInv
  <1>2. TypeOK'
    BY <1>1, ManagerAssumption
       DEF TypeOK, Lives, Stopping, Runs, Due, Drops, durable, RunEnds,
           RunSucceeds, RunThrottled, RunFails, RunCancelled, CleanupFails,
           DecideWhatFollows, RunUnchanged, Following
  <1>3. DownInv'
    BY <1>1
       DEF DownInv, TypeOK, Lives, Stopping, Runs, Due, Drops, durable, RunEnds,
           RunSucceeds, RunThrottled, RunFails, RunCancelled, CleanupFails,
           DecideWhatFollows, RunUnchanged, Following
  <1>4. RunInv'
    BY <1>1
       DEF RunInv, TypeOK, Lives, Stopping, Runs, Due, Drops, durable, RunEnds,
           RunSucceeds, RunThrottled, RunFails, RunCancelled, CleanupFails,
           DecideWhatFollows, RunUnchanged, Following
  <1>5. RetryArmed'
    BY <1>1
       DEF RetryArmed, DownInv, RunInv, TypeOK, Lives, Stopping, Runs, Due,
           Drops, durable, RunEnds, RunSucceeds, RunThrottled, RunFails,
           RunCancelled, CleanupFails, DecideWhatFollows, RunUnchanged,
           Following
  <1>6. WakeupScheduled'
    BY <1>1
       DEF WakeupScheduled, RetryArmed, DownInv, RunInv, TypeOK, Lives,
           Stopping, Runs, Due, Drops, durable, RunEnds, RunSucceeds,
           RunThrottled, RunFails, RunCancelled, CleanupFails,
           DecideWhatFollows, RunUnchanged, Following
  <1>7. QED
    BY <1>2, <1>3, <1>4, <1>5, <1>6 DEF ManagerInv

(* The goroutine of the run decides what follows.                          *)
LEMMA FinishRunStep ==
  ASSUME ManagerInv, FinishRun
  PROVE  ManagerInv'
  <1>1. /\ TypeOK /\ DownInv /\ RunInv /\ RetryArmed /\ WakeupScheduled
    BY DEF ManagerInv
  <1>2. TypeOK'
    <2>1. starts' \in 0..MaxStarts /\ triggers' \in Nat
      BY <1>1, ManagerAssumption
         DEF TypeOK, Lives, Stopping, Runs, Due, Drops, durable, FinishRun,
             WakeupAfter, DoneClosed
    <2>2. /\ life' \in Lives /\ phase' \in {"idle", "syncing", "retrying"}
          /\ retryAt' \in Due /\ nextDue' \in Due /\ run' \in Runs
          /\ timer' \in {"none", "retry", "nextUpdate"}
          /\ outcome' \in {"none", "success", "throttled", "failed",
                           "cancelled", "stuck"}
          /\ dropped' \in Drops
      BY <1>1
         DEF TypeOK, Lives, Stopping, Runs, Due, Drops, durable, FinishRun,
             WakeupAfter, DoneClosed
    <2>3. /\ marker' \in BOOLEAN /\ mappings' \in BOOLEAN
          /\ enabled' \in BOOLEAN /\ active' \in BOOLEAN
      BY <1>1
         DEF TypeOK, Lives, Stopping, Runs, Due, Drops, durable, FinishRun,
             WakeupAfter, DoneClosed
    <2>4. active' <=> run' # "none"
      BY <1>1
         DEF TypeOK, Lives, Stopping, Runs, Due, Drops, durable, FinishRun,
             WakeupAfter, DoneClosed
    <2>5. QED
      BY <2>1, <2>2, <2>3, <2>4 DEF TypeOK
  <1>3. DownInv'
    BY <1>1
       DEF DownInv, TypeOK, Lives, Stopping, Runs, Due, Drops, durable,
           FinishRun, WakeupAfter, DoneClosed
  <1>4. RunInv'
    BY <1>1
       DEF RunInv, TypeOK, Lives, Stopping, Runs, Due, Drops, durable,
           FinishRun, WakeupAfter, DoneClosed
  <1>5. RetryArmed'
    BY <1>1
       DEF RetryArmed, DownInv, RunInv, TypeOK, Lives, Stopping, Runs, Due,
           Drops, durable, FinishRun, WakeupAfter, DoneClosed
  <1>6. WakeupScheduled'
    BY <1>1
       DEF WakeupScheduled, RetryArmed, DownInv, RunInv, TypeOK, Lives,
           Stopping, Runs, Due, Drops, durable, FinishRun, WakeupAfter,
           DoneClosed
  <1>7. QED
    BY <1>2, <1>3, <1>4, <1>5, <1>6 DEF ManagerInv

(* Teardown, and the passing of time.                                      *)
LEMMA TeardownStep ==
  ASSUME ManagerInv, StopRequested \/ ShutdownReads \/ ShutdownTimesOut
           \/ CloseBundles \/ BackoffEnds \/ NextUpdateFallsDue
  PROVE  ManagerInv'
  <1>1. /\ TypeOK /\ DownInv /\ RunInv /\ RetryArmed /\ WakeupScheduled
    BY DEF ManagerInv
  <1>2. TypeOK'
    BY <1>1, ManagerAssumption
       DEF TypeOK, Lives, Stopping, Runs, Due, Drops, durable, StopRequested,
           ShutdownReads, ShutdownTimesOut, CloseBundles, BackoffEnds,
           NextUpdateFallsDue, DoneClosed
  <1>3. DownInv'
    BY <1>1
       DEF DownInv, TypeOK, Lives, Stopping, Runs, Due, Drops, durable,
           StopRequested, ShutdownReads, ShutdownTimesOut, CloseBundles,
           BackoffEnds, NextUpdateFallsDue, DoneClosed
  <1>4. RunInv'
    BY <1>1
       DEF RunInv, TypeOK, Lives, Stopping, Runs, Due, Drops, durable,
           StopRequested, ShutdownReads, ShutdownTimesOut, CloseBundles,
           BackoffEnds, NextUpdateFallsDue, DoneClosed
  <1>5. RetryArmed'
    BY <1>1
       DEF RetryArmed, DownInv, RunInv, TypeOK, Lives, Stopping, Runs, Due,
           Drops, durable, StopRequested, ShutdownReads, ShutdownTimesOut,
           CloseBundles, BackoffEnds, NextUpdateFallsDue, DoneClosed
  <1>6. WakeupScheduled'
    BY <1>1
       DEF WakeupScheduled, RetryArmed, DownInv, RunInv, TypeOK, Lives,
           Stopping, Runs, Due, Drops, durable, StopRequested, ShutdownReads,
           ShutdownTimesOut, CloseBundles, BackoffEnds, NextUpdateFallsDue,
           DoneClosed
  <1>7. QED
    BY <1>2, <1>3, <1>4, <1>5, <1>6 DEF ManagerInv

-----------------------------------------------------------------------------
(* The state before the first start of the daemon.                         *)
LEMMA ManagerInit == ScheduleInit => ManagerInv
  <1> SUFFICES ASSUME ScheduleInit PROVE ManagerInv
    OBVIOUS
  <1>1. starts \in 0..MaxStarts
    BY ManagerAssumption DEF ScheduleInit
  <1>2. active = FALSE /\ run = "none"
    BY DEF ScheduleInit
  <1>3. TypeOK
    <2>1. active <=> run # "none"
      BY <1>2
    <2>2. /\ life \in Lives /\ run \in Runs /\ dropped \in Drops
          /\ retryAt \in Due /\ nextDue \in Due /\ triggers \in Nat
      BY DEF ScheduleInit, Lives, Runs, Drops, Due
    <2>3. /\ marker \in BOOLEAN /\ mappings \in BOOLEAN
          /\ enabled \in BOOLEAN /\ active \in BOOLEAN
      BY DEF ScheduleInit
    <2>4. QED
      BY <1>1, <2>1, <2>2, <2>3 DEF TypeOK, ScheduleInit
  <1>4. DownInv /\ RunInv /\ RetryArmed /\ WakeupScheduled
    BY DEF ScheduleInit, DownInv, RunInv, RetryArmed, WakeupScheduled
  <1>5. QED
    BY <1>3, <1>4 DEF ManagerInv

(* Every step keeps the invariant.                                         *)
LEMMA ManagerStep == ManagerInv /\ [ScheduleNext]_scheduleVars => ManagerInv'
  <1> SUFFICES ASSUME ManagerInv, [ScheduleNext]_scheduleVars PROVE ManagerInv'
    OBVIOUS
  <1>1. CASE UNCHANGED scheduleVars
    BY <1>1 DEF scheduleVars, durable, ManagerInv, TypeOK, DownInv, RunInv,
                RetryArmed, WakeupScheduled
  <1>2. CASE ScheduleNext
    BY <1>2, NewManagerStep, ExitStep, UserTriggerStep, ScheduledTriggerStep,
       WakeupStep, RunEndsStep, FinishRunStep, TeardownStep DEF ScheduleNext
  <1>3. QED
    BY <1>1, <1>2

(* ManagerInv holds of every state of every daemon.                        *)
THEOREM ManagerInvariant == ScheduleSpec => []ManagerInv
  <1>1. QED
    BY ManagerInit, ManagerStep, PTL DEF ScheduleSpec

(* The manager's variables keep their types, and activeRun is set exactly  *)
(* while a run has a goroutine.                                            *)
THEOREM ManagerTypes == ScheduleSpec => []TypeOK
  <1>1. ManagerInv => TypeOK
    BY DEF ManagerInv
  <1>2. QED
    BY <1>1, ManagerInvariant, PTL

(* A back-off, and an update that is due later, always have a wakeup or a  *)
(* Trigger under way (schedulePTRRetryWakeup, schedulePTRNextUpdateWakeup, *)
(* beginSync), but for the three exceptions WakeupScheduled names.         *)
THEOREM WakeupsNeverForgotten == ScheduleSpec => []WakeupScheduled
  <1>1. ManagerInv => WakeupScheduled
    BY DEF ManagerInv
  <1>2. QED
    BY <1>1, ManagerInvariant, PTL

=============================================================================
