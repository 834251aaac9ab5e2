------------------------- MODULE DesktopPTRStatus --------------------------
(***************************************************************************)
(* The PTR status of the desktop client (app.go: fetchPTRStatus,           *)
(* triggerPTRSync, pollPTRStatusUntilSettled).  A fetch or a manual sync   *)
(* takes a new request number; a daemon that is busy is then polled under  *)
(* the same number until it settles.  Each answer is applied by a closure  *)
(* on the UI thread, which asks again whether connection and number are    *)
(* current.  The pending count, progress and texts are left out.           *)
(***************************************************************************)
EXTENDS DesktopConnection

CONSTANTS
  MaxPTRRequests,  \* bound on the status goroutines under way at once
  MaxClosures      \* bound on the poll's closures the UI has not run yet

ASSUME PTRStatusAssumption ==
  MaxPTRRequests \in Nat \ {0} /\ MaxClosures \in Nat \ {0}

VARIABLES
  daemonPhase,       \* what each daemon's PTR manager would answer
  ptrStatusBusy,     \* p.ptrStatusBusy: the sync button is disabled
  ptrStatusRequest,  \* p.ptrStatusRequest
  ptrStatusLoaded,   \* p.ptrStatusLoaded
  ptrStatus,         \* p.ptrStatus, with the connection it came over
  shown,             \* what the headline says
  ptrRequests,       \* the goroutine of each request number
  ptrClosures        \* closures of polls, in the order the UI runs them

ptrVars == <<daemonPhase, ptrStatusBusy, ptrStatusRequest, ptrStatusLoaded,
             ptrStatus, shown, ptrRequests, ptrClosures>>

Phases == {"idle", "syncing", "retrying"}
RequestIDs == 1..MaxPTRRequests
ptrPollErrorLimit == 3

\* shouldPollPTRStatus; "retrying" stands for a retry time still to come.
shouldPollPTRStatus(phase) == phase \in {"syncing", "retrying"}

shouldContinuePTRPollingAfterError(errors) == errors < ptrPollErrorLimit

NoRequest == [at |-> "none"]

PTRInit ==
  /\ daemonPhase \in [Daemons -> {"idle", "syncing"}]
  /\ ptrStatusBusy = FALSE
  /\ ptrStatusRequest = 0
  /\ ptrStatusLoaded = FALSE
  /\ ptrStatus = [generation |-> 0, phase |-> "idle"]
  /\ shown = "offline"
  /\ ptrRequests = [r \in RequestIDs |-> NoRequest]
  /\ ptrClosures = <<>>

----------------------------------------------------------------------------
(* Request numbers.  A number nobody uses any more is used again, so 0     *)
(* stands for the number cancelPTRStatusRequests takes: it is nobody's.    *)

isCurrentPTRStatusRequest(r) == ptrStatusRequest = r

Unused(r) == /\ r \in RequestIDs
             /\ ptrRequests[r] = NoRequest
             /\ \A i \in DOMAIN ptrClosures : ptrClosures[i].request # r

Begin(kind, connection) ==
  LET r == CHOOSE n \in RequestIDs : Unused(n)
  IN /\ \E n \in RequestIDs : Unused(n)
     /\ ptrStatusBusy' = TRUE
     /\ ptrStatusRequest' = r
     /\ ptrRequests' = [ptrRequests EXCEPT
          ![r] = [at |-> kind, connection |-> connection]]

cancelPTRStatusRequests ==
  /\ ptrStatusBusy' = FALSE
  /\ ptrStatusRequest' = 0

----------------------------------------------------------------------------
(* The user. *)

RefreshOffline ==
  /\ ~connected
  /\ cancelPTRStatusRequests
  /\ ptrStatusLoaded' = FALSE
  /\ shown' = "offline"
  /\ UNCHANGED <<daemonPhase, ptrStatus, ptrRequests, ptrClosures,
                 connectionVars>>

fetchPTRStatus(connection) ==
  /\ Begin("fetch", connection)
  /\ shown' = "checking"
  /\ UNCHANGED <<daemonPhase, ptrStatusLoaded, ptrStatus, ptrClosures>>

Refresh == /\ connected
           /\ fetchPTRStatus(currentConnection)
           /\ UNCHANGED connectionVars

\* The sync button is enabled for a status that is loaded and not syncing.
TriggerPTRSync ==
  /\ connected /\ ~ptrStatusBusy /\ ptrStatusLoaded
  /\ ptrStatus.phase # "syncing"
  /\ Begin("trigger", currentConnection)
  /\ shown' = "requesting"
  /\ UNCHANGED <<daemonPhase, ptrStatusLoaded, ptrStatus, ptrClosures,
                 connectionVars>>

----------------------------------------------------------------------------
(* The requests. *)

DaemonOf(r) == ptrRequests[r].connection.client

Answered(r, answer) ==
  ptrRequests' = [ptrRequests EXCEPT ![r] =
    [at |-> IF ptrRequests[r].at = "fetch" THEN "fetched" ELSE "triggered",
     connection |-> ptrRequests[r].connection, answer |-> answer]]

\* The daemon answers a fetch, or starts a sync and answers.
RequestAnswered(r) ==
  /\ ptrRequests[r].at \in {"fetch", "trigger"}
  /\ daemonPhase' = IF ptrRequests[r].at = "fetch" THEN daemonPhase
                    ELSE [daemonPhase EXCEPT ![DaemonOf(r)] = "syncing"]
  /\ Answered(r, daemonPhase'[DaemonOf(r)])
  /\ UNCHANGED <<ptrStatusBusy, ptrStatusRequest, ptrStatusLoaded, ptrStatus,
                 shown, ptrClosures, connectionVars>>

RequestFailed(r) ==
  /\ ptrRequests[r].at \in {"fetch", "trigger"}
  /\ \E error \in {"transient", "error"} : Answered(r, error)
  /\ UNCHANGED <<daemonPhase, ptrStatusBusy, ptrStatusRequest,
                 ptrStatusLoaded, ptrStatus, shown, ptrClosures,
                 connectionVars>>

Current(r) == /\ isCurrentOperation(ptrRequests[r].connection)
              /\ isCurrentPTRStatusRequest(r)

\* A closure for a connection or a number that is no longer current.
RequestOutdated(r) ==
  /\ ptrRequests[r].at \in {"fetched", "triggered"}
  /\ ~Current(r)
  /\ ptrRequests' = [ptrRequests EXCEPT ![r] = NoRequest]
  /\ UNCHANGED <<daemonPhase, ptrStatusBusy, ptrStatusRequest,
                 ptrStatusLoaded, ptrStatus, shown, ptrClosures,
                 connectionVars>>

\* renderPTRStatus with the new status.
Show(connection, phase) ==
  /\ ptrStatus' = [generation |-> connection.generation, phase |-> phase]
  /\ ptrStatusLoaded' = TRUE
  /\ shown' = phase

PollFrom(connection) ==
  [at |-> "tick", connection |-> connection, errors |-> 0]

StatusReceived(r) ==
  LET p == ptrRequests[r]
  IN /\ p.at \in {"fetched", "triggered"} /\ p.answer \in Phases
     /\ Current(r)
     /\ ptrStatusBusy' = FALSE
     /\ Show(p.connection, p.answer)
     /\ ptrRequests' = [ptrRequests EXCEPT
          ![r] = IF shouldPollPTRStatus(p.answer)
                 THEN PollFrom(p.connection) ELSE NoRequest]
     /\ UNCHANGED <<daemonPhase, ptrStatusRequest, ptrClosures,
                    connectionVars>>

\* A fetch that timed out leaves the headline as it is.
FetchFailed(r) ==
  LET p == ptrRequests[r]
  IN /\ p.at = "fetched" /\ p.answer \notin Phases
     /\ Current(r)
     /\ ptrStatusBusy' = FALSE
     /\ shown' = IF p.answer = "error" THEN "failed" ELSE shown
     /\ ptrRequests' = [ptrRequests EXCEPT ![r] = NoRequest]
     /\ UNCHANGED <<daemonPhase, ptrStatusRequest, ptrStatusLoaded, ptrStatus,
                    ptrClosures, connectionVars>>

\* A failed trigger is followed by a fetch, which may use the same number.
TriggerFailed(r) ==
  /\ ptrRequests[r].at = "triggered" /\ ptrRequests[r].answer \notin Phases
  /\ Current(r)
  /\ ptrStatusBusy' = TRUE
  /\ ptrRequests' = [ptrRequests EXCEPT
       ![r] = [at |-> "fetch", connection |-> currentConnection]]
  /\ shown' = "checking"
  /\ UNCHANGED <<daemonPhase, ptrStatusRequest, ptrStatusLoaded, ptrStatus,
                 ptrClosures, connectionVars>>

----------------------------------------------------------------------------
(* The poll. *)

MovePoll(r, at) == ptrRequests' = [ptrRequests EXCEPT ![r].at = at]

PollTick(r) ==
  /\ ptrRequests[r].at = "tick"
  /\ IF Current(r) THEN MovePoll(r, "poll")
     ELSE ptrRequests' = [ptrRequests EXCEPT ![r] = NoRequest]
  /\ UNCHANGED <<daemonPhase, ptrStatusBusy, ptrStatusRequest,
                 ptrStatusLoaded, ptrStatus, shown, ptrClosures,
                 connectionVars>>

GivesClosure(r, text) ==
  /\ Len(ptrClosures) < MaxClosures
  /\ ptrClosures' = Append(ptrClosures,
       [request |-> r, connection |-> ptrRequests[r].connection,
        text |-> text])

\* A closure is given to the UI, and the loop goes on or ends meanwhile.
PollAnswered(r) ==
  LET phase == daemonPhase[DaemonOf(r)]
  IN /\ ptrRequests[r].at = "poll"
     /\ GivesClosure(r, phase)
     /\ ptrRequests' = [ptrRequests EXCEPT
          ![r] = IF shouldPollPTRStatus(phase)
                 THEN PollFrom(ptrRequests[r].connection) ELSE NoRequest]
     /\ UNCHANGED <<daemonPhase, ptrStatusBusy, ptrStatusRequest,
                    ptrStatusLoaded, ptrStatus, shown, connectionVars>>

\* Seeded fault: a poll that times out is the last one.
PollTimesOutForGood(r) ==
  /\ ptrRequests[r].at = "poll"
  /\ ptrRequests' = [ptrRequests EXCEPT ![r] = NoRequest]
  /\ UNCHANGED <<daemonPhase, ptrStatusBusy, ptrStatusRequest,
                 ptrStatusLoaded, ptrStatus, shown, ptrClosures,
                 connectionVars>>

\* A poll that is cancelled or times out is not counted.
PollTimesOut(r) ==
  /\ ptrRequests[r].at = "poll"
  /\ MovePoll(r, "tick")
  /\ UNCHANGED <<daemonPhase, ptrStatusBusy, ptrStatusRequest,
                 ptrStatusLoaded, ptrStatus, shown, ptrClosures,
                 connectionVars>>

PollFails(r) ==
  LET errors == ptrRequests[r].errors + 1
      on == shouldContinuePTRPollingAfterError(errors)
  IN /\ ptrRequests[r].at = "poll"
     /\ GivesClosure(r, IF on THEN "retry" ELSE "stopped")
     /\ ptrRequests' = [ptrRequests EXCEPT
          ![r] = IF on THEN [PollFrom(@.connection) EXCEPT !.errors = errors]
                 ELSE NoRequest]
     /\ UNCHANGED <<daemonPhase, ptrStatusBusy, ptrStatusRequest,
                    ptrStatusLoaded, ptrStatus, shown, connectionVars>>

\* Seeded fault: the closure relies on the test made before the request.
ShowPolledUnchecked ==
  /\ ptrClosures # <<>>
  /\ LET c == Head(ptrClosures)
     IN IF c.text \in Phases THEN Show(c.connection, c.text)
        ELSE UNCHANGED <<ptrStatus, ptrStatusLoaded, shown>>
  /\ ptrClosures' = Tail(ptrClosures)
  /\ UNCHANGED <<daemonPhase, ptrStatusBusy, ptrStatusRequest, ptrRequests,
                 connectionVars>>

ShowPolled ==
  /\ ptrClosures # <<>>
  /\ LET c == Head(ptrClosures)
     IN IF ~(/\ isCurrentOperation(c.connection)
             /\ isCurrentPTRStatusRequest(c.request))
        THEN UNCHANGED <<ptrStatus, ptrStatusLoaded, shown>>
        ELSE IF c.text \in Phases THEN Show(c.connection, c.text)
        ELSE /\ shown' = IF c.text = "stopped" THEN "failed" ELSE shown
             /\ UNCHANGED <<ptrStatus, ptrStatusLoaded>>
  /\ ptrClosures' = Tail(ptrClosures)
  /\ UNCHANGED <<daemonPhase, ptrStatusBusy, ptrStatusRequest, ptrRequests,
                 connectionVars>>

----------------------------------------------------------------------------
(* The connection. *)

\* resetConnectionAttemptState, as far as the PTR status goes.
ResetStatusRequests == cancelPTRStatusRequests /\ ptrStatusLoaded' = FALSE

PTRConnect(d) ==
  /\ BeginConnectAttempt(d)
  /\ ResetStatusRequests
  /\ shown' = "offline"
  /\ UNCHANGED <<daemonPhase, ptrStatus, ptrRequests, ptrClosures>>

\* A client that is online again after a failed attempt asks for no status.
PTRAttemptRequests(a) ==
  (AttemptRequests(a) \/ RestoreConnectedState(a)) /\ UNCHANGED ptrVars

PTRConnects(a) ==
  /\ InstallConnection(a)
  /\ fetchPTRStatus(
       [client |-> attempts[a].daemon, generation |-> connectionGen + 1,
        attemptID |-> connectAttemptID])

\* The daemon's PTR manager starts, waits and settles by itself.
DaemonMoves(d) ==
  /\ \E phase \in Phases : /\ phase # daemonPhase[d]
                           /\ daemonPhase' = [daemonPhase EXCEPT ![d] = phase]
  /\ UNCHANGED <<ptrStatusBusy, ptrStatusRequest, ptrStatusLoaded, ptrStatus,
                 shown, ptrRequests, ptrClosures, connectionVars>>

----------------------------------------------------------------------------
RequestStep(r) ==
  \/ RequestAnswered(r) \/ RequestFailed(r) \/ RequestOutdated(r)
  \/ StatusReceived(r) \/ FetchFailed(r) \/ TriggerFailed(r)
  \/ PollTick(r) \/ PollAnswered(r) \/ PollTimesOut(r) \/ PollFails(r)

PTRStatusNext ==
  \/ RefreshOffline \/ Refresh \/ TriggerPTRSync
  \/ \E r \in RequestIDs : RequestStep(r)
  \/ ShowPolled
  \/ \E d \in Daemons : PTRConnect(d) \/ DaemonMoves(d)
  \/ \E a \in AttemptIDs : PTRAttemptRequests(a) \/ PTRConnects(a)

\* Requests end by the timeouts of their contexts, the ticker ticks, closures
\* run, and a daemon that is polled again and again answers some poll.
PTRStatusFairness ==
  LET v == <<ptrVars, connectionVars>>
  IN /\ \A r \in RequestIDs :
          /\ WF_v(RequestStep(r))
          /\ SF_v(PollAnswered(r) \/ PollFails(r))
     /\ WF_v(ShowPolled)

StatusSpec ==
  /\ ConnectionInit /\ PTRInit
  /\ [][PTRStatusNext]_<<ptrVars, connectionVars>>

----------------------------------------------------------------------------
(* Properties. *)

\* However slow answers and closures are: the status the sync button is
\* decided on came over the connection the client has now, and a client
\* marked as busy has the request that will end this still under way, so the
\* button cannot stay disabled for a request that was given up.
StatusOfThisConnection ==
  /\ ptrStatusLoaded /\ connected => ptrStatus.generation = connectionGen
  /\ ptrStatusBusy => /\ ptrStatusRequest \in RequestIDs
                      /\ ptrRequests[ptrStatusRequest].at \in
                           {"fetch", "trigger", "fetched", "triggered"}
                      /\ Current(ptrStatusRequest)

\* A headline that says "syncing" does not stay once the daemon is idle and
\* the connection is left alone, whatever polls time out or fail.
HeadlineSettles ==
  <>[](connected /\ daemonPhase[client] = "idle") => <>[](shown # "syncing")

----------------------------------------------------------------------------
(* The inductive invariant. *)

Texts == Phases \cup {"retry", "stopped"}

PTRRequests ==
  {NoRequest}
    \cup [at : {"fetch", "trigger"}, connection : Connections]
    \cup [at : {"fetched", "triggered"}, connection : Connections,
          answer : Phases \cup {"transient", "error"}]
    \cup [at : {"tick", "poll"}, connection : Connections, errors : Nat]

StatusTypes ==
  /\ daemonPhase \in [Daemons -> Phases]
  /\ ptrStatusBusy \in BOOLEAN /\ ptrStatusLoaded \in BOOLEAN
  /\ ptrStatusRequest \in RequestIDs \cup {0}
  /\ ptrStatus \in [generation : Nat, phase : Phases]
  /\ ptrRequests \in [RequestIDs -> PTRRequests]
  /\ ptrClosures \in
       Seq([request : RequestIDs, connection : Connections, text : Texts])

\* No status is shown while a connect attempt is under way, and none that is
\* on its way over an earlier connection counts when it arrives.
StatusInv ==
  /\ ConnectionInv /\ StatusTypes
  /\ AttemptUnderWay => ~ptrStatusLoaded
  /\ \A r \in RequestIDs :
       ptrRequests[r] # NoRequest => Snapshot(ptrRequests[r].connection)
  /\ \A i \in DOMAIN ptrClosures : Snapshot(ptrClosures[i].connection)
  /\ StatusOfThisConnection
=============================================================================
