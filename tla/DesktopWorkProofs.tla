------------------------- MODULE DesktopWorkProofs -------------------------
(***************************************************************************)
(* Proofs about the parts of the desktop client that work through a        *)
(* connection: what becomes of snapshots of it, the PTR status, and the    *)
(* import queue.                                                           *)
(***************************************************************************)
EXTENDS DesktopPTRStatus, DesktopImportQueue, FiniteSetTheorems,
        WellFoundedInduction, TLAPS

----------------------------------------------------------------------------
(***************************************************************************)
(* The connection and snapshots of it.                                     *)
(***************************************************************************)

(* A client that never connected.                                          *)
LEMMA ConnectionInitial == ConnectionInit => ConnectionInv
  <1> SUFFICES ASSUME ConnectionInit PROVE ConnectionInv
    OBVIOUS
  <1>1. ConnectionTypes
    <2>1. NoAttempt \in Attempts
      BY DEF Attempts
    <2>2. attempts \in [AttemptIDs -> Attempts]
      BY <2>1 DEF ConnectionInit
    <2>3. connectionGen \in Nat /\ connectAttemptID \in 0..MaxAttempts
      BY ConnectionAssumption DEF ConnectionInit
    <2>4. client \in Daemons \cup {NoDaemon} /\ connected \in BOOLEAN
      BY DEF ConnectionInit
    <2>5. QED
      BY <2>2, <2>3, <2>4 DEF ConnectionTypes
  <1>2. ~connected /\ \A a \in AttemptIDs : ~attempts[a].was
    BY DEF ConnectionInit, NoAttempt
  <1>3. QED
    BY <1>1, <1>2 DEF ConnectionInv

(* A snapshot of an online client is current, and no attempt under way.    *)
LEMMA SnapshotTaken ==
  ASSUME ConnectionInv, connected
  PROVE  Snapshot(currentConnection) /\ isCurrentOperation(currentConnection)
  BY DEF ConnectionInv, ConnectionTypes, Snapshot, Connections,
         currentConnection, isCurrentOperation

(* beginConnectAttempt: every snapshot is of an earlier attempt.           *)
LEMMA AttemptBegins ==
  ASSUME ConnectionInv, NEW d \in Daemons, BeginConnectAttempt(d)
  PROVE  /\ ConnectionInv' /\ ~connected'
         /\ \A c : Snapshot(c) => Snapshot(c)' /\ ~isCurrentOperation(c)'
  <1> DEFINE n == connectAttemptID + 1
  <1>1. ConnectionTypes /\ n \in AttemptIDs
    BY ConnectionAssumption
       DEF ConnectionInv, BeginConnectAttempt, ConnectionTypes, AttemptIDs
  <1>2. /\ connectAttemptID' = n /\ ~connected'
        /\ attempts' = [attempts EXCEPT
             ![n] = [phase |-> "requests", daemon |-> d, was |-> connected]]
        /\ UNCHANGED <<client, connectionGen>>
    BY DEF BeginConnectAttempt
  <1>3. ConnectionTypes'
    <2>1. [phase |-> "requests", daemon |-> d, was |-> connected] \in Attempts
      BY <1>1 DEF ConnectionTypes, Attempts
    <2>2. attempts' \in [AttemptIDs -> Attempts]
      BY <1>1, <1>2, <2>1 DEF ConnectionTypes
    <2>3. n \in 0..MaxAttempts
      BY <1>1, ConnectionAssumption DEF AttemptIDs
    <2>4. connected' \in BOOLEAN
      BY DEF BeginConnectAttempt
    <2>5. QED
      BY <1>1, <1>2, <2>2, <2>3, <2>4 DEF ConnectionTypes
  <1>4. \A a \in AttemptIDs : attempts'[a].was => client' \in Daemons
    <2>1. attempts'[n].was <=> connected
      BY <1>1, <1>2 DEF ConnectionTypes
    <2>2. \A a \in AttemptIDs \ {n} : attempts'[a] = attempts[a]
      BY <1>1, <1>2 DEF ConnectionTypes
    <2>3. QED
      BY <1>2, <2>1, <2>2 DEF ConnectionInv
  <1>5. \A c : Snapshot(c) => Snapshot(c)' /\ ~isCurrentOperation(c)'
    BY <1>1, <1>2
       DEF Snapshot, Connections, isCurrentOperation, ConnectionTypes
  <1>6. QED
    BY <1>2, <1>3, <1>4, <1>5 DEF ConnectionInv

(* The requests of an attempt and its failure leave the connection as it   *)
(* was, and bring the client online only by ending the newest attempt.     *)
LEMMA AttemptMoves ==
  ASSUME ConnectionInv, NEW a \in AttemptIDs,
         AttemptRequests(a) \/ RestoreConnectedState(a)
  PROVE  /\ ConnectionInv'
         /\ UNCHANGED <<client, connectionGen, connectAttemptID>>
         /\ AttemptUnderWay' => AttemptUnderWay
         /\ connected' => connected \/ AttemptUnderWay
         /\ \A c : Snapshot(c) => Snapshot(c)'
  <1>1. ConnectionTypes
    BY DEF ConnectionInv
  <1>2. UNCHANGED <<client, connectionGen, connectAttemptID>>
    BY DEF AttemptRequests, RequestsSucceed, RequestsFail, AttemptOutdated,
           RestoreConnectedState
  <1>3. /\ attempts[a] # NoAttempt
        /\ \/ attempts' = [attempts EXCEPT ![a] = NoAttempt]
           \/ \E phase \in {"requests", "installing", "failing"} :
                attempts' = [attempts EXCEPT ![a].phase = phase]
    BY DEF AttemptRequests, RequestsSucceed, RequestsFail, AttemptOutdated,
           RestoreConnectedState, EndAttempt, MoveAttempt, NoAttempt
  <1> DEFINE Kept == \A x \in AttemptIDs :
        /\ attempts'[x] \in Attempts
        /\ attempts[x] = NoAttempt => attempts'[x] = NoAttempt
        /\ attempts'[x].was => attempts[x].was
  <1>4. attempts' \in [AttemptIDs -> Attempts] /\ Kept
    <2>1. CASE attempts' = [attempts EXCEPT ![a] = NoAttempt]
      <3>1. ~NoAttempt.was /\ NoAttempt \in Attempts
        BY DEF NoAttempt, Attempts
      <3>2. QED
        BY <1>1, <2>1, <3>1 DEF ConnectionTypes
    <2>2. ASSUME NEW phase \in {"requests", "installing", "failing"},
                 attempts' = [attempts EXCEPT ![a].phase = phase]
          PROVE  attempts' \in [AttemptIDs -> Attempts] /\ Kept
      <3>1. attempts[a] \in Attempts \ {NoAttempt}
        BY <1>1, <1>3 DEF ConnectionTypes
      <3>2. /\ [attempts[a] EXCEPT !.phase = phase] \in Attempts
            /\ [attempts[a] EXCEPT !.phase = phase].was = attempts[a].was
        BY <3>1 DEF Attempts
      <3>3. QED
        BY <1>1, <1>3, <2>2, <3>2 DEF ConnectionTypes
    <2>3. QED
      BY <1>3, <2>1, <2>2
  <1>5. AttemptUnderWay' => AttemptUnderWay
    BY <1>2, <1>4 DEF AttemptUnderWay, isCurrentConnectAttempt
  <1>6. \/ UNCHANGED connected
        \/ /\ connected' = attempts[a].was /\ AttemptUnderWay
           /\ ~AttemptUnderWay'
    <2>1. CASE AttemptRequests(a)
      BY <2>1 DEF AttemptRequests, RequestsSucceed, RequestsFail,
                  AttemptOutdated
    <2>2. CASE RestoreConnectedState(a)
      <3>1. /\ connected' = attempts[a].was /\ isCurrentConnectAttempt(a)
            /\ attempts'[a] = NoAttempt
        BY <2>2, <1>1 DEF RestoreConnectedState, EndAttempt, ConnectionTypes
      <3>2. QED
        BY <3>1, <1>2, <1>3 DEF AttemptUnderWay, isCurrentConnectAttempt
    <2>3. QED
      BY <2>1, <2>2
  <1>7. connected' \in BOOLEAN
    <2>1. attempts[a].was \in BOOLEAN
      BY <1>1, <1>3 DEF ConnectionTypes, Attempts
    <2>2. connected \in BOOLEAN
      BY <1>1 DEF ConnectionTypes
    <2>3. CASE connected' = connected
      BY <2>2, <2>3, Zenon
    <2>4. CASE connected' = attempts[a].was
      BY <2>1, <2>4, Zenon
    <2>5. QED
      BY <1>6, <2>3, <2>4
  <1>8. ConnectionTypes'
    BY <1>1, <1>2, <1>4, <1>7 DEF ConnectionTypes
  <1>9. ConnectionInv'
    BY <1>2, <1>4, <1>5, <1>6, <1>8 DEF ConnectionInv
  <1>10. \A c : Snapshot(c) => Snapshot(c)'
    BY <1>2, <1>5 DEF Snapshot, isCurrentOperation
  <1>11. QED
    BY <1>2, <1>5, <1>6, <1>9, <1>10

(* installConnection: the snapshots there are become outdated, and the one *)
(* of the new connection is current.                                       *)
LEMMA ConnectionInstalled ==
  ASSUME ConnectionInv, NEW a \in AttemptIDs, InstallConnection(a),
         NEW new, new = [client |-> attempts[a].daemon,
                         generation |-> connectionGen + 1,
                         attemptID |-> connectAttemptID]
  PROVE  /\ ConnectionInv' /\ AttemptUnderWay /\ ~AttemptUnderWay'
         /\ Snapshot(new)' /\ isCurrentOperation(new)'
         /\ \A c : Snapshot(c) => Snapshot(c)' /\ ~isCurrentOperation(c)'
  <1>1. ConnectionTypes
    BY DEF ConnectionInv
  <1>2. /\ attempts[a] # NoAttempt /\ connectAttemptID = a
        /\ client' = attempts[a].daemon /\ connected'
        /\ connectionGen' = connectionGen + 1
        /\ attempts' = [attempts EXCEPT ![a] = NoAttempt]
        /\ UNCHANGED connectAttemptID
    BY DEF InstallConnection, isCurrentConnectAttempt, EndAttempt, NoAttempt
  <1>3. attempts[a].daemon \in Daemons
    BY <1>1, <1>2 DEF ConnectionTypes, Attempts
  <1>4. ConnectionTypes'
    <2>1. connected' \in BOOLEAN /\ NoAttempt \in Attempts
      BY DEF InstallConnection, Attempts
    <2>2. QED
      BY <1>1, <1>2, <1>3, <2>1 DEF ConnectionTypes
  <1>5. AttemptUnderWay /\ ~AttemptUnderWay'
    BY <1>1, <1>2
       DEF AttemptUnderWay, isCurrentConnectAttempt, ConnectionTypes
  <1>6. ConnectionInv'
    BY <1>2, <1>3, <1>4, <1>5 DEF ConnectionInv
  <1>7. Snapshot(new)' /\ isCurrentOperation(new)'
    BY <1>1, <1>2, <1>3, <1>5
       DEF Snapshot, Connections, isCurrentOperation, ConnectionTypes
  <1>8. \A c : Snapshot(c) => Snapshot(c)' /\ ~isCurrentOperation(c)'
    BY <1>1, <1>2
       DEF Snapshot, Connections, isCurrentOperation, ConnectionTypes
  <1>9. QED
    BY <1>5, <1>6, <1>7, <1>8

(* A step that has nothing to do with the connection.                      *)
LEMMA ConnectionUnchanged ==
  ASSUME ConnectionInv, UNCHANGED connectionVars
  PROVE  /\ ConnectionInv' /\ (AttemptUnderWay' <=> AttemptUnderWay)
         /\ \A c : /\ Snapshot(c) => Snapshot(c)'
                   /\ isCurrentOperation(c) => isCurrentOperation(c)'
  <1>1. UNCHANGED <<client, connected, connectionGen, connectAttemptID,
                    attempts>>
    BY DEF connectionVars
  <1>2. AttemptUnderWay' <=> AttemptUnderWay
    BY <1>1 DEF AttemptUnderWay, isCurrentConnectAttempt
  <1>3. ConnectionInv'
    BY <1>1, <1>2 DEF ConnectionInv, ConnectionTypes
  <1>4. QED
    BY <1>1, <1>2, <1>3 DEF Snapshot, isCurrentOperation

----------------------------------------------------------------------------
(***************************************************************************)
(* The PTR status.                                                         *)
(***************************************************************************)

(* The status that is loaded came over this connection.                    *)
LoadedInv ==
  /\ ptrStatusLoaded /\ connected => ptrStatus.generation = connectionGen
  /\ AttemptUnderWay => ~ptrStatusLoaded

(* A busy client has the request that will end this under way.             *)
BusyInv ==
  ptrStatusBusy => /\ ptrStatusRequest \in RequestIDs
                   /\ ptrRequests[ptrStatusRequest].at \in
                        {"fetch", "trigger", "fetched", "triggered"}
                   /\ Current(ptrStatusRequest)

(* Requests and closures carry snapshots of the connection.                *)
RequestsInv ==
  \A r \in RequestIDs :
    ptrRequests[r] # NoRequest => Snapshot(ptrRequests[r].connection)

ClosuresInv ==
  \A i \in DOMAIN ptrClosures : Snapshot(ptrClosures[i].connection)

Closures == [request : RequestIDs, connection : Connections, text : Texts]

(* The invariant is the conjunction of these parts.                        *)
LEMMA StatusInvIs ==
  StatusInv <=> /\ ConnectionInv /\ StatusTypes /\ LoadedInv /\ BusyInv
                /\ RequestsInv /\ ClosuresInv
  BY DEF StatusInv, LoadedInv, BusyInv, RequestsInv, ClosuresInv,
         StatusOfThisConnection

(* The next state satisfies the invariant when it satisfies each part.     *)
LEMMA StatusInvNext ==
  ASSUME ConnectionInv', StatusTypes', LoadedInv', BusyInv', RequestsInv',
         ClosuresInv'
  PROVE  StatusInv'
  BY DEF StatusInv, LoadedInv, BusyInv, RequestsInv, ClosuresInv,
         StatusOfThisConnection

(* What a request that is at each point of fetchPTRStatus, triggerPTRSync  *)
(* and pollPTRStatusUntilSettled holds.                                    *)
LEMMA RequestShapes ==
  ASSUME StatusTypes, RequestsInv, NEW r \in RequestIDs
  PROVE  /\ ptrRequests[r] \in PTRRequests
         /\ ptrRequests[r].at \in {"none", "fetch", "trigger", "fetched",
                                   "triggered", "tick", "poll"}
         /\ ptrRequests[r].at # "none" =>
              /\ Snapshot(ptrRequests[r].connection)
              /\ ptrRequests[r].connection \in Connections
         /\ ptrRequests[r].at \in {"fetched", "triggered"} =>
              ptrRequests[r].answer \in Phases \cup {"transient", "error"}
         /\ ptrRequests[r].at \in {"tick", "poll"} =>
              /\ ptrRequests[r].errors \in Nat
              /\ ptrRequests[r] = [at |-> ptrRequests[r].at,
                                  connection |-> ptrRequests[r].connection,
                                  errors |-> ptrRequests[r].errors]
  <1>1. ptrRequests[r] \in PTRRequests
    BY DEF StatusTypes
  <1>2. NoRequest.at = "none"
    BY DEF NoRequest
  <1>3. ptrRequests[r].at # "none" => Snapshot(ptrRequests[r].connection)
    BY <1>2 DEF RequestsInv
  <1>4. QED
    BY <1>1, <1>2, <1>3 DEF PTRRequests, Snapshot

(* One request moves on; the others keep their snapshots.                  *)
LEMMA RequestMoves ==
  ASSUME StatusTypes, RequestsInv, NEW r \in RequestIDs,
         NEW v \in PTRRequests,
         v = NoRequest \/ Snapshot(v.connection)',
         \A c : Snapshot(c) => Snapshot(c)',
         ptrRequests' = [ptrRequests EXCEPT ![r] = v]
  PROVE  /\ ptrRequests' \in [RequestIDs -> PTRRequests]
         /\ RequestsInv' /\ ptrRequests'[r] = v
         /\ \A x \in RequestIDs \ {r} : ptrRequests'[x] = ptrRequests[x]
  <1>1. ptrRequests \in [RequestIDs -> PTRRequests]
    BY DEF StatusTypes
  <1>2. /\ ptrRequests' \in [RequestIDs -> PTRRequests]
        /\ ptrRequests'[r] = v
        /\ \A x \in RequestIDs \ {r} : ptrRequests'[x] = ptrRequests[x]
    BY <1>1
  <1>3. QED
    BY <1>2 DEF RequestsInv

(* A fetch or a trigger begins, over the connection there is after it.     *)
LEMMA BeginStep ==
  ASSUME StatusTypes, RequestsInv, NEW kind \in {"fetch", "trigger"}, NEW c,
         Begin(kind, c), Snapshot(c)', isCurrentOperation(c)',
         \A x : Snapshot(x) => Snapshot(x)'
  PROVE  /\ ptrRequests' \in [RequestIDs -> PTRRequests]
         /\ ptrStatusBusy' \in BOOLEAN
         /\ ptrStatusRequest' \in RequestIDs \cup {0}
         /\ RequestsInv' /\ BusyInv'
  <1> DEFINE r == CHOOSE n \in RequestIDs : Unused(n)
             v == [at |-> kind, connection |-> c]
  <1>1. /\ r \in RequestIDs /\ ptrStatusBusy' = TRUE
        /\ ptrStatusRequest' = r
        /\ ptrRequests' = [ptrRequests EXCEPT ![r] = v]
    BY DEF Begin
  <1>2. c \in Connections
    BY DEF Snapshot, Connections
  <1>3. v \in PTRRequests /\ v.connection = c /\ v.at = kind
    BY <1>2 DEF PTRRequests
  <1> HIDE DEF r, v
  <1>4. /\ ptrRequests' \in [RequestIDs -> PTRRequests]
        /\ RequestsInv' /\ ptrRequests'[r] = v
    BY <1>1, <1>3, RequestMoves
  <1>5. BusyInv'
    BY <1>1, <1>3, <1>4 DEF BusyInv, Current, isCurrentPTRStatusRequest
  <1>6. QED
    BY <1>1, <1>4, <1>5

(* What makes the status loaded, or leaves it.                             *)
LEMMA LoadedKept ==
  ASSUME StatusInv, UNCHANGED connectionVars,
         \/ UNCHANGED <<ptrStatus, ptrStatusLoaded>>
         \/ UNCHANGED ptrStatus /\ ptrStatusLoaded' = FALSE
         \/ \E c \in Connections, phase \in Phases :
              Snapshot(c) /\ isCurrentOperation(c) /\ Show(c, phase)
  PROVE  /\ LoadedInv' /\ ptrStatusLoaded' \in BOOLEAN
         /\ ptrStatus' \in [generation : Nat, phase : Phases]
  <1>1. /\ UNCHANGED <<connected, connectionGen>>
        /\ AttemptUnderWay' <=> AttemptUnderWay
    BY StatusInvIs, ConnectionUnchanged DEF connectionVars
  <1>2. /\ LoadedInv /\ ptrStatusLoaded \in BOOLEAN
        /\ ptrStatus \in [generation : Nat, phase : Phases]
    BY StatusInvIs DEF StatusTypes
  <1>3. CASE UNCHANGED <<ptrStatus, ptrStatusLoaded>>
    BY <1>1, <1>2, <1>3 DEF LoadedInv
  <1>4. CASE UNCHANGED ptrStatus /\ ptrStatusLoaded' = FALSE
    BY <1>1, <1>2, <1>4 DEF LoadedInv
  <1>5. ASSUME NEW c, NEW phase \in Phases, Snapshot(c),
               isCurrentOperation(c), Show(c, phase)
        PROVE  /\ LoadedInv' /\ ptrStatusLoaded' \in BOOLEAN
               /\ ptrStatus' \in [generation : Nat, phase : Phases]
    <2>1. /\ ~AttemptUnderWay /\ c.generation = connectionGen
          /\ c.generation \in Nat
      BY <1>5 DEF Snapshot, isCurrentOperation, Connections
    <2>2. /\ ptrStatus' = [generation |-> c.generation, phase |-> phase]
          /\ ptrStatusLoaded' = TRUE
      BY <1>5 DEF Show
    <2>3. QED
      BY <1>1, <1>5, <2>1, <2>2 DEF LoadedInv
  <1>6. QED
    BY <1>3, <1>4, <1>5

(* The user and the daemon: a refresh, the sync button, a phase.           *)
LEMMA UserStatusSteps ==
  ASSUME StatusInv,
         \/ RefreshOffline \/ Refresh \/ TriggerPTRSync
         \/ \E d \in Daemons : DaemonMoves(d)
  PROVE  StatusInv'
  <1>1. /\ ConnectionInv /\ StatusTypes /\ LoadedInv /\ BusyInv
        /\ RequestsInv /\ ClosuresInv
    BY StatusInvIs
  <1>2. UNCHANGED connectionVars /\ UNCHANGED ptrClosures
    BY DEF RefreshOffline, Refresh, fetchPTRStatus, TriggerPTRSync,
           DaemonMoves
  <1>3. /\ ConnectionInv'
        /\ \A c : /\ Snapshot(c) => Snapshot(c)'
                  /\ isCurrentOperation(c) => isCurrentOperation(c)'
    BY <1>1, <1>2, ConnectionUnchanged
  <1>4. ClosuresInv'
    BY <1>1, <1>2, <1>3 DEF ClosuresInv
  <1>5. CASE RefreshOffline
    <2>1. /\ ptrStatusBusy' = FALSE /\ ptrStatusRequest' = 0
          /\ ptrStatusLoaded' = FALSE
          /\ UNCHANGED <<daemonPhase, ptrStatus, ptrRequests>>
      BY <1>5 DEF RefreshOffline, cancelPTRStatusRequests
    <2>2. /\ LoadedInv' /\ ptrStatusLoaded' \in BOOLEAN
          /\ ptrStatus' \in [generation : Nat, phase : Phases]
      BY <1>2, <2>1, LoadedKept
    <2>3. StatusTypes'
      BY <1>1, <1>2, <2>1, <2>2 DEF StatusTypes
    <2>4. BusyInv' /\ RequestsInv'
      BY <1>1, <1>3, <2>1 DEF BusyInv, RequestsInv
    <2>5. QED
      BY <1>3, <1>4, <2>2, <2>3, <2>4, StatusInvNext
  <1>6. ASSUME NEW kind \in {"fetch", "trigger"}, connected,
               Begin(kind, currentConnection),
               UNCHANGED <<daemonPhase, ptrStatusLoaded, ptrStatus>>
        PROVE  StatusInv'
    <2>1. PICK c : c = currentConnection
      OBVIOUS
    <2>2. Snapshot(c) /\ isCurrentOperation(c)
      BY <1>1, <1>6, <2>1, SnapshotTaken
    <2>3. Begin(kind, c)
      BY <1>6, <2>1
    <2>4. /\ ptrRequests' \in [RequestIDs -> PTRRequests]
          /\ ptrStatusBusy' \in BOOLEAN
          /\ ptrStatusRequest' \in RequestIDs \cup {0}
          /\ RequestsInv' /\ BusyInv'
      BY <1>1, <1>3, <2>2, <2>3, BeginStep
    <2>5. /\ LoadedInv' /\ ptrStatusLoaded' \in BOOLEAN
          /\ ptrStatus' \in [generation : Nat, phase : Phases]
      BY <1>2, <1>6, LoadedKept
    <2>6. StatusTypes'
      BY <1>1, <1>2, <1>6, <2>4, <2>5 DEF StatusTypes
    <2>7. QED
      BY <1>3, <1>4, <2>4, <2>5, <2>6, StatusInvNext
  <1>7. ASSUME NEW d \in Daemons, DaemonMoves(d)
        PROVE  StatusInv'
    <2>1. /\ UNCHANGED <<ptrStatusBusy, ptrStatusRequest, ptrStatusLoaded,
                         ptrStatus, ptrRequests>>
          /\ \E phase \in Phases :
               daemonPhase' = [daemonPhase EXCEPT ![d] = phase]
      BY <1>7 DEF DaemonMoves
    <2>2. daemonPhase' \in [Daemons -> Phases]
      BY <1>1, <2>1 DEF StatusTypes
    <2>3. StatusTypes'
      BY <1>1, <1>2, <2>1, <2>2 DEF StatusTypes
    <2>4. LoadedInv'
      BY <1>2, <2>1, LoadedKept
    <2>5. BusyInv' /\ RequestsInv'
      BY <1>1, <1>3, <2>1
         DEF BusyInv, RequestsInv, Current, isCurrentPTRStatusRequest
    <2>6. QED
      BY <1>3, <1>4, <2>3, <2>4, <2>5, StatusInvNext
  <1>8. QED
    BY <1>5, <1>6, <1>7 DEF Refresh, fetchPTRStatus, TriggerPTRSync

(* A step of the request r whose answer is not shown: it goes on to v.     *)
LEMMA RequestGoesOn ==
  ASSUME StatusInv, NEW r \in RequestIDs, NEW v \in PTRRequests,
         v = NoRequest \/ v.connection = ptrRequests[r].connection,
         ptrRequests[r].at # "none",
         ptrRequests' = [ptrRequests EXCEPT ![r] = v],
         UNCHANGED connectionVars, UNCHANGED ptrStatusRequest,
         daemonPhase' \in [Daemons -> Phases],
         \/ UNCHANGED ptrClosures
         \/ \E text \in Texts : ptrClosures' = Append(ptrClosures,
              [request |-> r, connection |-> ptrRequests[r].connection,
               text |-> text]),
         \/ ptrStatusBusy' = FALSE
         \/ /\ UNCHANGED ptrStatusBusy
            /\ \/ ~Current(r) \/ ptrRequests[r].at \in {"tick", "poll"}
               \/ v.at \in {"fetch", "trigger", "fetched", "triggered"}
         \/ /\ Current(r) /\ ptrStatusBusy' = TRUE
            /\ v.at \in {"fetch", "trigger", "fetched", "triggered"},
         \/ UNCHANGED <<ptrStatus, ptrStatusLoaded>>
         \/ \E c \in Connections, phase \in Phases :
              Snapshot(c) /\ isCurrentOperation(c) /\ Show(c, phase)
  PROVE  StatusInv'
  <1>1. /\ ConnectionInv /\ StatusTypes /\ LoadedInv /\ BusyInv
        /\ RequestsInv /\ ClosuresInv
    BY StatusInvIs
  <1>2. /\ ConnectionInv'
        /\ \A c : /\ Snapshot(c) => Snapshot(c)'
                  /\ isCurrentOperation(c) => isCurrentOperation(c)'
    BY <1>1, ConnectionUnchanged
  <1>3. v = NoRequest \/ Snapshot(v.connection)'
    BY <1>1, <1>2, RequestShapes
  <1>4. /\ ptrRequests' \in [RequestIDs -> PTRRequests]
        /\ RequestsInv' /\ ptrRequests'[r] = v
        /\ \A x \in RequestIDs \ {r} : ptrRequests'[x] = ptrRequests[x]
    BY <1>1, <1>2, <1>3, RequestMoves
  <1>5. /\ LoadedInv' /\ ptrStatusLoaded' \in BOOLEAN
        /\ ptrStatus' \in [generation : Nat, phase : Phases]
    BY LoadedKept
  <1>8. ClosuresInv' /\ ptrClosures' \in Seq(Closures)
    <2>1. ptrClosures \in Seq(Closures)
      BY <1>1 DEF StatusTypes, Closures
    <2>2. CASE UNCHANGED ptrClosures
      BY <1>1, <1>2, <2>1, <2>2 DEF ClosuresInv
    <2>3. CASE \E text \in Texts : ptrClosures' = Append(ptrClosures,
            [request |-> r, connection |-> ptrRequests[r].connection,
             text |-> text])
      <3>1. PICK text \in Texts : ptrClosures' = Append(ptrClosures,
              [request |-> r, connection |-> ptrRequests[r].connection,
               text |-> text])
        BY <2>3
      <3> DEFINE e == [request |-> r, text |-> text,
                       connection |-> ptrRequests[r].connection]
      <3>2. /\ e \in Closures /\ e.connection = ptrRequests[r].connection
            /\ Snapshot(ptrRequests[r].connection)
        BY <1>1, RequestShapes DEF Closures
      <3>3. ptrClosures' = Append(ptrClosures, e)
        BY <3>1
      <3> HIDE DEF e
      <3>4. /\ ptrClosures' \in Seq(Closures)
            /\ \A i \in DOMAIN ptrClosures' :
                 \/ i \in DOMAIN ptrClosures
                    /\ ptrClosures'[i] = ptrClosures[i]
                 \/ ptrClosures'[i] = e
        BY <2>1, <3>2, <3>3
      <3>5. QED
        BY <1>1, <1>2, <3>2, <3>4 DEF ClosuresInv
    <2>4. QED
      BY <2>2, <2>3
  <1>6. StatusTypes'
    <2>1. ptrStatusBusy' \in BOOLEAN
      BY <1>1 DEF StatusTypes
    <2>2. QED
      BY <1>1, <1>4, <1>5, <1>8, <2>1 DEF StatusTypes, Closures
  <1>7. BusyInv'
    <2>1. CASE ptrStatusBusy' = FALSE
      BY <2>1 DEF BusyInv
    <2>2. ASSUME ptrStatusRequest = r, Current(r),
                 v.at \in {"fetch", "trigger", "fetched", "triggered"}
          PROVE  BusyInv'
      <3>1. v # NoRequest /\ v.connection = ptrRequests[r].connection
        BY <2>2 DEF NoRequest
      <3>2. isCurrentOperation(v.connection)'
        BY <1>2, <2>2, <3>1 DEF Current
      <3>3. QED
        BY <1>4, <2>2, <3>2
           DEF BusyInv, Current, isCurrentPTRStatusRequest
    <2>3. CASE /\ UNCHANGED ptrStatusBusy /\ ptrStatusBusy
               /\ \/ ~Current(r) \/ ptrRequests[r].at \in {"tick", "poll"}
                  \/ v.at \in {"fetch", "trigger", "fetched", "triggered"}
      <3>1. /\ ptrStatusRequest \in RequestIDs
            /\ ptrRequests[ptrStatusRequest].at \in
                 {"fetch", "trigger", "fetched", "triggered"}
            /\ isCurrentOperation(ptrRequests[ptrStatusRequest].connection)
            /\ Current(ptrStatusRequest)
        BY <1>1, <2>3 DEF BusyInv, Current
      <3>2. CASE ptrStatusRequest = r
        BY <2>2, <2>3, <3>1, <3>2
      <3>3. CASE ptrStatusRequest # r
        BY <1>2, <1>4, <3>1, <3>3
           DEF BusyInv, Current, isCurrentPTRStatusRequest
      <3>4. QED
        BY <3>2, <3>3
    <2>4. CASE /\ Current(r) /\ ptrStatusBusy' = TRUE
               /\ v.at \in {"fetch", "trigger", "fetched", "triggered"}
      BY <2>2, <2>4 DEF Current, isCurrentPTRStatusRequest
    <2>5. CASE UNCHANGED ptrStatusBusy /\ ~ptrStatusBusy
      BY <2>5 DEF BusyInv
    <2>6. QED
      BY <2>1, <2>3, <2>4, <2>5
  <1>9. QED
    BY <1>2, <1>4, <1>5, <1>6, <1>7, <1>8, StatusInvNext

(* The answer to a fetch or a trigger, and its closure.                    *)
LEMMA AnswerSteps ==
  ASSUME StatusInv, NEW r \in RequestIDs,
         \/ RequestAnswered(r) \/ RequestFailed(r) \/ RequestOutdated(r)
         \/ StatusReceived(r) \/ FetchFailed(r) \/ TriggerFailed(r)
  PROVE  StatusInv'
  <1>1. StatusTypes /\ RequestsInv /\ ConnectionInv
    BY StatusInvIs
  <1>2. PICK c : c = ptrRequests[r].connection
    OBVIOUS
  <1>3. ptrRequests[r].at \in {"fetch", "trigger", "fetched", "triggered"}
    BY DEF RequestAnswered, RequestFailed, RequestOutdated, StatusReceived,
           FetchFailed, TriggerFailed
  <1>4. /\ Snapshot(c) /\ c \in Connections /\ ptrRequests[r].at # "none"
        /\ daemonPhase \in [Daemons -> Phases]
    BY <1>1, <1>2, <1>3, RequestShapes DEF StatusTypes
  <1>5. NoRequest \in PTRRequests
    BY DEF PTRRequests
  <1>6. ASSUME NEW answer \in Phases \cup {"transient", "error"},
               Answered(r, answer), ptrRequests[r].at \in {"fetch", "trigger"},
               daemonPhase' \in [Daemons -> Phases],
               UNCHANGED <<ptrStatusBusy, ptrStatusRequest, ptrStatusLoaded,
                           ptrStatus, ptrClosures, connectionVars>>
        PROVE  StatusInv'
    <2>1. PICK at \in {"fetched", "triggered"} : ptrRequests' =
            [ptrRequests EXCEPT ![r] =
               [at |-> at, connection |-> c, answer |-> answer]]
      BY <1>2, <1>6 DEF Answered
    <2> DEFINE v == [at |-> at, connection |-> c, answer |-> answer]
    <2>2. v \in PTRRequests /\ v.connection = c /\ v.at = at
      BY <1>4 DEF PTRRequests
    <2> HIDE DEF v
    <2>3. ptrRequests' = [ptrRequests EXCEPT ![r] = v]
      BY <2>1 DEF v
    <2>4. QED
      BY <1>2, <1>4, <1>6, <2>2, <2>3, RequestGoesOn
  <1>7. CASE RequestAnswered(r)
    <2>1. c.client \in Daemons
      BY <1>4 DEF Connections
    <2>2. daemonPhase' = daemonPhase
            \/ daemonPhase' = [daemonPhase EXCEPT ![c.client] = "syncing"]
      BY <1>2, <1>7 DEF RequestAnswered, DaemonOf
    <2>3. daemonPhase' \in [Daemons -> Phases]
      BY <1>4, <2>2 DEF Phases
    <2>4. daemonPhase'[c.client] \in Phases \cup {"transient", "error"}
      BY <2>1, <2>3
    <2>5. PICK answer \in Phases \cup {"transient", "error"} :
            answer = daemonPhase'[c.client]
      BY <2>4
    <2>6. QED
      BY <1>2, <1>6, <1>7, <2>3, <2>5 DEF RequestAnswered, DaemonOf
  <1>8. CASE RequestFailed(r)
    <2>1. PICK answer \in {"transient", "error"} : Answered(r, answer)
      BY <1>8 DEF RequestFailed
    <2>2. QED
      BY <1>4, <1>6, <1>8, <2>1 DEF RequestFailed
  <1>9. CASE RequestOutdated(r)
    BY <1>4, <1>5, <1>9, RequestGoesOn DEF RequestOutdated
  <1>10. CASE StatusReceived(r)
    <2> DEFINE v == IF shouldPollPTRStatus(ptrRequests[r].answer)
                    THEN PollFrom(c) ELSE NoRequest
    <2>1. PICK w : w = v
      OBVIOUS
    <2>2. w \in PTRRequests /\ (w = NoRequest \/ w.connection = c)
      BY <1>4, <1>5, <2>1 DEF PTRRequests, PollFrom
    <2>3. /\ ptrRequests' = [ptrRequests EXCEPT ![r] = w]
          /\ isCurrentOperation(c) /\ ptrStatusBusy' = FALSE
          /\ UNCHANGED <<daemonPhase, ptrStatusRequest, ptrClosures>>
          /\ UNCHANGED connectionVars
      BY <1>2, <1>10, <2>1 DEF StatusReceived, Current
    <2>4. PICK phase \in Phases : Show(c, phase)
      BY <1>2, <1>10 DEF StatusReceived
    <2>5. \E x \in Connections, p \in Phases :
            Snapshot(x) /\ isCurrentOperation(x) /\ Show(x, p)
      BY <1>4, <2>3, <2>4
    <2>6. daemonPhase' \in [Daemons -> Phases]
      BY <1>4, <2>3
    <2>7. QED
      BY <1>2, <1>4, <2>2, <2>3, <2>5, <2>6, RequestGoesOn
  <1>11. CASE FetchFailed(r)
    BY <1>4, <1>5, <1>11, RequestGoesOn DEF FetchFailed
  <1>12. CASE TriggerFailed(r)
    <2>1. c = currentConnection
      BY <1>2, <1>4, <1>12
         DEF TriggerFailed, Current, isCurrentOperation, Snapshot,
             Connections, currentConnection
    <2> DEFINE v == [at |-> "fetch", connection |-> c]
    <2>2. v \in PTRRequests /\ v.connection = c /\ v.at = "fetch"
      BY <1>4 DEF PTRRequests
    <2>3. ptrRequests' = [ptrRequests EXCEPT ![r] = v]
      BY <1>12, <2>1 DEF TriggerFailed
    <2>4. /\ Current(r) /\ ptrStatusBusy' = TRUE
          /\ UNCHANGED <<daemonPhase, ptrStatusRequest, ptrStatusLoaded,
                         ptrStatus, ptrClosures, connectionVars>>
      BY <1>12 DEF TriggerFailed
    <2> HIDE DEF v
    <2>5. QED
      BY <1>2, <1>4, <2>2, <2>3, <2>4, RequestGoesOn
  <1>13. QED
    BY <1>7, <1>8, <1>9, <1>10, <1>11, <1>12

(* The poll: a tick, an answer, a time-out, an error.                      *)
LEMMA PollSteps ==
  ASSUME StatusInv, NEW r \in RequestIDs,
         PollTick(r) \/ PollAnswered(r) \/ PollTimesOut(r) \/ PollFails(r)
  PROVE  StatusInv'
  <1>1. StatusTypes /\ RequestsInv /\ ConnectionInv
    BY StatusInvIs
  <1>2. PICK c : c = ptrRequests[r].connection
    OBVIOUS
  <1>3. ptrRequests[r].at \in {"tick", "poll"}
    BY DEF PollTick, PollAnswered, PollTimesOut, PollFails
  <1>4. PICK n : n = ptrRequests[r].errors
    OBVIOUS
  <1>5. /\ Snapshot(c) /\ c \in Connections /\ ptrRequests[r].at # "none"
        /\ n \in Nat
        /\ ptrRequests[r] = [at |-> ptrRequests[r].at, connection |-> c,
                             errors |-> n]
        /\ daemonPhase \in [Daemons -> Phases]
        /\ ptrRequests \in [RequestIDs -> PTRRequests]
    BY <1>1, <1>2, <1>3, <1>4, RequestShapes DEF StatusTypes
  <1>6. NoRequest \in PTRRequests
    BY DEF PTRRequests
  <1>7. \A at \in {"tick", "poll"}, m \in Nat :
          /\ [at |-> at, connection |-> c, errors |-> m] \in PTRRequests
          /\ [at |-> at, connection |-> c, errors |-> m].connection = c
    BY <1>5 DEF PTRRequests
  <1>8. /\ UNCHANGED <<daemonPhase, ptrStatusBusy, ptrStatusRequest,
                       ptrStatusLoaded, ptrStatus>>
        /\ UNCHANGED connectionVars
    BY DEF PollTick, PollAnswered, PollTimesOut, PollFails
  <1>9. daemonPhase' \in [Daemons -> Phases]
    BY <1>5, <1>8
  <1>10. ASSUME NEW v \in PTRRequests, v = NoRequest \/ v.connection = c,
                ptrRequests' = [ptrRequests EXCEPT ![r] = v],
                \/ UNCHANGED ptrClosures
                \/ \E text \in Texts : ptrClosures' = Append(ptrClosures,
                     [request |-> r, connection |-> ptrRequests[r].connection,
                      text |-> text])
         PROVE  StatusInv'
    BY <1>2, <1>3, <1>5, <1>8, <1>9, <1>10, RequestGoesOn
  <1>11. ASSUME NEW at \in {"tick", "poll"}, MovePoll(r, at)
         PROVE  ptrRequests' = [ptrRequests EXCEPT
                  ![r] = [at |-> at, connection |-> c, errors |-> n]]
    <2>1. PICK was : was = ptrRequests[r].at
      OBVIOUS
    <2>2. ptrRequests[r] = [at |-> was, connection |-> c, errors |-> n]
      BY <1>5, <2>1
    <2>3. [ptrRequests[r] EXCEPT !.at = at]
            = [at |-> at, connection |-> c, errors |-> n]
      BY <2>2
    <2>4. ptrRequests' = [ptrRequests EXCEPT
            ![r] = [ptrRequests[r] EXCEPT !.at = at]]
      BY <1>5, <1>11 DEF MovePoll
    <2>5. QED
      BY <2>3, <2>4
  <1>12. CASE PollTick(r)
    BY <1>6, <1>7, <1>5, <1>10, <1>11, <1>12 DEF PollTick
  <1>13. CASE PollTimesOut(r)
    BY <1>7, <1>5, <1>10, <1>11, <1>13 DEF PollTimesOut
  <1>14. CASE PollAnswered(r)
    <2>1. PICK text : text = daemonPhase[c.client]
      OBVIOUS
    <2>2. text \in Texts
      BY <1>5, <2>1 DEF Connections, Texts
    <2>3. PICK v : v = IF shouldPollPTRStatus(text) THEN PollFrom(c)
                       ELSE NoRequest
      OBVIOUS
    <2>4. v \in PTRRequests /\ (v = NoRequest \/ v.connection = c)
      BY <1>6, <1>7, <2>3 DEF PollFrom
    <2>5. ptrRequests' = [ptrRequests EXCEPT ![r] = v]
      BY <1>2, <1>14, <2>1, <2>3 DEF PollAnswered, DaemonOf
    <2>6. \E t \in Texts : ptrClosures' = Append(ptrClosures,
            [request |-> r, connection |-> ptrRequests[r].connection,
             text |-> t])
      BY <1>2, <1>14, <2>1, <2>2 DEF PollAnswered, DaemonOf, GivesClosure
    <2>7. QED
      BY <1>10, <2>4, <2>5, <2>6
  <1>15. CASE PollFails(r)
    <2>1. PICK on : on = shouldContinuePTRPollingAfterError(n + 1)
      OBVIOUS
    <2>2. PICK v : v = IF on THEN [at |-> "tick", connection |-> c,
                                   errors |-> n + 1]
                       ELSE NoRequest
      OBVIOUS
    <2>3. v \in PTRRequests /\ (v = NoRequest \/ v.connection = c)
      BY <1>5, <1>6, <1>7, <2>2
    <2>4. ptrRequests' = [ptrRequests EXCEPT ![r] =
            IF on THEN [PollFrom(c) EXCEPT !.errors = n + 1] ELSE NoRequest]
      BY <1>2, <1>4, <1>5, <1>15, <2>1 DEF PollFails
    <2>5. [PollFrom(c) EXCEPT !.errors = n + 1]
            = [at |-> "tick", connection |-> c, errors |-> n + 1]
      BY DEF PollFrom
    <2>6. ptrRequests' = [ptrRequests EXCEPT ![r] = v]
      BY <2>2, <2>4, <2>5
    <2>7. \E t \in Texts : ptrClosures' = Append(ptrClosures,
            [request |-> r, connection |-> ptrRequests[r].connection,
             text |-> t])
      BY <1>15 DEF PollFails, GivesClosure, Texts
    <2>8. QED
      BY <1>10, <2>3, <2>6, <2>7
  <1>16. QED
    BY <1>12, <1>13, <1>14, <1>15

(* The UI runs a closure of a poll.                                        *)
LEMMA ClosureStep == StatusInv /\ ShowPolled => StatusInv'
  <1> SUFFICES ASSUME StatusInv, ShowPolled
               PROVE  StatusInv'
    OBVIOUS
  <1>1. /\ ConnectionInv /\ StatusTypes /\ LoadedInv /\ BusyInv
        /\ RequestsInv /\ ClosuresInv
    BY StatusInvIs
  <1>2. /\ UNCHANGED <<daemonPhase, ptrStatusBusy, ptrStatusRequest,
                       ptrRequests>>
        /\ UNCHANGED connectionVars
        /\ ptrClosures # <<>> /\ ptrClosures' = Tail(ptrClosures)
    BY DEF ShowPolled
  <1>3. /\ ConnectionInv'
        /\ \A c : /\ Snapshot(c) => Snapshot(c)'
                  /\ isCurrentOperation(c) => isCurrentOperation(c)'
    BY <1>1, <1>2, ConnectionUnchanged
  <1>4. ptrClosures \in Seq(Closures)
    BY <1>1 DEF StatusTypes, Closures
  <1>5. /\ ptrClosures' \in Seq(Closures)
        /\ \A i \in DOMAIN ptrClosures' :
             /\ i + 1 \in DOMAIN ptrClosures
             /\ ptrClosures'[i] = ptrClosures[i + 1]
        /\ 1 \in DOMAIN ptrClosures /\ Head(ptrClosures) = ptrClosures[1]
    BY <1>2, <1>4
  <1>6. ClosuresInv'
    BY <1>1, <1>3, <1>5 DEF ClosuresInv
  <1>7. PICK h : h = Head(ptrClosures)
    OBVIOUS
  <1>8. Snapshot(h.connection)
    BY <1>1, <1>5, <1>7 DEF ClosuresInv
  <1>9. \/ UNCHANGED <<ptrStatus, ptrStatusLoaded>>
        \/ /\ isCurrentOperation(h.connection) /\ h.text \in Phases
           /\ Show(h.connection, h.text)
    BY <1>7 DEF ShowPolled
  <1>10. \/ UNCHANGED <<ptrStatus, ptrStatusLoaded>>
         \/ \E c \in Connections, phase \in Phases :
              Snapshot(c) /\ isCurrentOperation(c) /\ Show(c, phase)
    BY <1>8, <1>9 DEF Snapshot
  <1>11. /\ LoadedInv' /\ ptrStatusLoaded' \in BOOLEAN
         /\ ptrStatus' \in [generation : Nat, phase : Phases]
    BY <1>2, <1>10, LoadedKept
  <1>12. StatusTypes'
    BY <1>1, <1>2, <1>5, <1>11 DEF StatusTypes, Closures
  <1>13. BusyInv' /\ RequestsInv'
    BY <1>1, <1>2, <1>3
       DEF BusyInv, RequestsInv, Current, isCurrentPTRStatusRequest
  <1>14. QED
    BY <1>3, <1>6, <1>11, <1>12, <1>13, StatusInvNext

(* The steps of a connect attempt: its beginning and its end cancel what   *)
(* is asked of the old connection, and a new one starts with a fetch.      *)
LEMMA StatusConnectSteps ==
  ASSUME StatusInv,
         \/ \E d \in Daemons : PTRConnect(d)
         \/ \E a \in AttemptIDs : PTRAttemptRequests(a) \/ PTRConnects(a)
  PROVE  StatusInv'
  <1>1. /\ ConnectionInv /\ StatusTypes /\ LoadedInv /\ BusyInv
        /\ RequestsInv /\ ClosuresInv
    BY StatusInvIs
  <1>2. ASSUME NEW d \in Daemons, PTRConnect(d)
        PROVE  StatusInv'
    <2>1. BeginConnectAttempt(d)
      BY <1>2 DEF PTRConnect
    <2>2. /\ ConnectionInv' /\ ~connected'
          /\ \A c : Snapshot(c) => Snapshot(c)'
      BY <1>1, <2>1, AttemptBegins
    <2>3. /\ ptrStatusBusy' = FALSE /\ ptrStatusRequest' = 0
          /\ ptrStatusLoaded' = FALSE
          /\ UNCHANGED <<daemonPhase, ptrStatus, ptrRequests, ptrClosures>>
      BY <1>2 DEF PTRConnect, ResetStatusRequests, cancelPTRStatusRequests
    <2>4. StatusTypes'
      BY <1>1, <2>3 DEF StatusTypes
    <2>5. LoadedInv' /\ BusyInv'
      BY <2>3 DEF LoadedInv, BusyInv
    <2>6. RequestsInv' /\ ClosuresInv'
      BY <1>1, <2>2, <2>3 DEF RequestsInv, ClosuresInv
    <2>7. QED
      BY <2>2, <2>4, <2>5, <2>6, StatusInvNext
  <1>3. ASSUME NEW a \in AttemptIDs, PTRAttemptRequests(a)
        PROVE  StatusInv'
    <2>1. /\ AttemptRequests(a) \/ RestoreConnectedState(a)
          /\ UNCHANGED ptrVars
      BY <1>3 DEF PTRAttemptRequests
    <2>2. /\ ConnectionInv'
          /\ UNCHANGED <<client, connectionGen, connectAttemptID>>
          /\ AttemptUnderWay' => AttemptUnderWay
          /\ connected' => connected \/ AttemptUnderWay
          /\ \A c : Snapshot(c) => Snapshot(c)'
      BY <1>1, <2>1, AttemptMoves
    <2>3. UNCHANGED <<daemonPhase, ptrStatusBusy, ptrStatusRequest,
                      ptrStatusLoaded, ptrStatus, ptrRequests, ptrClosures>>
      BY <2>1 DEF ptrVars
    <2>4. StatusTypes'
      BY <1>1, <2>3 DEF StatusTypes
    <2>5. LoadedInv'
      BY <1>1, <2>2, <2>3 DEF LoadedInv
    <2>6. BusyInv'
      BY <1>1, <2>2, <2>3
         DEF BusyInv, Current, isCurrentOperation, isCurrentPTRStatusRequest
    <2>7. RequestsInv' /\ ClosuresInv'
      BY <1>1, <2>2, <2>3 DEF RequestsInv, ClosuresInv
    <2>8. QED
      BY <2>2, <2>4, <2>5, <2>6, <2>7, StatusInvNext
  <1>4. ASSUME NEW a \in AttemptIDs, PTRConnects(a)
        PROVE  StatusInv'
    <2>1. PICK c : c = [client |-> attempts[a].daemon,
                        generation |-> connectionGen + 1,
                        attemptID |-> connectAttemptID]
      OBVIOUS
    <2>2. /\ InstallConnection(a) /\ Begin("fetch", c)
          /\ UNCHANGED <<daemonPhase, ptrStatusLoaded, ptrStatus, ptrClosures>>
      BY <1>4, <2>1 DEF PTRConnects, fetchPTRStatus
    <2>3. /\ ConnectionInv' /\ AttemptUnderWay /\ ~AttemptUnderWay'
          /\ Snapshot(c)' /\ isCurrentOperation(c)'
          /\ \A x : Snapshot(x) => Snapshot(x)'
      BY <1>1, <2>1, <2>2, ConnectionInstalled
    <2>4. /\ ptrRequests' \in [RequestIDs -> PTRRequests]
          /\ ptrStatusBusy' \in BOOLEAN
          /\ ptrStatusRequest' \in RequestIDs \cup {0}
          /\ RequestsInv' /\ BusyInv'
      BY <1>1, <2>2, <2>3, BeginStep
    <2>5. LoadedInv'
      BY <1>1, <2>2, <2>3 DEF LoadedInv
    <2>6. StatusTypes'
      BY <1>1, <2>2, <2>4 DEF StatusTypes
    <2>7. ClosuresInv'
      BY <1>1, <2>2, <2>3 DEF ClosuresInv
    <2>8. QED
      BY <2>3, <2>4, <2>5, <2>6, <2>7, StatusInvNext
  <1>5. QED
    BY <1>2, <1>3, <1>4

(* A client that was just started asked for nothing.                       *)
LEMMA StatusInitial == ConnectionInit /\ PTRInit => StatusInv
  <1> SUFFICES ASSUME ConnectionInit, PTRInit
               PROVE  StatusInv
    OBVIOUS
  <1>1. ConnectionInv
    BY ConnectionInitial
  <1>2. StatusTypes
    <2>1. NoRequest \in PTRRequests
      BY DEF PTRRequests
    <2>2. ptrRequests \in [RequestIDs -> PTRRequests]
      BY <2>1 DEF PTRInit
    <2>3. daemonPhase \in [Daemons -> Phases]
      BY DEF PTRInit, Phases
    <2>4. [generation |-> 0, phase |-> "idle"]
            \in [generation : Nat, phase : Phases]
      BY DEF Phases
    <2>5. ptrStatus = [generation |-> 0, phase |-> "idle"]
      BY DEF PTRInit
    <2>6. ptrStatusBusy \in BOOLEAN /\ ptrStatusLoaded \in BOOLEAN
      BY DEF PTRInit
    <2>7. /\ ptrStatusRequest \in RequestIDs \cup {0}
          /\ ptrClosures \in Seq(Closures)
      BY DEF PTRInit
    <2>8. ptrStatus \in [generation : Nat, phase : Phases]
      BY <2>4, <2>5
    <2>9. QED
      BY <2>2, <2>3, <2>6, <2>7, <2>8 DEF StatusTypes, Closures
  <1>3. /\ ptrStatusLoaded = FALSE /\ ptrStatusBusy = FALSE
        /\ \A r \in RequestIDs : ptrRequests[r] = NoRequest
        /\ DOMAIN ptrClosures = {}
    BY DEF PTRInit
  <1>4. QED
    BY <1>1, <1>2, <1>3, StatusInvIs
       DEF LoadedInv, BusyInv, RequestsInv, ClosuresInv

(* The invariant of the PTR status: however connect attempts, fetches,     *)
(* triggers, polls and the closures they give the UI interleave, no status *)
(* is loaded during an attempt, and everything under way carries a         *)
(* snapshot that an attempt begun since has made outdated.                 *)
THEOREM StatusInvariant == StatusSpec => []StatusInv
  <1>1. ConnectionInit /\ PTRInit => StatusInv
    BY StatusInitial
  <1>2. StatusInv /\ [PTRStatusNext]_<<ptrVars, connectionVars>> => StatusInv'
    <2> SUFFICES ASSUME StatusInv,
                        [PTRStatusNext]_<<ptrVars, connectionVars>>
                 PROVE  StatusInv'
      OBVIOUS
    <2>1. ASSUME NEW r \in RequestIDs, RequestStep(r)
          PROVE  StatusInv'
      BY <2>1, AnswerSteps, PollSteps DEF RequestStep
    <2>2. CASE UNCHANGED <<ptrVars, connectionVars>>
      <3>1. UNCHANGED <<daemonPhase, ptrStatusBusy, ptrStatusRequest,
                        ptrStatusLoaded, ptrStatus, ptrRequests, ptrClosures,
                        connectionVars>>
        BY <2>2 DEF ptrVars
      <3>2. /\ ConnectionInv /\ StatusTypes /\ LoadedInv /\ BusyInv
            /\ RequestsInv /\ ClosuresInv
        BY StatusInvIs
      <3>3. /\ ConnectionInv'
            /\ \A c : /\ Snapshot(c) => Snapshot(c)'
                      /\ isCurrentOperation(c) => isCurrentOperation(c)'
        BY <3>1, <3>2, ConnectionUnchanged
      <3>4. LoadedInv'
        BY <3>1, LoadedKept
      <3>5. StatusTypes'
        BY <3>1, <3>2 DEF StatusTypes
      <3>6. BusyInv' /\ RequestsInv' /\ ClosuresInv'
        BY <3>1, <3>2, <3>3
           DEF BusyInv, RequestsInv, ClosuresInv, Current,
               isCurrentPTRStatusRequest
      <3>7. QED
        BY <3>3, <3>4, <3>5, <3>6, StatusInvNext
    <2>3. QED
      BY <2>1, <2>2, UserStatusSteps, ClosureStep, StatusConnectSteps
         DEF PTRStatusNext
  <1>3. QED
    BY <1>1, <1>2, PTL DEF StatusSpec

(* The status the sync button is decided on is one of this connection, and *)
(* a busy button has the request under way that will enable it again.      *)
THEOREM StatusIsOfThisConnection == StatusSpec => []StatusOfThisConnection
  <1>1. StatusInv => StatusOfThisConnection
    BY DEF StatusInv
  <1>2. QED
    BY <1>1, StatusInvariant, PTL

----------------------------------------------------------------------------
(***************************************************************************)
(* The import queue.                                                       *)
(***************************************************************************)

(* A set of naturals that is not empty has a least element.                *)
LEMMA LeastOfNaturals ==
  ASSUME NEW S \in SUBSET Nat, S # {}
  PROVE  \E n \in S : \A k \in S : n <= k
  <1> DEFINE R == OpToRel(<, Nat)
  <1>1. PICK n \in S : \A k \in S : ~(<<k, n>> \in R)
    <2>1. IsWellFoundedOn(R, Nat)
      BY NatLessThanWellFounded
    <2>2. QED
      BY <2>1, WFMin
  <1>2. \A k \in S : ~(k < n)
    BY <1>1 DEF OpToRel
  <1>3. QED
    BY <1>2

(* The k-th position that is kept: the number of kept positions up to i    *)
(* grows from 0 to that of all of them in steps of one.                    *)
LEMMA KeptPosition ==
  ASSUME NEW n \in Nat, NEW S \in SUBSET (1..n), NEW k \in 1..Cardinality(S)
  PROVE  \E i \in S : Cardinality({j \in S : j <= i}) = k
  <1> DEFINE upto(i) == {j \in S : j <= i}
             count(i) == Cardinality(upto(i))
             high == {i \in 0..n : count(i) >= k}
  <1>1. IsFiniteSet(S) /\ Cardinality(S) \in Nat
    <2>1. IsFiniteSet(1..n)
      BY FS_Interval
    <2>2. IsFiniteSet(S)
      BY <2>1, FS_Subset
    <2>3. QED
      BY <2>2, FS_CardinalityType
  <1>2. \A i \in S : i \in Nat /\ 1 <= i /\ i <= n
    OBVIOUS
  <1>3. /\ \A i : upto(i) \in SUBSET S
        /\ \A i, j : j \in upto(i) <=> j \in S /\ j <= i
    OBVIOUS
  <1> HIDE DEF upto
  <1>4. \A i : IsFiniteSet(upto(i)) /\ count(i) \in Nat
    <2>1. \A i : IsFiniteSet(upto(i))
      BY <1>1, <1>3, FS_Subset
    <2>2. QED
      BY <2>1, FS_CardinalityType
  <1>5. count(n) = Cardinality(S) /\ count(0) = 0
    <2>1. upto(n) = S
      <3>1. \A j : j \in upto(n) <=> j \in S
        BY <1>2, <1>3
      <3>2. QED
        BY <3>1
    <2>2. upto(0) = {}
      <3>1. \A j \in S : ~(j <= 0)
        BY <1>2
      <3>2. \A j : j \notin upto(0)
        BY <1>3, <3>1
      <3>3. QED
        BY <3>2
    <2>3. QED
      BY <2>1, <2>2, FS_EmptySet
  <1>6. \A m \in 1..n :
          /\ m \notin S => count(m) = count(m - 1)
          /\ m \in S => count(m) <= count(m - 1) + 1
    <2>1. TAKE m \in 1..n
    <2>2. CASE m \notin S
      <3>1. upto(m) = upto(m - 1)
        <4>1. \A j \in S : j <= m <=> j <= m - 1
          BY <1>2, <2>2
        <4>2. \A j : j \in upto(m) <=> j \in upto(m - 1)
          BY <1>3, <4>1
        <4>3. QED
          BY <4>2
      <3>2. QED
        BY <2>2, <3>1
    <2>3. CASE m \in S
      <3>1. upto(m) = upto(m - 1) \cup {m}
        <4>1. \A j \in S : j <= m <=> j <= m - 1 \/ j = m
          BY <1>2, <2>3
        <4>2. \A j : j \in upto(m) <=> j \in upto(m - 1) \/ j = m
          BY <1>3, <2>3, <4>1
        <4>3. QED
          BY <4>2
      <3>2. Cardinality(upto(m - 1) \cup {m})
              = IF m \in upto(m - 1) THEN count(m - 1) ELSE count(m - 1) + 1
        BY <1>4, FS_AddElement
      <3>3. count(m - 1) \in Nat
        BY <1>4
      <3>4. QED
        BY <2>3, <3>1, <3>2, <3>3
    <2>4. QED
      BY <2>2, <2>3
  <1> HIDE DEF count
  <1>7. k \in Nat /\ k > 0 /\ k <= Cardinality(S)
    BY <1>1
  <1>8. PICK m \in high : \A i \in high : m <= i
    <2>1. n \in high
      BY <1>1, <1>5, <1>7
    <2>2. high \in SUBSET Nat /\ high # {}
      BY <2>1
    <2>3. QED
      BY <2>2, LeastOfNaturals
  <1>9. m \in 1..n /\ count(m) >= k
    <2>1. m \in 0..n /\ count(m) >= k
      BY <1>8
    <2>2. m # 0
      BY <1>5, <1>7, <2>1
    <2>3. QED
      BY <2>1, <2>2
  <1>10. count(m - 1) < k
    <2>1. m - 1 \in 0..n /\ ~(m <= m - 1)
      BY <1>9
    <2>2. ~(count(m - 1) >= k)
      BY <1>8, <2>1
    <2>3. QED
      BY <1>4, <1>7, <2>2
  <1>11. m \in S /\ count(m) = k
    BY <1>4, <1>6, <1>7, <1>9, <1>10
  <1>12. QED
    BY <1>11 DEF count, upto

(* What is left of a sequence consists of what the kept positions hold.    *)
LEMMA SubsequenceSound ==
  ASSUME NEW T, NEW seq \in Seq(T), NEW S \in SUBSET DOMAIN seq
  PROVE  /\ Subsequence(seq, S) \in Seq(T)
         /\ \A k \in DOMAIN Subsequence(seq, S) :
              \E i \in S : Subsequence(seq, S)[k] = seq[i]
  <1> DEFINE at(k) == CHOOSE i \in S : Cardinality({j \in S : j <= i}) = k
             kept == [k \in 1..Cardinality(S) |-> seq[at(k)]]
  <1>1. S \in SUBSET (1..Len(seq)) /\ Len(seq) \in Nat
    OBVIOUS
  <1>2. Cardinality(S) \in Nat
    <2>1. IsFiniteSet(1..Len(seq))
      BY <1>1, FS_Interval
    <2>2. QED
      BY <1>1, <2>1, FS_Subset, FS_CardinalityType
  <1>3. \A k \in 1..Cardinality(S) : at(k) \in S
    BY <1>1, KeptPosition
  <1>4. \A i \in S : seq[i] \in T
    OBVIOUS
  <1>5. \A k \in 1..Cardinality(S) : kept[k] = seq[at(k)]
    OBVIOUS
  <1> HIDE DEF at
  <1>6. kept \in Seq(T)
    BY <1>2, <1>3, <1>4
  <1>7. DOMAIN kept = 1..Cardinality(S)
    OBVIOUS
  <1>8. Subsequence(seq, S) = kept
    BY DEF Subsequence, at
  <1> HIDE DEF kept
  <1>9. QED
    BY <1>3, <1>5, <1>6, <1>7, <1>8

(* A goroutine that uploads holds the index its entry is still at.         *)
HeldInv ==
  \A s \in Slots : Uploading(s) =>
    /\ processors[s].index \in DOMAIN importQueue
    /\ importQueue[processors[s].index].path = processors[s].path

(* An entry is marked as uploading while a goroutine uploads it.           *)
MarkedInv ==
  \A i \in DOMAIN importQueue :
    importQueue[i].status = "Uploading" <=>
      \E s \in Slots : Uploading(s) /\ processors[s].index = i

(* An entry is shown as imported when a daemon stores its file.            *)
StoredInv ==
  \A i \in DOMAIN importQueue :
    importQueue[i].status \in {"Imported", "Already imported"} =>
      \E d \in Daemons : importQueue[i].path \in stored[d]

(* One goroutine while the queue is marked as running, none otherwise.     *)
LoopInv ==
  /\ importQueueRunning =>
       \E s \in Slots : \A t \in Slots : Free(t) <=> t # s
  /\ ~importQueueRunning => \A s \in Slots : Free(s)

(* Counting the goroutines, as OneProcessor does.                          *)
LEMMA LoopCounted ==
  ASSUME NEW busy \in SUBSET Slots, NEW running \in BOOLEAN
  PROVE  Cardinality(busy) = (IF running THEN 1 ELSE 0) <=>
           /\ running =>
                \E s \in Slots : \A t \in Slots : t \in busy <=> t = s
           /\ ~running => \A s \in Slots : s \notin busy
  <1>1. IsFiniteSet(busy)
    <2>1. \A n \in Nat : IsFiniteSet(1..n)
      BY FS_Interval
    <2>2. IsFiniteSet(Slots)
      BY <2>1 DEF Slots
    <2>3. QED
      BY <2>2, FS_Subset
  <1>2. Cardinality(busy) = 1 <=> \E x : busy = {x}
    BY <1>1, FS_Singleton
  <1>3. Cardinality(busy) = 0 <=> busy = {}
    BY <1>1, FS_EmptySet
  <1>4. (\E x : busy = {x}) <=>
          \E s \in Slots : \A t \in Slots : t \in busy <=> t = s
    OBVIOUS
  <1>5. busy = {} <=> \A s \in Slots : s \notin busy
    OBVIOUS
  <1>6. QED
    BY <1>2, <1>3, <1>4, <1>5

(* The invariant is the conjunction of these parts.                        *)
LEMMA QueueInvIs ==
  QueueInv <=> /\ ConnectionInv /\ QueueTypes /\ AnswerInv /\ HeldInv
               /\ MarkedInv /\ StoredInv /\ LoopInv
  <1>1. QueueTypes => importQueueRunning \in BOOLEAN
    BY DEF QueueTypes
  <1>2. ASSUME importQueueRunning \in BOOLEAN
        PROVE  LoopInv <=> Cardinality({s \in Slots : ~Free(s)}) =
                             (IF importQueueRunning THEN 1 ELSE 0)
    <2>1. PICK busy \in SUBSET Slots : busy = {s \in Slots : ~Free(s)}
      OBVIOUS
    <2>2. PICK running \in BOOLEAN : running = importQueueRunning
      BY <1>2, Zenon
    <2>3. LoopInv <=>
            /\ running =>
                 \E s \in Slots : \A t \in Slots : t \in busy <=> t = s
            /\ ~running => \A s \in Slots : s \notin busy
      BY <2>1, <2>2 DEF LoopInv
    <2>4. QED
      BY <2>1, <2>2, <2>3, LoopCounted
  <1>3. QED
    BY <1>1, <1>2
       DEF QueueInv, OneProcessor, HeldInv, MarkedInv, StoredInv

(* The next state satisfies the invariant when it satisfies each part.     *)
LEMMA QueueInvNext ==
  ASSUME ConnectionInv', QueueTypes', AnswerInv', HeldInv', MarkedInv',
         StoredInv', LoopInv'
  PROVE  QueueInv'
  <1>1. importQueueRunning' \in BOOLEAN
    BY DEF QueueTypes
  <1>2. Cardinality({s \in Slots : ~Free(s)'}) =
          (IF importQueueRunning' THEN 1 ELSE 0)
    <2>1. PICK busy \in SUBSET Slots : busy = {s \in Slots : ~Free(s)'}
      OBVIOUS
    <2>2. PICK running \in BOOLEAN : running = importQueueRunning'
      BY <1>1, Zenon
    <2>3. /\ running =>
               \E s \in Slots : \A t \in Slots : t \in busy <=> t = s
          /\ ~running => \A s \in Slots : s \notin busy
      BY <2>1, <2>2 DEF LoopInv
    <2>4. QED
      BY <2>1, <2>2, <2>3, LoopCounted
  <1>3. QED
    BY <1>2 DEF QueueInv, OneProcessor, HeldInv, MarkedInv, StoredInv

(* What a processor that is at each point of its loop holds.               *)
LEMMA ProcessorShapes ==
  ASSUME QueueTypes, NEW s \in Slots
  PROVE  /\ processors[s] \in Processors
         /\ processors[s].at # "none" =>
              processors[s].connection \in Connections
         /\ Uploading(s) => /\ processors[s].index \in Nat
                            /\ processors[s].path \in Paths
         /\ processors[s].at \in {"answered", "finishing", "requeueing"} =>
              processors[s].status \in {"Imported", "Already imported",
                                        "Failed"}
  <1>1. processors[s] \in Processors
    BY DEF QueueTypes
  <1>2. PICK p : p = processors[s]
    OBVIOUS
  <1>3. CASE p = [at |-> "none"]
    BY <1>1, <1>2, <1>3 DEF Uploading
  <1>4. CASE p \in [at : {"check", "next", "stopping"},
                    connection : Connections]
    BY <1>1, <1>2, <1>4 DEF Uploading
  <1>5. CASE p \in [at : {"upload"}, connection : Connections, index : Nat,
                    path : Paths]
    BY <1>1, <1>2, <1>5 DEF Uploading
  <1>6. CASE p \in [at : {"answered", "finishing", "requeueing"},
                    connection : Connections, index : Nat, path : Paths,
                    status : {"Imported", "Already imported", "Failed"}]
    BY <1>1, <1>2, <1>6 DEF Uploading
  <1>7. QED
    BY <1>1, <1>2, <1>3, <1>4, <1>5, <1>6 DEF Processors

(* The processor s takes the record p; the others are as they were.        *)
LEMMA OneProcessorMoves ==
  ASSUME QueueTypes, NEW s \in Slots, NEW p \in Processors,
         processors' = [processors EXCEPT ![s] = p]
  PROVE  /\ processors' \in [Slots -> Processors] /\ processors'[s] = p
         /\ \A t \in Slots \ {s} : processors'[t] = processors[t]
  BY DEF QueueTypes

(* What a processor holds stays as it was, or it has nothing in hand.      *)
Kept(s) ==
  /\ Uploading(s)' <=> Uploading(s)
  /\ Uploading(s) => /\ processors'[s].index = processors[s].index
                     /\ processors'[s].path = processors[s].path

Quiet(s) ==
  \/ processors'[s] = processors[s]
  \/ ~Uploading(s) /\ ~Uploading(s)'

(* A queue that has the entries there are, failed ones perhaps queued      *)
(* again, and new ones after them.                                         *)
Grown(queue) ==
  /\ queue \in Seq(Entries) /\ Len(queue) >= Len(importQueue)
  /\ \A i \in DOMAIN importQueue :
       /\ queue[i].path = importQueue[i].path
       /\ \/ queue[i].status = importQueue[i].status
          \/ importQueue[i].status = "Failed" /\ queue[i].status = "Queued"
  /\ \A i \in DOMAIN queue \ DOMAIN importQueue : queue[i].status = "Queued"

(* What StartImportQueueProcessor may do.                                  *)
Starts ==
  \/ UNCHANGED <<importQueueRunning, processors>>
  \/ /\ ~importQueueRunning /\ importQueueRunning' = TRUE
     /\ \E c \in Connections : Spawn(c)

(* A queue that grows keeps what is marked, held and stored true.          *)
LEMMA QueueKept ==
  ASSUME QueueTypes, HeldInv, MarkedInv, StoredInv, Grown(importQueue'),
         \A s \in Slots : Kept(s),
         \A d \in Daemons : stored[d] \subseteq stored'[d]
  PROVE  HeldInv' /\ MarkedInv' /\ StoredInv'
  <1>1. /\ importQueue \in Seq(Entries)
        /\ \A i \in DOMAIN importQueue : i \in DOMAIN importQueue'
    BY DEF QueueTypes, Grown
  <1>2. HeldInv'
    BY <1>1 DEF HeldInv, Kept, Grown
  <1>3. MarkedInv'
    <2>1. ASSUME NEW i \in DOMAIN importQueue'
          PROVE  importQueue'[i].status = "Uploading" <=>
                   \E s \in Slots : Uploading(s)' /\ processors'[s].index = i
      <3>1. (\E s \in Slots : Uploading(s)' /\ processors'[s].index = i)
              <=> \E s \in Slots : Uploading(s) /\ processors[s].index = i
        BY DEF Kept
      <3>2. CASE i \in DOMAIN importQueue
        <4>1. importQueue'[i].status = "Uploading"
                <=> importQueue[i].status = "Uploading"
          BY <3>2 DEF Grown
        <4>2. QED
          BY <3>1, <3>2, <4>1 DEF MarkedInv
      <3>3. CASE i \notin DOMAIN importQueue
        <4>1. importQueue'[i].status = "Queued"
          BY <2>1, <3>3 DEF Grown
        <4>2. ~\E s \in Slots : Uploading(s) /\ processors[s].index = i
          BY <3>3 DEF HeldInv
        <4>3. QED
          BY <3>1, <4>1, <4>2
      <3>4. QED
        BY <3>2, <3>3
    <2>2. QED
      BY <2>1 DEF MarkedInv
  <1>4. StoredInv'
    BY DEF StoredInv, Grown
  <1>5. QED
    BY <1>2, <1>3, <1>4

(* The same with what a processor has in hand left alone.                  *)
LEMMA QueueQuiet ==
  ASSUME QueueTypes, HeldInv, MarkedInv, StoredInv, AnswerInv,
         Grown(importQueue'), \A s \in Slots : Quiet(s),
         \A d \in Daemons : stored[d] \subseteq stored'[d]
  PROVE  HeldInv' /\ MarkedInv' /\ StoredInv' /\ AnswerInv'
  <1>1. \A s \in Slots : Kept(s)
    BY DEF Kept, Quiet, Uploading
  <1>2. AnswerInv'
    <2>1. SUFFICES ASSUME NEW s \in Slots, Uploading(s)',
                          processors'[s].at
                            \in {"answered", "finishing", "requeueing"},
                          processors'[s].status # "Failed"
                   PROVE  processors'[s].path
                            \in stored'[processors'[s].connection.client]
      BY DEF AnswerInv, Uploading
    <2>2. processors'[s] = processors[s]
      BY <2>1 DEF Quiet
    <2>3. processors[s].connection.client \in Daemons
      BY <2>1, <2>2, ProcessorShapes DEF Connections
    <2>4. QED
      BY <2>1, <2>2, <2>3 DEF AnswerInv
  <1>3. QED
    BY <1>1, <1>2, QueueKept

(* The queue as it is, and StartImportQueueProcessor.                      *)
LEMMA QueueUnchangedGrown == QueueTypes => Grown(importQueue)
  BY DEF QueueTypes, Grown

(* StartImportQueueProcessor: a processor that starts finds none at work.  *)
LEMMA StartStep ==
  ASSUME QueueTypes, LoopInv, Starts
  PROVE  /\ processors' \in [Slots -> Processors]
         /\ importQueueRunning' \in BOOLEAN
         /\ LoopInv' /\ \A s \in Slots : Quiet(s)
  <1>1. CASE UNCHANGED <<importQueueRunning, processors>>
    <2>1. /\ processors' \in [Slots -> Processors]
          /\ \A s \in Slots : Quiet(s)
      <3>1. processors' = processors
        BY <1>1
      <3>2. processors \in [Slots -> Processors]
        BY DEF QueueTypes
      <3>3. \A s \in Slots : Quiet(s)
        BY <3>1 DEF Quiet
      <3>4. QED
        BY <3>1, <3>2, <3>3
    <2>2. importQueueRunning' \in BOOLEAN
      BY <1>1 DEF QueueTypes
    <2>3. LoopInv'
      BY <1>1 DEF LoopInv, Free
    <2>4. QED
      BY <2>1, <2>2, <2>3
  <1>2. ASSUME NEW c \in Connections, Spawn(c), ~importQueueRunning,
               importQueueRunning' = TRUE
        PROVE  /\ processors' \in [Slots -> Processors]
               /\ importQueueRunning' \in BOOLEAN
               /\ LoopInv' /\ \A s \in Slots : Quiet(s)
    <2> DEFINE s == CHOOSE x \in Slots : Free(x)
               p == [at |-> "check", connection |-> c]
    <2>1. \A t \in Slots : Free(t)
      BY <1>2 DEF LoopInv
    <2>2. s \in Slots
      <3>1. \E x \in Slots : Free(x)
        BY <2>1 DEF Slots
      <3>2. QED
        BY <3>1
    <2>3. p \in Processors /\ p.at = "check"
      BY DEF Processors
    <2>4. processors' = [processors EXCEPT ![s] = p]
      BY <1>2 DEF Spawn
    <2> HIDE DEF s, p
    <2>5. /\ processors' \in [Slots -> Processors] /\ processors'[s] = p
          /\ \A t \in Slots \ {s} : processors'[t] = processors[t]
      BY <2>2, <2>3, <2>4, OneProcessorMoves
    <2>6. LoopInv'
      <3>1. \A t \in Slots : Free(t)' <=> t # s
        BY <2>1, <2>3, <2>5 DEF Free
      <3>2. QED
        BY <1>2, <2>2, <3>1 DEF LoopInv
    <2>7. \A t \in Slots : Quiet(t)
      BY <2>1, <2>3, <2>5 DEF Free, Quiet, Uploading
    <2>8. QED
      BY <1>2, <2>5, <2>6, <2>7
  <1>3. QED
    BY <1>1, <1>2 DEF Starts

(* A step that leaves the goroutines to StartImportQueueProcessor and does *)
(* not take entries from the queue.                                        *)
LEMMA GrowStep ==
  ASSUME QueueInv, ConnectionInv', Grown(importQueue'), Starts,
         selectedQueueIndex' \in 0..Len(importQueue'),
         expanding' \subseteq Sources, UNCHANGED stored
  PROVE  QueueInv'
  <1>1. /\ QueueTypes /\ AnswerInv /\ HeldInv /\ MarkedInv /\ StoredInv
        /\ LoopInv
    BY QueueInvIs
  <1>2. /\ processors' \in [Slots -> Processors]
        /\ importQueueRunning' \in BOOLEAN
        /\ LoopInv' /\ \A s \in Slots : Quiet(s)
    BY <1>1, StartStep
  <1>3. HeldInv' /\ MarkedInv' /\ StoredInv' /\ AnswerInv'
    BY <1>1, <1>2, QueueQuiet
  <1>4. QueueTypes'
    BY <1>1, <1>2 DEF QueueTypes, Grown
  <1>5. QED
    BY <1>2, <1>3, <1>4, QueueInvNext

(* retryImportQueueEntry queues a failed entry again.                      *)
LEMMA EntryRetried ==
  ASSUME NEW e \in Entries
  PROVE  /\ retryImportQueueEntry(e) \in Entries
         /\ retryImportQueueEntry(e).path = e.path
         /\ \/ retryImportQueueEntry(e).status = e.status
            \/ /\ e.status = "Failed"
               /\ retryImportQueueEntry(e).status = "Queued"
  BY DEF retryImportQueueEntry, canRetryImportQueueEntry, Entries, Statuses

(* Queueing some entries again, and the queue as it is.                    *)
LEMMA RetryGrows ==
  ASSUME QueueTypes, NEW S,
         NEW queue, queue = [i \in DOMAIN importQueue |->
           IF i \in S THEN retryImportQueueEntry(importQueue[i])
           ELSE importQueue[i]]
  PROVE  Grown(queue) /\ Len(queue) = Len(importQueue)
  <1>1. importQueue \in Seq(Entries)
    BY DEF QueueTypes
  <1>2. \A i \in DOMAIN importQueue :
          /\ queue[i] \in Entries /\ queue[i].path = importQueue[i].path
          /\ \/ queue[i].status = importQueue[i].status
             \/ importQueue[i].status = "Failed" /\ queue[i].status = "Queued"
    BY <1>1, EntryRetried
  <1>3. DOMAIN queue = 1..Len(importQueue) /\ Len(importQueue) \in Nat
    BY <1>1
  <1>4. queue \in Seq(Entries) /\ Len(queue) = Len(importQueue)
    BY <1>1, <1>2, <1>3
  <1>5. QED
    BY <1>1, <1>2, <1>3, <1>4 DEF Grown

(* appendImportQueueEntries: the entries there are, then the new ones.     *)
LEMMA AppendGrows ==
  ASSUME QueueTypes, NEW paths \in Seq(Paths)
  PROVE  Grown(appendImportQueueEntries(paths))
  <1> DEFINE at(k) == findImportQueueEntryByPath(importQueue, paths[k])
             kept == {k \in DOMAIN paths : at(k) = 0}
             again == {i \in DOMAIN importQueue :
                         \E k \in DOMAIN paths : at(k) = i}
  <1>1. PICK old : old = QueuedAgain(paths)
    OBVIOUS
  <1>2. PICK new : new = Subsequence(paths, kept)
    OBVIOUS
  <1>3. PICK added : added = [k \in DOMAIN new |->
                                [path |-> new[k], status |-> "Queued"]]
    OBVIOUS
  <1>4. appendImportQueueEntries(paths) = old \o added
    BY <1>1, <1>2, <1>3 DEF appendImportQueueEntries
  <1>5. Grown(old) /\ Len(old) = Len(importQueue)
    <2>1. PICK S : S = again
      OBVIOUS
    <2>2. old = [i \in DOMAIN importQueue |->
                   IF i \in S THEN retryImportQueueEntry(importQueue[i])
                   ELSE importQueue[i]]
      BY <1>1, <2>1 DEF QueuedAgain
    <2>3. QED
      BY <2>2, RetryGrows
  <1>6. new \in Seq(Paths)
    <2>1. kept \in SUBSET DOMAIN paths
      OBVIOUS
    <2>2. PICK K \in SUBSET DOMAIN paths : K = kept
      BY <2>1
    <2>3. QED
      BY <1>2, <2>2, SubsequenceSound
  <1>7. /\ added \in Seq(Entries)
        /\ \A k \in DOMAIN added : added[k].status = "Queued"
    <2>1. \A k \in DOMAIN new :
            [path |-> new[k], status |-> "Queued"] \in Entries
      BY <1>6 DEF Entries, Statuses
    <2>2. QED
      BY <1>3, <1>6, <2>1
  <1>8. importQueue \in Seq(Entries) /\ old \in Seq(Entries)
    BY <1>5 DEF QueueTypes, Grown
  <1>9. PICK all : all = old \o added
    OBVIOUS
  <1>10. /\ all \in Seq(Entries) /\ Len(all) >= Len(importQueue)
         /\ \A i \in DOMAIN importQueue : all[i] = old[i]
         /\ \A i \in DOMAIN all \ DOMAIN importQueue :
              \E k \in DOMAIN added : all[i] = added[k]
    <2>1. /\ all \in Seq(Entries) /\ Len(all) = Len(old) + Len(added)
          /\ Len(old) \in Nat /\ Len(added) \in Nat
      BY <1>7, <1>8, <1>9
    <2>2. \A i \in 1..Len(old) : all[i] = old[i]
      BY <1>7, <1>8, <1>9, <2>1
    <2>3. \A i \in 1..Len(all) \ 1..Len(old) :
            /\ i - Len(old) \in 1..Len(added)
            /\ all[i] = added[i - Len(old)]
      BY <1>7, <1>8, <1>9, <2>1
    <2>4. /\ DOMAIN importQueue = 1..Len(old) /\ DOMAIN all = 1..Len(all)
          /\ DOMAIN added = 1..Len(added)
      BY <1>5, <1>7, <1>8, <2>1
    <2>5. QED
      BY <1>5, <2>1, <2>2, <2>3, <2>4
  <1>11. Grown(all)
    <2>1. \A i \in DOMAIN importQueue :
            /\ all[i].path = importQueue[i].path
            /\ \/ all[i].status = importQueue[i].status
               \/ importQueue[i].status = "Failed" /\ all[i].status = "Queued"
      BY <1>5, <1>10 DEF Grown
    <2>2. \A i \in DOMAIN all \ DOMAIN importQueue : all[i].status = "Queued"
      BY <1>7, <1>10
    <2>3. QED
      BY <1>10, <2>1, <2>2 DEF Grown
  <1>12. QED
    BY <1>4, <1>9, <1>11

(* The selection a step leaves is inside the queue it leaves.              *)
LEMMA SelectionInside ==
  ASSUME NEW queue \in Seq(Entries), NEW n \in Nat
  PROVE  normalizeImportQueueSelection(n, Len(queue)) \in 0..Len(queue)
  BY DEF normalizeImportQueueSelection

(* A handler that leaves a grown queue and starts a processor over the     *)
(* connection there is.                                                    *)
LEMMA StartHere ==
  ASSUME QueueInv, NEW queue,
         StartImportQueueProcessor(queue, Online, currentConnection)
  PROVE  Starts
  <1>1. CASE UNCHANGED <<importQueueRunning, processors>>
    BY <1>1 DEF Starts
  <1>2. CASE /\ Online /\ ~importQueueRunning /\ importQueueRunning' = TRUE
             /\ Spawn(currentConnection)
    <2>1. PICK c : c = currentConnection
      OBVIOUS
    <2>2. c \in Connections
      <3>1. ConnectionInv /\ connected
        BY <1>2, QueueInvIs DEF Online
      <3>2. QED
        BY <2>1, <3>1, SnapshotTaken DEF Snapshot
    <2>3. QED
      BY <1>2, <2>1, <2>2 DEF Starts
  <1>3. QED
    BY <1>1, <1>2 DEF StartImportQueueProcessor

(* The user chooses files, selects an entry, or retries; the expansion     *)
(* and the closure of a processor that stopped.                            *)
LEMMA QueueUserSteps ==
  ASSUME QueueInv,
         \/ \E source \in Sources : QueueImportSources(source)
         \/ \E i \in DOMAIN importQueue : SelectImportQueueEntry(i)
         \/ UnselectImportQueueEntry
         \/ RetrySelectedQueueEntry \/ RetryFailedQueueEntries
         \/ \E source \in expanding : SelectionExpanded(source)
         \/ PausedClosure
  PROVE  QueueInv'
  <1>1. QueueTypes /\ ConnectionInv
    BY QueueInvIs
  <1>2. /\ importQueue \in Seq(Entries) /\ expanding \subseteq Sources
        /\ selectedQueueIndex \in 0..Len(importQueue)
    BY <1>1 DEF QueueTypes
  <1>3. UNCHANGED connectionVars /\ UNCHANGED stored
    BY DEF QueueImportSources, SelectImportQueueEntry,
           UnselectImportQueueEntry, RetrySelectedQueueEntry,
           RetryFailedQueueEntries, Retry, SelectionExpanded, PausedClosure
  <1>4. ConnectionInv'
    BY <1>1, <1>3, ConnectionUnchanged
  <1>5. Grown(importQueue)
    BY <1>1, QueueUnchangedGrown
  <1>6. CASE \/ \E source \in Sources : QueueImportSources(source)
             \/ \E i \in DOMAIN importQueue : SelectImportQueueEntry(i)
             \/ UnselectImportQueueEntry
    <2>1. /\ UNCHANGED <<importQueue, importQueueRunning, processors>>
          /\ expanding' \subseteq Sources
      BY <1>2, <1>6 DEF QueueImportSources, SelectImportQueueEntry,
                        UnselectImportQueueEntry
    <2>2. selectedQueueIndex' \in 0..Len(importQueue)
      BY <1>2, <1>6 DEF QueueImportSources, SelectImportQueueEntry,
                        UnselectImportQueueEntry
    <2>3. Starts
      BY <2>1 DEF Starts
    <2>4. Grown(importQueue') /\ selectedQueueIndex' \in 0..Len(importQueue')
      BY <1>5, <2>1, <2>2 DEF Grown
    <2>5. QED
      BY <1>3, <1>4, <2>1, <2>3, <2>4, GrowStep
  <1>7. ASSUME NEW queue, Grown(queue), importQueue' = queue,
               Render(queue, selectedQueueIndex), Starts,
               expanding' \subseteq Sources
        PROVE  QueueInv'
    <2>1. PICK n \in Nat : n = selectedQueueIndex
      BY <1>2
    <2>2. queue \in Seq(Entries)
      BY <1>7 DEF Grown
    <2>3. selectedQueueIndex' \in 0..Len(queue)
      BY <1>7, <2>1, <2>2, SelectionInside DEF Render
    <2>4. Grown(importQueue')
      BY <1>7
    <2>5. QED
      BY <1>3, <1>4, <1>7, <2>3, <2>4, GrowStep
  <1>8. CASE PausedClosure
    <2>1. PICK queue : queue = importQueue
      OBVIOUS
    <2>2. StartImportQueueProcessor(queue, Online, currentConnection)
      BY <1>8, <2>1 DEF PausedClosure
    <2>3. /\ importQueue' = queue /\ Render(queue, selectedQueueIndex)
          /\ expanding' \subseteq Sources
      BY <1>2, <1>8, <2>1 DEF PausedClosure
    <2>4. Grown(queue)
      BY <1>5, <2>1
    <2>5. QED
      BY <1>7, <2>2, <2>3, <2>4, StartHere
  <1>9. ASSUME NEW S, NEW queue, Retry(queue),
               queue = [i \in DOMAIN importQueue |->
                          IF i \in S THEN retryImportQueueEntry(importQueue[i])
                          ELSE importQueue[i]]
        PROVE  QueueInv'
    <2>1. Grown(queue)
      BY <1>1, <1>9, RetryGrows
    <2>2. StartImportQueueProcessor(queue, Online, currentConnection)
      BY <1>9 DEF Retry
    <2>3. /\ importQueue' = queue /\ Render(queue, selectedQueueIndex)
          /\ expanding' \subseteq Sources
      BY <1>2, <1>9 DEF Retry
    <2>4. QED
      BY <1>7, <2>1, <2>2, <2>3, StartHere
  <1>10. CASE RetrySelectedQueueEntry
    <2>1. PICK n : n = selectedQueueIndex
      OBVIOUS
    <2>2. PICK queue : queue =
            [importQueue EXCEPT ![n] = retryImportQueueEntry(importQueue[n])]
      OBVIOUS
    <2>3. Retry(queue)
      BY <1>10, <2>1, <2>2 DEF RetrySelectedQueueEntry
    <2>4. queue = [i \in DOMAIN importQueue |->
                     IF i \in {n} THEN retryImportQueueEntry(importQueue[i])
                     ELSE importQueue[i]]
      BY <2>2
    <2>5. QED
      BY <1>9, <2>3, <2>4
  <1>11. CASE RetryFailedQueueEntries
    <2>1. PICK S : S = DOMAIN importQueue
      OBVIOUS
    <2>2. PICK queue : queue = retryFailedImportQueueEntries(importQueue)
      OBVIOUS
    <2>3. Retry(queue)
      BY <1>11, <2>2 DEF RetryFailedQueueEntries
    <2>4. queue = [i \in DOMAIN importQueue |->
                     IF i \in S THEN retryImportQueueEntry(importQueue[i])
                     ELSE importQueue[i]]
      BY <2>1, <2>2 DEF retryFailedImportQueueEntries
    <2>5. QED
      BY <1>9, <2>3, <2>4
  <1>12. ASSUME NEW source \in expanding, SelectionExpanded(source)
         PROVE  QueueInv'
    <2>1. PICK paths : paths = expandImportSelection(source)
      OBVIOUS
    <2>2. paths \in Seq(Paths)
      <3>1. source \in Sources
        BY <1>2
      <3>2. Contents[source] \in Seq(Paths)
        BY <3>1, QueueAssumption
      <3>3. PICK S \in SUBSET DOMAIN Contents[source] :
              S = {i \in DOMAIN Contents[source] :
                     \A j \in 1..i - 1 :
                       Contents[source][j] # Contents[source][i]}
        OBVIOUS
      <3>4. Subsequence(Contents[source], S) \in Seq(Paths)
        BY <3>2, SubsequenceSound
      <3>5. QED
        BY <2>1, <3>3, <3>4 DEF expandImportSelection
    <2>3. PICK queue : queue = appendImportQueueEntries(paths)
      OBVIOUS
    <2>4. Grown(queue)
      BY <1>1, <2>2, <2>3, AppendGrows
    <2>5. StartImportQueueProcessor(queue, Online, currentConnection)
      BY <1>12, <2>1, <2>3 DEF SelectionExpanded
    <2>6. /\ importQueue' = queue /\ Render(queue, selectedQueueIndex)
          /\ expanding' \subseteq Sources
      BY <1>2, <1>12, <2>1, <2>3 DEF SelectionExpanded
    <2>7. QED
      BY <1>7, <2>4, <2>5, <2>6, StartHere
  <1>13. QED
    BY <1>6, <1>8, <1>10, <1>11, <1>12

(* Entries leave the queue while nobody holds an index into it.            *)
LEMMA ShrinkStep ==
  ASSUME QueueInv, NEW queue \in Seq(Entries), NEW n \in Nat,
         Shrink(queue, n),
         \A k \in DOMAIN queue :
           \E i \in DOMAIN importQueue : queue[k] = importQueue[i]
  PROVE  QueueInv'
  <1>1. /\ ConnectionInv /\ QueueTypes /\ HeldInv /\ MarkedInv
        /\ StoredInv /\ LoopInv
    BY QueueInvIs
  <1>2. /\ ~importQueueRunning /\ importQueue' = queue /\ Render(queue, n)
        /\ UNCHANGED <<importQueueRunning, expanding, processors, stored>>
        /\ UNCHANGED connectionVars
    BY DEF Shrink
  <1>3. ConnectionInv'
    BY <1>1, <1>2, ConnectionUnchanged
  <1>4. QueueTypes'
    <2>1. selectedQueueIndex' \in 0..Len(queue)
      BY <1>2, SelectionInside DEF Render
    <2>2. /\ expanding' \subseteq Sources
          /\ processors' \in [Slots -> Processors]
          /\ stored' \in [Daemons -> SUBSET Paths]
      BY <1>1, <1>2 DEF QueueTypes
    <2>3. importQueueRunning' \in BOOLEAN
      BY <1>1, <1>2 DEF QueueTypes
    <2>4. QED
      BY <1>2, <2>1, <2>2, <2>3 DEF QueueTypes
  <1>5. /\ \A s \in Slots : Free(s)
        /\ \A s \in Slots : processors'[s].at = "none"
    BY <1>1, <1>2 DEF LoopInv, Free
  <1>6. \A s \in Slots : ~Uploading(s) /\ ~Uploading(s)'
    BY <1>5 DEF Free, Uploading
  <1>7. LoopInv'
    BY <1>2, <1>5 DEF LoopInv, Free
  <1>8. HeldInv' /\ AnswerInv'
    BY <1>5, <1>6 DEF HeldInv, AnswerInv
  <1>9. MarkedInv'
    BY <1>1, <1>2, <1>6 DEF MarkedInv
  <1>10. StoredInv'
    BY <1>1, <1>2 DEF StoredInv
  <1>11. QED
    BY <1>3, <1>4, <1>7, <1>8, <1>9, <1>10, QueueInvNext

(* What keeping some positions of the queue leaves are entries of it.      *)
LEMMA QueueShrunk ==
  ASSUME QueueTypes, NEW S \in SUBSET DOMAIN importQueue,
         NEW queue, queue = Subsequence(importQueue, S)
  PROVE  /\ queue \in Seq(Entries)
         /\ \A k \in DOMAIN queue :
              \E i \in DOMAIN importQueue : queue[k] = importQueue[i]
  <1>1. importQueue \in Seq(Entries)
    BY DEF QueueTypes
  <1>2. PICK entries \in Seq(Entries) : entries = importQueue
    BY <1>1
  <1>3. QED
    BY <1>2, SubsequenceSound

(* The index selectedImportQueueIndex gives is a natural number.           *)
LEMMA SelectionFound ==
  ASSUME NEW entries \in Seq(Entries), NEW path, NEW n \in Nat
  PROVE  selectedImportQueueIndex(entries, path, n) \in Nat
  <1> DEFINE at == {i \in DOMAIN entries : entries[i].path = path}
  <1>1. findImportQueueEntryByPath(entries, path) \in Nat
    <2>1. CASE at = {}
      BY <2>1 DEF findImportQueueEntryByPath
    <2>2. CASE at # {}
      <3>1. at \in SUBSET Nat
        OBVIOUS
      <3>2. \E i \in at : \A j \in at : i <= j
        BY <2>2, <3>1, LeastOfNaturals
      <3>3. findImportQueueEntryByPath(entries, path)
              = CHOOSE i \in at : \A j \in at : i <= j
        BY <2>2 DEF findImportQueueEntryByPath
      <3>4. QED
        BY <3>1, <3>2, <3>3
    <2>3. QED
      BY <2>1, <2>2
  <1>2. normalizeImportQueueSelection(n, Len(entries)) \in Nat
    BY DEF normalizeImportQueueSelection
  <1>3. QED
    BY <1>1, <1>2 DEF selectedImportQueueIndex

(* The user removes an entry, the finished entries, or all of them.        *)
LEMMA QueueShrinks ==
  ASSUME QueueInv,
         \/ RemoveSelectedQueueEntry \/ ClearFinishedQueueEntries
         \/ ClearImportQueue
  PROVE  QueueInv'
  <1>1. QueueTypes
    BY QueueInvIs
  <1>2. /\ importQueue \in Seq(Entries)
        /\ selectedQueueIndex \in 0..Len(importQueue)
    BY <1>1 DEF QueueTypes
  <1>3. PICK n \in Nat : n = selectedQueueIndex
    BY <1>2
  <1>4. CASE RemoveSelectedQueueEntry
    <2>1. PICK S \in SUBSET DOMAIN importQueue :
            S = DOMAIN importQueue \ {n}
      OBVIOUS
    <2>2. PICK queue : queue = Subsequence(importQueue, S)
      OBVIOUS
    <2>3. Shrink(queue, n)
      BY <1>3, <1>4, <2>1, <2>2
         DEF RemoveSelectedQueueEntry, removeImportQueueEntry
    <2>4. QED
      BY <1>1, <2>2, <2>3, QueueShrunk, ShrinkStep
  <1>5. CASE ClearFinishedQueueEntries
    <2>1. PICK S \in SUBSET DOMAIN importQueue :
            S = {i \in DOMAIN importQueue :
                   ~isFinishedImportQueueEntry(importQueue[i])}
      OBVIOUS
    <2>2. PICK queue : queue = Subsequence(importQueue, S)
      OBVIOUS
    <2>3. PICK path : path = IF selectedQueueIndex = 0 THEN NoDaemon
                             ELSE importQueue[selectedQueueIndex].path
      OBVIOUS
    <2>4. PICK m : m = selectedImportQueueIndex(queue, path, n)
      OBVIOUS
    <2>5. Shrink(queue, m)
      BY <1>3, <1>5, <2>1, <2>2, <2>3, <2>4
         DEF ClearFinishedQueueEntries, clearFinishedImportQueueEntries
    <2>6. /\ queue \in Seq(Entries)
          /\ \A k \in DOMAIN queue :
               \E i \in DOMAIN importQueue : queue[k] = importQueue[i]
      BY <1>1, <2>2, QueueShrunk
    <2>7. m \in Nat
      BY <2>4, <2>6, SelectionFound
    <2>8. QED
      BY <2>5, <2>6, <2>7, ShrinkStep
  <1>6. CASE ClearImportQueue
    <2>1. /\ <<>> \in Seq(Entries) /\ DOMAIN <<>> = {} /\ 0 \in Nat
          /\ Shrink(<<>>, 0)
      BY <1>6 DEF ClearImportQueue
    <2>2. PICK queue : queue = <<>>
      OBVIOUS
    <2>3. QED
      BY <2>1, <2>2, ShrinkStep
  <1>7. QED
    BY <1>4, <1>5, <1>6

(* The goroutine that is in the loop is the only one.                      *)
LEMMA OnlyProcessor ==
  ASSUME LoopInv, NEW s \in Slots, ~Free(s)
  PROVE  importQueueRunning /\ \A t \in Slots : Free(t) <=> t # s
  <1>1. importQueueRunning
    BY DEF LoopInv
  <1>2. QED
    BY <1>1 DEF LoopInv

(* A step of one goroutine that leaves the queue as it is.                 *)
LEMMA QuietMove ==
  ASSUME QueueInv, NEW s \in Slots, NEW p \in Processors,
         processors' = [processors EXCEPT ![s] = p],
         ~Uploading(s), p.at \in {"none", "check", "next", "stopping"},
         ~Free(s), importQueueRunning' = (p.at # "none"),
         UNCHANGED <<importQueue, selectedQueueIndex, expanding, stored>>,
         UNCHANGED connectionVars
  PROVE  QueueInv'
  <1>1. /\ ConnectionInv /\ QueueTypes /\ AnswerInv /\ HeldInv
        /\ MarkedInv /\ StoredInv /\ LoopInv
    BY QueueInvIs
  <1>2. ConnectionInv'
    BY <1>1, ConnectionUnchanged
  <1>3. /\ processors' \in [Slots -> Processors] /\ processors'[s] = p
        /\ \A t \in Slots \ {s} : processors'[t] = processors[t]
    BY <1>1, OneProcessorMoves
  <1>4. \A t \in Slots : Quiet(t)
    BY <1>3 DEF Quiet, Uploading
  <1>5. importQueue' = importQueue
    OBVIOUS
  <1>6. Grown(importQueue')
    BY <1>1, <1>5, QueueUnchangedGrown DEF Grown
  <1>7. HeldInv' /\ MarkedInv' /\ StoredInv' /\ AnswerInv'
    BY <1>1, <1>4, <1>6, QueueQuiet
  <1>8. \A t \in Slots : Free(t) <=> t # s
    BY <1>1, OnlyProcessor
  <1>9. LoopInv'
    <2>1. \A t \in Slots \ {s} : Free(t)'
      BY <1>3, <1>8 DEF Free
    <2>2. Free(s)' <=> p.at = "none"
      BY <1>3 DEF Free
    <2>3. importQueueRunning' <=> p.at # "none"
      OBVIOUS
    <2>4. QED
      BY <2>1, <2>2, <2>3 DEF LoopInv
  <1>10. QueueTypes'
    <2>1. importQueueRunning' \in BOOLEAN
      OBVIOUS
    <2>2. QED
      BY <1>1, <1>3, <2>1 DEF QueueTypes
  <1>11. QED
    BY <1>2, <1>7, <1>9, <1>10, QueueInvNext

(* The goroutine looks for more work, stops, or ends.                      *)
LEMMA LoopSteps ==
  ASSUME QueueInv, NEW s \in Slots,
         \/ CheckConnection(s) \/ PauseProcessor(s)
         \/ BeginNextImportQueueEntry(s) /\ End(s)
  PROVE  QueueInv'
  <1>1. QueueTypes /\ LoopInv
    BY QueueInvIs
  <1>2. processors[s].at \in {"check", "next", "stopping"}
    BY DEF CheckConnection, PauseProcessor, BeginNextImportQueueEntry
  <1>3. ~Uploading(s) /\ ~Free(s) /\ processors[s].at # "none"
    BY <1>2 DEF Uploading, Free
  <1>4. importQueueRunning
    BY <1>1, <1>3, OnlyProcessor
  <1>5. processors[s] \in [at : {"check", "next", "stopping"},
                           connection : Connections]
    <2>1. PICK p : p = processors[s]
      OBVIOUS
    <2>2. p \in Processors /\ p.at \in {"check", "next", "stopping"}
      BY <1>1, <1>2, <2>1, ProcessorShapes
    <2>3. CASE p = [at |-> "none"]
      BY <2>2, <2>3
    <2>4. CASE p \in [at : {"check", "next", "stopping"},
                      connection : Connections]
      BY <2>1, <2>4
    <2>5. CASE p \in [at : {"upload"}, connection : Connections, index : Nat,
                      path : Paths]
      BY <2>2, <2>5
    <2>6. CASE p \in [at : {"answered", "finishing", "requeueing"},
                      connection : Connections, index : Nat, path : Paths,
                      status : {"Imported", "Already imported", "Failed"}]
      BY <2>2, <2>6
    <2>7. QED
      BY <2>2, <2>3, <2>4, <2>5, <2>6 DEF Processors
  <1>6. CASE CheckConnection(s)
    <2>1. PICK at \in {"next", "stopping"} : MoveProcessor(s, at)
      BY <1>6 DEF CheckConnection
    <2>2. PICK p : p = [processors[s] EXCEPT !.at = at]
      OBVIOUS
    <2>3. p \in Processors /\ p.at = at
      BY <1>5, <2>2 DEF Processors
    <2>4. processors' = [processors EXCEPT ![s] = p]
      BY <1>1, <2>1, <2>2 DEF MoveProcessor, QueueTypes
    <2>5. /\ UNCHANGED <<importQueue, importQueueRunning, selectedQueueIndex,
                         expanding, stored>>
          /\ UNCHANGED connectionVars
      BY <1>6 DEF CheckConnection
    <2>6. importQueueRunning' = (p.at # "none")
      <3>1. importQueueRunning' = TRUE
        <4>1. importQueueRunning \in BOOLEAN
          BY <1>1 DEF QueueTypes
        <4>2. QED
          BY <1>4, <2>5, <4>1, Zenon
      <3>2. QED
        BY <2>3, <3>1
    <2>7. QED
      BY <1>3, <2>3, <2>4, <2>5, <2>6, QuietMove
  <1>7. ASSUME End(s), importQueueRunning' = FALSE,
               UNCHANGED <<importQueue, selectedQueueIndex, expanding, stored>>,
               UNCHANGED connectionVars
        PROVE  QueueInv'
    <2> DEFINE p == [at |-> "none"]
    <2>1. p \in Processors /\ p.at = "none"
      BY DEF Processors
    <2>2. processors' = [processors EXCEPT ![s] = p]
      BY <1>7 DEF End
    <2> HIDE DEF p
    <2>3. importQueueRunning' = (p.at # "none")
      BY <1>7, <2>1
    <2>4. QED
      BY <1>3, <1>7, <2>1, <2>2, <2>3, QuietMove
  <1>8. CASE PauseProcessor(s)
    BY <1>7, <1>8 DEF PauseProcessor
  <1>9. CASE BeginNextImportQueueEntry(s) /\ End(s)
    <2>1. processors'[s].at = "none"
      BY <1>1, <1>9 DEF End, QueueTypes
    <2>2. /\ importQueueRunning' = FALSE /\ UNCHANGED importQueue
          /\ UNCHANGED <<selectedQueueIndex, expanding, stored>>
          /\ UNCHANGED connectionVars
      BY <1>1, <1>9, <2>1 DEF BeginNextImportQueueEntry, QueueTypes
    <2>3. QED
      BY <1>7, <1>9, <2>2
  <1>10. QED
    BY <1>6, <1>8, <1>9

(* One entry of the queue takes a new status and keeps its path.           *)
LEMMA EntryMarked ==
  ASSUME QueueTypes, NEW i \in DOMAIN importQueue,
         NEW new \in Statuses,
         importQueue' = [importQueue EXCEPT ![i].status = new]
  PROVE  /\ importQueue' \in Seq(Entries)
         /\ DOMAIN importQueue' = DOMAIN importQueue
         /\ Len(importQueue') = Len(importQueue)
         /\ \A j \in DOMAIN importQueue :
              /\ importQueue'[j].path = importQueue[j].path
              /\ importQueue'[j].status =
                   IF j = i THEN new ELSE importQueue[j].status
  <1>1. importQueue \in Seq(Entries)
    BY DEF QueueTypes
  <1>2. i \in 1..Len(importQueue) /\ Len(importQueue) \in Nat
    BY <1>1
  <1>3. PICK d \in Entries : d = importQueue[i]
    BY <1>1, <1>2
  <1>4. PICK e : e = [d EXCEPT !.status = new]
    OBVIOUS
  <1>5. e \in Entries /\ e.path = importQueue[i].path /\ e.status = new
    BY <1>3, <1>4 DEF Entries, Statuses
  <1>6. importQueue' = [importQueue EXCEPT ![i] = e]
    BY <1>1, <1>2, <1>3, <1>4
  <1>7. QED
    BY <1>1, <1>2, <1>5, <1>6

(* beginNextImportQueueEntry: the first queued entry is marked and held.   *)
LEMMA BeginUpload ==
  ASSUME QueueInv, NEW s \in Slots, BeginNextImportQueueEntry(s), ~End(s)
  PROVE  QueueInv'
  <1>1. /\ ConnectionInv /\ QueueTypes /\ AnswerInv /\ HeldInv
        /\ MarkedInv /\ StoredInv /\ LoopInv
    BY QueueInvIs
  <1>2. processors[s].at = "next"
    BY DEF BeginNextImportQueueEntry
  <1>3. /\ ~Uploading(s) /\ ~Free(s)
        /\ processors[s].connection \in Connections
    BY <1>1, <1>2, ProcessorShapes DEF Uploading, Free
  <1>4. importQueueRunning /\ \A t \in Slots : Free(t) <=> t # s
    BY <1>1, <1>3, OnlyProcessor
  <1> DEFINE queued == {i \in DOMAIN importQueue :
                          importQueue[i].status = "Queued"}
  <1>5. PICK i : i = CHOOSE x \in queued : \A y \in queued : x <= y
    OBVIOUS
  <1>6. /\ queued # {}
        /\ importQueue' = [importQueue EXCEPT ![i].status = "Uploading"]
        /\ processors' = [processors EXCEPT
             ![s] = [at |-> "upload", connection |-> processors[s].connection,
                     index |-> i, path |-> importQueue[i].path]]
        /\ UNCHANGED importQueueRunning
        /\ UNCHANGED <<selectedQueueIndex, expanding, stored>>
        /\ UNCHANGED connectionVars
    BY <1>5 DEF BeginNextImportQueueEntry
  <1>7. importQueue \in Seq(Entries)
    BY <1>1 DEF QueueTypes
  <1>8. i \in queued
    <2>1. queued \in SUBSET Nat
      BY <1>7
    <2>2. QED
      BY <1>5, <1>6, <2>1, LeastOfNaturals
  <1>9. i \in DOMAIN importQueue /\ i \in Nat
    BY <1>7, <1>8
  <1> HIDE DEF queued
  <1>10. PICK p : p = [at |-> "upload",
                       connection |-> processors[s].connection,
                       index |-> i, path |-> importQueue[i].path]
    OBVIOUS
  <1>11. /\ p.at = "upload" /\ p.index = i
         /\ p.path = importQueue[i].path /\ p.path \in Paths
    <2>1. importQueue[i] \in Entries
      BY <1>7, <1>9
    <2>2. importQueue[i].path \in Paths
      BY <2>1 DEF Entries, Statuses
    <2>3. QED
      BY <1>10, <2>2
  <1>12. p \in Processors
    BY <1>3, <1>9, <1>10, <1>11 DEF Processors
  <1>13. /\ processors' \in [Slots -> Processors] /\ processors'[s] = p
         /\ \A t \in Slots \ {s} : processors'[t] = processors[t]
    BY <1>1, <1>6, <1>10, <1>12, OneProcessorMoves
  <1>14. /\ \A t \in Slots \ {s} : Free(t) /\ Free(t)'
         /\ Uploading(s)' /\ ~Free(s)'
    BY <1>4, <1>11, <1>13 DEF Free, Uploading
  <1>15. \A t \in Slots \ {s} : ~Uploading(t) /\ ~Uploading(t)'
    BY <1>14 DEF Free, Uploading
  <1>16. /\ importQueue' \in Seq(Entries)
         /\ DOMAIN importQueue' = DOMAIN importQueue
         /\ Len(importQueue') = Len(importQueue)
         /\ \A j \in DOMAIN importQueue :
              /\ importQueue'[j].path = importQueue[j].path
              /\ importQueue'[j].status =
                   IF j = i THEN "Uploading" ELSE importQueue[j].status
    BY <1>1, <1>6, <1>9, EntryMarked DEF Statuses
  <1>17. HeldInv'
    BY <1>9, <1>11, <1>13, <1>15, <1>16 DEF HeldInv
  <1>18. MarkedInv'
    <2>1. ASSUME NEW j \in DOMAIN importQueue
          PROVE  importQueue'[j].status = "Uploading" <=>
                   \E t \in Slots : Uploading(t)' /\ processors'[t].index = j
      <3>1. (\E t \in Slots : Uploading(t)' /\ processors'[t].index = j)
              <=> j = i
        BY <1>11, <1>13, <1>14, <1>15
      <3>2. importQueue[j].status # "Uploading"
        BY <1>1, <1>3, <1>15 DEF MarkedInv
      <3>3. QED
        BY <1>16, <3>1, <3>2
    <2>2. QED
      BY <1>16, <2>1 DEF MarkedInv
  <1>19. StoredInv'
    <2>1. stored' = stored
      BY <1>6
    <2>2. \A j \in DOMAIN importQueue :
            importQueue'[j].status \in {"Imported", "Already imported"} =>
              importQueue'[j].status = importQueue[j].status
      BY <1>16
    <2>3. QED
      BY <1>1, <1>16, <2>1, <2>2 DEF StoredInv
  <1>20. AnswerInv'
    BY <1>11, <1>13, <1>14 DEF AnswerInv, Free
  <1>21. LoopInv'
    <2>1. importQueueRunning'
      <3>1. importQueueRunning \in BOOLEAN
        BY <1>1 DEF QueueTypes
      <3>2. QED
        BY <1>4, <1>6, <3>1, Zenon
    <2>2. QED
      BY <1>14, <2>1 DEF LoopInv
  <1>22. QueueTypes'
    <2>1. importQueueRunning' \in BOOLEAN
      BY <1>1, <1>6 DEF QueueTypes
    <2>2. QED
      BY <1>1, <1>6, <1>13, <1>16, <2>1 DEF QueueTypes
  <1>23. ConnectionInv'
    BY <1>1, <1>6, ConnectionUnchanged
  <1>24. QED
    BY <1>17, <1>18, <1>19, <1>20, <1>21, <1>22, <1>23, QueueInvNext

(* What a goroutine with an answer in hand is a record of.                 *)
Answering(at, c, i, path, status) ==
  [at |-> at, connection |-> c, index |-> i, path |-> path, status |-> status]

(* The answer of an upload, and the test of the connection after it.       *)
LEMMA AnswerMove ==
  ASSUME QueueInv, NEW s \in Slots, Uploading(s),
         NEW at \in {"answered", "finishing", "requeueing"},
         NEW status \in {"Imported", "Already imported", "Failed"},
         NEW c, c = processors[s].connection,
         NEW i, i = processors[s].index, NEW path, path = processors[s].path,
         processors' =
           [processors EXCEPT ![s] = Answering(at, c, i, path, status)],
         status # "Failed" => path \in stored'[c.client],
         \A d \in Daemons : stored[d] \subseteq stored'[d],
         stored' \in [Daemons -> SUBSET Paths],
         UNCHANGED <<importQueue, importQueueRunning, selectedQueueIndex,
                     expanding>>,
         UNCHANGED connectionVars
  PROVE  QueueInv'
  <1>1. /\ ConnectionInv /\ QueueTypes /\ AnswerInv /\ HeldInv
        /\ MarkedInv /\ StoredInv /\ LoopInv
    BY QueueInvIs
  <1>2. ConnectionInv'
    BY <1>1, ConnectionUnchanged
  <1>3. PICK p : p = Answering(at, c, i, path, status)
    OBVIOUS
  <1>4. /\ p.at = at /\ p.connection = c /\ p.index = i /\ p.path = path
        /\ p.status = status
    BY <1>3 DEF Answering
  <1>5. p \in Processors
    <2>1. c \in Connections /\ i \in Nat /\ path \in Paths
      BY <1>1, ProcessorShapes DEF Uploading
    <2>2. QED
      BY <1>3, <2>1 DEF Answering, Processors
  <1>6. /\ processors' \in [Slots -> Processors] /\ processors'[s] = p
        /\ \A t \in Slots \ {s} : processors'[t] = processors[t]
    BY <1>1, <1>3, <1>5, OneProcessorMoves
  <1>7. ~Free(s) /\ ~Free(s)' /\ Uploading(s)'
    BY <1>4, <1>6 DEF Uploading, Free
  <1>8. \A t \in Slots : Kept(t)
    BY <1>4, <1>6, <1>7 DEF Kept, Uploading
  <1>9. importQueue' = importQueue
    OBVIOUS
  <1>10. Grown(importQueue')
    BY <1>1, <1>9, QueueUnchangedGrown DEF Grown
  <1>11. HeldInv' /\ MarkedInv' /\ StoredInv'
    BY <1>1, <1>8, <1>10, QueueKept
  <1>12. /\ importQueueRunning
         /\ \A t \in Slots \ {s} : Free(t) /\ Free(t)'
                                  /\ processors'[t].at = "none"
    <2>1. importQueueRunning /\ \A t \in Slots : Free(t) <=> t # s
      BY <1>1, <1>7, OnlyProcessor
    <2>2. QED
      BY <1>6, <2>1 DEF Free
  <1>13. AnswerInv'
    <2>1. ASSUME NEW t \in Slots,
                 processors'[t].at \in {"answered", "finishing", "requeueing"},
                 processors'[t].status # "Failed"
          PROVE  processors'[t].path
                   \in stored'[processors'[t].connection.client]
      <3>1. t = s
        BY <1>12, <2>1
      <3>2. /\ processors'[s].status = status
            /\ processors'[s].path = path /\ processors'[s].connection = c
        BY <1>4, <1>6
      <3>3. path \in stored'[c.client]
        BY <2>1, <3>1, <3>2
      <3>4. QED
        BY <3>1, <3>2, <3>3
    <2>2. QED
      BY <2>1 DEF AnswerInv
  <1>14. LoopInv'
    <2>1. importQueueRunning'
      <3>1. importQueueRunning' = importQueueRunning
        OBVIOUS
      <3>2. importQueueRunning \in BOOLEAN
        BY <1>1 DEF QueueTypes
      <3>3. importQueueRunning
        BY <1>12
      <3>4. QED
        BY <3>1, <3>2, <3>3, Zenon
    <2>2. QED
      BY <1>7, <1>12, <2>1 DEF LoopInv
  <1>15. QueueTypes'
    <2>1. importQueueRunning' \in BOOLEAN
      BY <1>1 DEF QueueTypes
    <2>2. QED
      BY <1>1, <1>6, <2>1 DEF QueueTypes
  <1>16. QED
    BY <1>2, <1>11, <1>13, <1>14, <1>15, QueueInvNext

(* UploadFile, and the test of the connection that follows it.             *)
LEMMA UploadSteps ==
  ASSUME QueueInv, NEW s \in Slots, UploadFile(s) \/ CheckAnswer(s)
  PROVE  QueueInv'
  <1>1. QueueTypes /\ AnswerInv
    BY QueueInvIs
  <1>2. Uploading(s)
    BY DEF UploadFile, CheckAnswer, Uploading
  <1>3. PICK c, i, path : /\ c = processors[s].connection
                          /\ i = processors[s].index
                          /\ path = processors[s].path
    OBVIOUS
  <1>4. c \in Connections /\ path \in Paths /\ c.client \in Daemons
    BY <1>1, <1>2, <1>3, ProcessorShapes DEF Uploading, Connections
  <1>5. stored \in [Daemons -> SUBSET Paths]
    BY <1>1 DEF QueueTypes
  <1>6. CASE UploadFile(s)
    <2>1. PICK more : more = [stored EXCEPT ![c.client] = @ \cup {path}]
      OBVIOUS
    <2>2. /\ more \in [Daemons -> SUBSET Paths]
          /\ \A d \in Daemons : stored[d] \subseteq more[d]
          /\ path \in more[c.client]
      BY <1>4, <1>5, <2>1
    <2>3. PICK status \in {"Imported", "Already imported", "Failed"} :
            /\ processors' = [processors EXCEPT
                 ![s] = Answering("answered", c, i, path, status)]
            /\ \/ stored' = more
               \/ status = "Failed" /\ stored' = stored
      BY <1>3, <1>6, <2>1 DEF UploadFile, Answering
    <2>4. /\ stored' \in [Daemons -> SUBSET Paths]
          /\ \A d \in Daemons : stored[d] \subseteq stored'[d]
          /\ status # "Failed" => path \in stored'[c.client]
      BY <1>5, <2>2, <2>3
    <2>5. /\ UNCHANGED <<importQueue, importQueueRunning, selectedQueueIndex,
                         expanding>>
          /\ UNCHANGED connectionVars
      BY <1>6 DEF UploadFile
    <2>6. QED
      BY <1>2, <1>3, <2>3, <2>4, <2>5, AnswerMove
  <1>7. CASE CheckAnswer(s)
    <2>1. processors[s].at = "answered"
      BY <1>7 DEF CheckAnswer
    <2>2. PICK at \in {"finishing", "requeueing"} : MoveProcessor(s, at)
      BY <1>7 DEF CheckAnswer
    <2>3. PICK status : status = processors[s].status
      OBVIOUS
    <2>4. status \in {"Imported", "Already imported", "Failed"}
      BY <1>1, <2>1, <2>3, ProcessorShapes
    <2>5. processors[s] = Answering("answered", c, i, path, status)
      <3>1. PICK p : p = processors[s]
        OBVIOUS
      <3>2. p \in Processors /\ p.at = "answered"
        BY <1>1, <2>1, <3>1, ProcessorShapes
      <3>3. CASE p = [at |-> "none"]
        BY <3>2, <3>3
      <3>4. CASE p \in [at : {"check", "next", "stopping"},
                        connection : Connections]
        BY <3>2, <3>4
      <3>5. CASE p \in [at : {"upload"}, connection : Connections, index : Nat,
                        path : Paths]
        BY <3>2, <3>5
      <3>6. CASE p \in [at : {"answered", "finishing", "requeueing"},
                        connection : Connections, index : Nat, path : Paths,
                        status : {"Imported", "Already imported", "Failed"}]
        BY <1>3, <2>3, <3>1, <3>2, <3>6 DEF Answering
      <3>7. QED
        BY <3>2, <3>3, <3>4, <3>5, <3>6 DEF Processors
    <2>6. processors' = [processors EXCEPT
            ![s] = Answering(at, c, i, path, status)]
      <3>1. [Answering("answered", c, i, path, status) EXCEPT !.at = at]
              = Answering(at, c, i, path, status)
        BY DEF Answering
      <3>2. processors' = [processors EXCEPT
              ![s] = [processors[s] EXCEPT !.at = at]]
        BY <1>1, <2>2 DEF MoveProcessor, QueueTypes
      <3>3. QED
        BY <2>5, <3>1, <3>2
    <2>7. /\ UNCHANGED <<importQueue, importQueueRunning, selectedQueueIndex,
                         expanding>>
          /\ UNCHANGED connectionVars /\ stored' = stored
      BY <1>7 DEF CheckAnswer
    <2>8. status # "Failed" => path \in stored'[c.client]
      BY <1>1, <1>3, <2>1, <2>3, <2>7 DEF AnswerInv
    <2>9. QED
      BY <1>2, <1>3, <1>5, <2>4, <2>6, <2>7, <2>8, AnswerMove
  <1>8. QED
    BY <1>6, <1>7

(* What a goroutine says of its upload is so.                              *)
TrueOutcome(s, status) ==
  status \in {"Imported", "Already imported"} =>
    processors[s].path \in stored[processors[s].connection.client]

(* finishImportQueueEntry and requeueImportQueueEntry: the entry at the    *)
(* index takes the outcome, and the goroutine has nothing in hand.         *)
LEMMA EntryWritten ==
  ASSUME QueueInv, NEW s \in Slots, Uploading(s),
         NEW status \in Statuses \ {"Uploading"},
         NEW at \in {"check", "stopping"}, SetEntry(s, status, at),
         TrueOutcome(s, status)
  PROVE  QueueInv'
  <1>1. /\ ConnectionInv /\ QueueTypes /\ AnswerInv /\ HeldInv
        /\ MarkedInv /\ StoredInv /\ LoopInv
    BY QueueInvIs
  <1>2. PICK i, c : i = processors[s].index /\ c = processors[s].connection
    OBVIOUS
  <1>3. /\ i \in DOMAIN importQueue
        /\ importQueue[i].path = processors[s].path
    BY <1>1, <1>2 DEF HeldInv
  <1>5. /\ importQueue' = [importQueue EXCEPT ![i].status = status]
        /\ processors' = [processors EXCEPT
             ![s] = [at |-> at, connection |-> c]]
        /\ UNCHANGED <<importQueueRunning, selectedQueueIndex, expanding,
                       stored>>
        /\ UNCHANGED connectionVars
    BY <1>2, <1>3 DEF SetEntry, LetGo
  <1>6. c \in Connections /\ c.client \in Daemons
    BY <1>1, <1>2, ProcessorShapes DEF Uploading, Connections
  <1>7. PICK p : p = [at |-> at, connection |-> c]
    OBVIOUS
  <1>8. p \in Processors /\ p.at = at
    BY <1>6, <1>7 DEF Processors
  <1>9. /\ processors' \in [Slots -> Processors] /\ processors'[s] = p
        /\ \A t \in Slots \ {s} : processors'[t] = processors[t]
    BY <1>1, <1>5, <1>7, <1>8, OneProcessorMoves
  <1>10. /\ importQueueRunning
         /\ \A t \in Slots \ {s} : Free(t) /\ Free(t)'
         /\ ~Free(s)'
    <2>1. ~Free(s)
      BY DEF Uploading, Free
    <2>2. importQueueRunning /\ \A t \in Slots : Free(t) <=> t # s
      BY <1>1, <2>1, OnlyProcessor
    <2>3. QED
      BY <1>8, <1>9, <2>2 DEF Free
  <1>11. /\ \A t \in Slots \ {s} : ~Uploading(t)
         /\ \A t \in Slots : ~Uploading(t)'
    BY <1>8, <1>9, <1>10 DEF Free, Uploading
  <1>12. /\ importQueue' \in Seq(Entries)
         /\ DOMAIN importQueue' = DOMAIN importQueue
         /\ Len(importQueue') = Len(importQueue)
         /\ \A j \in DOMAIN importQueue :
              /\ importQueue'[j].path = importQueue[j].path
              /\ importQueue'[j].status =
                   IF j = i THEN status ELSE importQueue[j].status
    BY <1>1, <1>3, <1>5, EntryMarked
  <1>13. HeldInv'
    BY <1>11 DEF HeldInv
  <1>14. MarkedInv'
    <2>1. \A j \in DOMAIN importQueue : importQueue'[j].status # "Uploading"
      <3>1. \A j \in DOMAIN importQueue :
              importQueue[j].status = "Uploading" => j = i
        BY <1>1, <1>2, <1>11 DEF MarkedInv
      <3>2. QED
        BY <1>12, <3>1
    <2>2. QED
      BY <1>11, <1>12, <2>1 DEF MarkedInv
  <1>15. StoredInv'
    <2>1. stored' = stored
      BY <1>5
    <2>2. SUFFICES ASSUME NEW j \in DOMAIN importQueue,
                          importQueue'[j].status
                            \in {"Imported", "Already imported"}
                   PROVE  \E d \in Daemons : importQueue[j].path \in stored[d]
      BY <1>12, <2>1 DEF StoredInv
    <2>3. CASE j = i
      <3>1. status \in {"Imported", "Already imported"}
        BY <1>12, <2>2, <2>3
      <3>2. importQueue[j].path \in stored[c.client]
        BY <1>2, <1>3, <2>3, <3>1 DEF TrueOutcome
      <3>3. QED
        BY <1>6, <3>2
    <2>4. CASE j # i
      BY <1>1, <1>12, <2>2, <2>4 DEF StoredInv
    <2>5. QED
      BY <2>3, <2>4
  <1>16. AnswerInv'
    BY <1>11 DEF AnswerInv, Uploading
  <1>17. importQueueRunning' = TRUE
    <2>1. importQueueRunning' = importQueueRunning
      BY <1>5
    <2>2. importQueueRunning \in BOOLEAN
      BY <1>1 DEF QueueTypes
    <2>3. importQueueRunning
      BY <1>10
    <2>4. QED
      BY <2>1, <2>2, <2>3, Zenon
  <1>18. LoopInv'
    BY <1>10, <1>17 DEF LoopInv
  <1>19. QueueTypes'
    BY <1>1, <1>5, <1>9, <1>12, <1>17 DEF QueueTypes
  <1>20. ConnectionInv'
    BY <1>1, <1>5, ConnectionUnchanged
  <1>21. QED
    BY <1>13, <1>14, <1>15, <1>16, <1>18, <1>19, <1>20, QueueInvNext

(* Every step of the goroutine in processImportQueue's loop.               *)
LEMMA QueueProcessorSteps ==
  ASSUME QueueInv, NEW s \in Slots, ProcessorStep(s)
  PROVE  QueueInv'
  <1>1. QueueTypes /\ AnswerInv
    BY QueueInvIs
  <1>3. CASE FinishImportQueueEntry(s)
    <2>1. Uploading(s) /\ processors[s].at = "finishing"
      BY <1>3 DEF FinishImportQueueEntry, Uploading
    <2>2. PICK status : status = processors[s].status
      OBVIOUS
    <2>3. status \in {"Imported", "Already imported", "Failed"}
      BY <1>1, <2>1, <2>2, ProcessorShapes
    <2>4. SetEntry(s, status, "check")
      BY <1>3, <2>2 DEF FinishImportQueueEntry
    <2>5. TrueOutcome(s, status)
      BY <1>1, <2>1, <2>2 DEF AnswerInv, TrueOutcome
    <2>6. QED
      BY <2>1, <2>3, <2>4, <2>5, EntryWritten DEF Statuses
  <1>4. CASE RequeueImportQueueEntry(s)
    <2>1. Uploading(s) /\ SetEntry(s, "Queued", "stopping")
      BY <1>4 DEF RequeueImportQueueEntry, Uploading
    <2>2. TrueOutcome(s, "Queued")
      BY DEF TrueOutcome
    <2>3. QED
      BY <2>1, <2>2, EntryWritten DEF Statuses
  <1>5. QED
    BY <1>3, <1>4, LoopSteps, BeginUpload, UploadSteps DEF ProcessorStep

(* The steps of a connect attempt.                                         *)
LEMMA QueueConnectSteps ==
  ASSUME QueueInv,
         \/ \E d \in Daemons : QueueConnect(d)
         \/ \E a \in AttemptIDs :
              QueueAttemptRequests(a) \/ QueueConnectFails(a)
                \/ QueueConnects(a)
  PROVE  QueueInv'
  <1>1. QueueTypes /\ ConnectionInv
    BY QueueInvIs
  <1>2. /\ importQueue \in Seq(Entries) /\ expanding \subseteq Sources
        /\ selectedQueueIndex \in 0..Len(importQueue)
        /\ Grown(importQueue)
    BY <1>1, QueueUnchangedGrown DEF QueueTypes
  <1>3. ASSUME ConnectionInv', Starts,
               UNCHANGED <<importQueue, selectedQueueIndex, expanding, stored>>
        PROVE  QueueInv'
    <2>1. importQueue' = importQueue
      BY <1>3
    <2>2. Grown(importQueue')
      BY <1>2, <2>1 DEF Grown
    <2>3. /\ selectedQueueIndex' \in 0..Len(importQueue')
          /\ expanding' \subseteq Sources
      BY <1>2, <1>3
    <2>4. QED
      BY <1>3, <2>2, <2>3, GrowStep
  <1>4. ASSUME NEW d \in Daemons, QueueConnect(d)
        PROVE  QueueInv'
    <2>1. BeginConnectAttempt(d) /\ UNCHANGED queueVars
      BY <1>4 DEF QueueConnect
    <2>2. ConnectionInv'
      BY <1>1, <2>1, AttemptBegins
    <2>3. QED
      BY <1>3, <2>1, <2>2 DEF queueVars, Starts
  <1>5. ASSUME NEW a \in AttemptIDs, QueueAttemptRequests(a)
        PROVE  QueueInv'
    <2>1. AttemptRequests(a) /\ UNCHANGED queueVars
      BY <1>5 DEF QueueAttemptRequests
    <2>2. ConnectionInv'
      BY <1>1, <2>1, AttemptMoves
    <2>3. QED
      BY <1>3, <2>1, <2>2 DEF queueVars, Starts
  <1>7. ASSUME NEW a \in AttemptIDs, QueueConnectFails(a)
        PROVE  QueueInv'
    <2>1. RestoreConnectedState(a)
      BY <1>7 DEF QueueConnectFails
    <2>2. ConnectionInv'
      BY <1>1, <2>1, AttemptMoves
    <2>3. PICK online \in BOOLEAN :
            online <=> attempts[a].was /\ client # NoDaemon
      OBVIOUS
    <2>4. PICK c : c = currentConnection
      OBVIOUS
    <2>5. online => c \in Connections
      BY <1>1, <2>3, <2>4 DEF ConnectionInv, ConnectionTypes, Connections,
                              currentConnection
    <2>6. \/ UNCHANGED <<importQueueRunning, processors>>
          \/ /\ online /\ ~importQueueRunning /\ importQueueRunning' = TRUE
             /\ Spawn(c)
      BY <1>7, <2>3, <2>4 DEF QueueConnectFails, StartImportQueueProcessor
    <2>7. Starts
      BY <2>5, <2>6 DEF Starts
    <2>8. QED
      BY <1>3, <1>7, <2>2, <2>7 DEF QueueConnectFails
  <1>8. ASSUME NEW a \in AttemptIDs, QueueConnects(a)
        PROVE  QueueInv'
    <2>1. PICK c : c = [client |-> attempts[a].daemon,
                        generation |-> connectionGen + 1,
                        attemptID |-> connectAttemptID]
      OBVIOUS
    <2>2. InstallConnection(a)
      BY <1>8 DEF QueueConnects
    <2>3. ConnectionInv' /\ Snapshot(c)'
      BY <1>1, <2>1, <2>2, ConnectionInstalled
    <2>4. c \in Connections
      BY <2>3 DEF Snapshot
    <2>5. \/ UNCHANGED <<importQueueRunning, processors>>
          \/ /\ ~importQueueRunning /\ importQueueRunning' = TRUE
             /\ Spawn(c)
      BY <1>8, <2>1 DEF QueueConnects, StartImportQueueProcessor
    <2>6. Starts
      BY <2>4, <2>5 DEF Starts
    <2>7. QED
      BY <1>3, <1>8, <2>3, <2>6 DEF QueueConnects
  <1>9. QED
    BY <1>4, <1>5, <1>7, <1>8

(* An empty queue and no goroutine.                                        *)
LEMMA QueueInitial == ConnectionInit /\ QueueInit => QueueInv
  <1> SUFFICES ASSUME ConnectionInit, QueueInit
               PROVE  QueueInv
    OBVIOUS
  <1>1. ConnectionInv
    BY ConnectionInitial
  <1>2. /\ importQueue = <<>> /\ selectedQueueIndex = 0 /\ expanding = {}
        /\ importQueueRunning = FALSE
        /\ processors = [s \in Slots |-> [at |-> "none"]]
        /\ stored = [d \in Daemons |-> {}]
    BY DEF QueueInit
  <1>3. \A s \in Slots : processors[s].at = "none" /\ Free(s) /\ ~Uploading(s)
    BY <1>2 DEF Free, Uploading
  <1>4. QueueTypes
    <2>1. [at |-> "none"] \in Processors
      BY DEF Processors
    <2>2. processors \in [Slots -> Processors]
      BY <1>2, <2>1
    <2>3. importQueue \in Seq(Entries) /\ Len(importQueue) = 0
      BY <1>2
    <2>4. importQueueRunning \in BOOLEAN
      BY <1>2
    <2>5. stored \in [Daemons -> SUBSET Paths] /\ expanding \subseteq Sources
      BY <1>2
    <2>6. selectedQueueIndex \in 0..Len(importQueue)
      BY <1>2, <2>3
    <2>7. QED
      BY <2>2, <2>3, <2>4, <2>5, <2>6 DEF QueueTypes
  <1>5. HeldInv /\ AnswerInv /\ LoopInv
    BY <1>2, <1>3 DEF HeldInv, AnswerInv, LoopInv
  <1>6. MarkedInv /\ StoredInv
    <2>1. DOMAIN importQueue = {}
      BY <1>2
    <2>2. QED
      BY <2>1 DEF MarkedInv, StoredInv
  <1>7. QED
    BY <1>1, <1>4, <1>5, <1>6, QueueInvIs

(* The invariant of the import queue: the goroutines, the indices they     *)
(* hold, the marks of the entries and what the daemons store agree, for    *)
(* any number of files, sources and connect attempts.                      *)
THEOREM QueueInvariant == QueueSpec => []QueueInv
  <1>1. ConnectionInit /\ QueueInit => QueueInv
    BY QueueInitial
  <1>2. QueueInv /\ [QueueNext]_<<queueVars, connectionVars>> => QueueInv'
    <2> SUFFICES ASSUME QueueInv, [QueueNext]_<<queueVars, connectionVars>>
                 PROVE  QueueInv'
      OBVIOUS
    <2>1. CASE UserStep
      BY <2>1, QueueUserSteps, QueueShrinks, QueueConnectSteps DEF UserStep
    <2>2. CASE \E source \in expanding : SelectionExpanded(source)
      BY <2>2, QueueUserSteps
    <2>3. CASE \E s \in Slots : ProcessorStep(s)
      BY <2>3, QueueProcessorSteps
    <2>4. CASE PausedClosure
      BY <2>4, QueueUserSteps
    <2>5. CASE \E a \in AttemptIDs : \/ QueueAttemptRequests(a)
                                     \/ QueueConnectFails(a)
                                     \/ QueueConnects(a)
      BY <2>5, QueueConnectSteps
    <2>6. CASE UNCHANGED <<queueVars, connectionVars>>
      <3>1. QueueTypes /\ ConnectionInv
        BY QueueInvIs
      <3>2. /\ UNCHANGED connectionVars
            /\ UNCHANGED <<importQueue, selectedQueueIndex, expanding, stored>>
            /\ UNCHANGED <<importQueueRunning, processors>>
        BY <2>6 DEF queueVars
      <3>3. ConnectionInv'
        BY <3>1, <3>2, ConnectionUnchanged
      <3>4. importQueue' = importQueue
        BY <3>2
      <3>5. Grown(importQueue')
        BY <3>1, <3>4, QueueUnchangedGrown DEF Grown
      <3>6. /\ selectedQueueIndex' \in 0..Len(importQueue')
            /\ expanding' \subseteq Sources
        BY <3>1, <3>2 DEF QueueTypes
      <3>7. QED
        BY <3>2, <3>3, <3>5, <3>6, GrowStep DEF Starts
    <2>7. QED
      BY <2>1, <2>2, <2>3, <2>4, <2>5, <2>6 DEF QueueNext
  <1>3. QED
    BY <1>1, <1>2, PTL DEF QueueSpec

(* One goroutine at most uploads, exactly while the queue is marked as     *)
(* running; its entry stays at the index it holds; what is shown as        *)
(* imported is stored.                                                     *)
THEOREM OneProcessorWorks == QueueSpec => []OneProcessor
  <1>1. QueueInv => OneProcessor
    BY DEF QueueInv
  <1>2. QED
    BY <1>1, QueueInvariant, PTL
=============================================================================
