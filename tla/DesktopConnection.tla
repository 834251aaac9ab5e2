------------------------- MODULE DesktopConnection -------------------------
(***************************************************************************)
(* The connection state of the desktop client (internal/desktop/fyneapp):  *)
(* every connect attempt makes three requests in a goroutine of its own,   *)
(* and its last part runs on the UI thread.  A second attempt may begin    *)
(* while the first is under way: the toolbar and the menu always offer it. *)
(* A daemon request the client makes carries a snapshot of this state, and *)
(* its answer counts only while the snapshot is current.                   *)
(*                                                                         *)
(* The modules that extend this one say what each step of an attempt does  *)
(* to the part of the client they describe.                                *)
(***************************************************************************)
EXTENDS Integers, Sequences, FiniteSets

CONSTANTS
  Daemons,      \* the daemons the user may connect to
  NoDaemon,     \* p.client before the first connection
  MaxAttempts   \* bound on the connect attempts of a behaviour

ASSUME ConnectionAssumption ==
  /\ NoDaemon \notin Daemons
  /\ MaxAttempts \in Nat \ {0}

VARIABLES
  client,            \* p.client: the daemon its requests go to
  connected,         \* p.connected
  connectionGen,     \* p.connectionGen
  connectAttemptID,  \* p.connectAttemptID
  attempts           \* the goroutine of each attempt: where it is, the daemon
                     \* it talks to, and what beginConnectAttempt returned it

connectionVars ==
  <<client, connected, connectionGen, connectAttemptID, attempts>>

AttemptIDs == 1..MaxAttempts

NoAttempt == [phase |-> "none", daemon |-> NoDaemon, was |-> FALSE]

ConnectionInit ==
  /\ client = NoDaemon
  /\ connected = FALSE
  /\ connectionGen = 0
  /\ connectAttemptID = 0
  /\ attempts = [a \in AttemptIDs |-> NoAttempt]

----------------------------------------------------------------------------
(* Snapshots. *)

\* The guard "!connection.connected || connection.client == nil" of every
\* operation that talks to the daemon.
Online == connected /\ client # NoDaemon

currentConnection ==
  [client     |-> client,
   generation |-> connectionGen,
   attemptID  |-> connectAttemptID]

isCurrentConnectAttempt(a) == connectAttemptID = a

isCurrentOperation(connection) ==
  /\ connectionGen = connection.generation
  /\ connectAttemptID = connection.attemptID

----------------------------------------------------------------------------
(* The steps of an attempt. *)

MoveAttempt(a, phase) == attempts' = [attempts EXCEPT ![a].phase = phase]

EndAttempt(a) == attempts' = [attempts EXCEPT ![a] = NoAttempt]

\* connectToDaemon on the UI thread: the client is offline from here on.
BeginConnectAttempt(d) ==
  LET a == connectAttemptID + 1
  IN /\ connectAttemptID < MaxAttempts
     /\ connectAttemptID' = a
     /\ connected' = FALSE
     /\ attempts' = [attempts EXCEPT
          ![a] = [phase |-> "requests", daemon |-> d, was |-> connected]]
     /\ UNCHANGED <<client, connectionGen>>

\* VerifyAccessKey, CreateSession and ListRecent succeed; an attempt that is
\* not the current one after one of them stops there.
RequestsSucceed(a) ==
  /\ attempts[a].phase = "requests"
  /\ IF isCurrentConnectAttempt(a) THEN MoveAttempt(a, "installing")
     ELSE EndAttempt(a)
  /\ UNCHANGED <<client, connected, connectionGen, connectAttemptID>>

\* One of the three fails.
RequestsFail(a) ==
  /\ attempts[a].phase = "requests"
  /\ MoveAttempt(a, "failing")
  /\ UNCHANGED <<client, connected, connectionGen, connectAttemptID>>

\* The UI closure of an attempt a later one has replaced.
AttemptOutdated(a) ==
  /\ attempts[a].phase \in {"installing", "failing"}
  /\ ~isCurrentConnectAttempt(a)
  /\ EndAttempt(a)
  /\ UNCHANGED <<client, connected, connectionGen, connectAttemptID>>

\* restoreConnectedState: what the attempt found is what it leaves.
RestoreConnectedState(a) ==
  /\ attempts[a].phase = "failing"
  /\ isCurrentConnectAttempt(a)
  /\ connected' = attempts[a].was
  /\ EndAttempt(a)
  /\ UNCHANGED <<client, connectionGen, connectAttemptID>>

InstallConnection(a) ==
  /\ attempts[a].phase = "installing"
  /\ isCurrentConnectAttempt(a)
  /\ client' = attempts[a].daemon
  /\ connected' = TRUE
  /\ connectionGen' = connectionGen + 1
  /\ EndAttempt(a)
  /\ UNCHANGED connectAttemptID

\* The steps of an attempt's goroutine that touch nothing else.
AttemptRequests(a) ==
  RequestsSucceed(a) \/ RequestsFail(a) \/ AttemptOutdated(a)

----------------------------------------------------------------------------
(* What the proofs of the modules that extend this one rest on.            *)

Connections ==
  [client : Daemons, generation : Nat, attemptID : 0..MaxAttempts]

Attempts ==
  {NoAttempt} \cup [phase : {"requests", "installing", "failing"},
                   daemon : Daemons, was : BOOLEAN]

ConnectionTypes ==
  /\ client \in Daemons \cup {NoDaemon} /\ connected \in BOOLEAN
  /\ connectionGen \in Nat /\ connectAttemptID \in 0..MaxAttempts
  /\ attempts \in [AttemptIDs -> Attempts]

\* The goroutine of the newest attempt is still at work.
AttemptUnderWay ==
  \E a \in AttemptIDs : isCurrentConnectAttempt(a) /\ attempts[a] # NoAttempt

\* The client is offline during an attempt, so nothing that is shown or asked
\* for then is of the connection the attempt brings.
ConnectionInv ==
  /\ ConnectionTypes
  /\ connected => client \in Daemons /\ ~AttemptUnderWay
  /\ \A a \in AttemptIDs : attempts[a].was => client \in Daemons

\* What is known of any snapshot taken earlier.
Snapshot(c) ==
  /\ c \in Connections
  /\ c.generation <= connectionGen /\ c.attemptID <= connectAttemptID
  /\ isCurrentOperation(c) => c.client = client /\ ~AttemptUnderWay
=============================================================================
