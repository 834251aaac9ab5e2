----------------------------- MODULE DesktopTabs -----------------------------
(***************************************************************************)
(* The search tabs of the desktop client (internal/desktop/fyneapp:        *)
(* sessions.go, app.go) and the rows the daemon keeps for them, so that    *)
(* they survive a restart of either (internal/db/hydrusdb/sessions.go).    *)
(*                                                                         *)
(* Every keystroke in the search entry sends the text as the query of the  *)
(* active session, from a goroutine of its own: several are under way at a *)
(* time and the daemon handles them in any order.  Opening and closing     *)
(* tabs, and the load of the sessions after each connect, run beside them. *)
(* A tab is found by its name; all tabs the user opens are called New Tab. *)
(*                                                                         *)
(* Sort mode and query are stored the same way: the query stands for both. *)
(* What a tab lists is DesktopSelection.                                   *)
(***************************************************************************)
EXTENDS DesktopConnection, SequencesExt, Bags

CONSTANTS
  Queries,
  NoQuery,        \* the empty search entry
  Unordered,      \* of lastTyped: no order tells which query is the last
  MaxSessions,    \* bound on the rows created in a behaviour
  MaxUnderWay     \* bound on the requests under way at a time

ASSUME TabsAssumption == MaxSessions \in Nat \ {0, 1}

VARIABLES
  sessions,         \* p.sessions, each with the query it was loaded with
  activeSessionID,
  searchEntry,      \* p.searchEntry.Text
  closing,          \* sessions whose closure of closeSearchSession is queued
  sessionRequests,  \* a bag: the goroutines with a request under way
  client_sessions,  \* the table at the daemon: id to name and query
  lastSessionID,    \* its AUTOINCREMENT
  lastTyped,        \* history: id to the last query typed in the session;
                    \* Unordered when another of its updates was under way,
                    \* or one failed since
  crossed           \* history: since the last load of the sessions began, tabs
                    \* were opened or closed while it was under way, or a
                    \* request for one of these failed

tabVars == <<sessions, activeSessionID, searchEntry, closing, sessionRequests,
             client_sessions, lastSessionID, lastTyped, crossed>>

SessionIDs == 1..MaxSessions

SearchTexts == Queries \cup {NoQuery}   \* what the search entry may hold

Names == {"My Files", "New Tab"}

\* A bundle nobody has used with a desktop client, or one that keeps two
\* tabs of an earlier one.
TabsInit ==
  /\ sessions = <<>>
  /\ activeSessionID = 0
  /\ searchEntry = NoQuery
  /\ closing = {}
  /\ sessionRequests = EmptyBag
  /\ lastSessionID \in {0, 2}
  /\ client_sessions \in
       [1..lastSessionID -> [name : {"New Tab"}, query : Queries]]
  /\ lastTyped = [id \in SessionIDs |->
       IF id <= lastSessionID THEN client_sessions[id].query ELSE NoQuery]
  /\ crossed = FALSE

----------------------------------------------------------------------------
(* Requests of the client. *)

\* The members of a finite set of numbers, the smallest first.
InOrder(S) ==
  [k \in 1..Cardinality(S) |->
     CHOOSE n \in S : Cardinality({m \in S : m <= n}) = k]

Session(id, name, query) == [id |-> id, name |-> name, query |-> query]

SessionRequest(kind, id, query) ==
  [kind |-> kind, phase |-> "sent", id |-> id, query |-> query,
   result |-> <<>>]

BeginRequest(r) == sessionRequests' = sessionRequests (+) SetToBag({r})

EndRequest(r) == sessionRequests' = sessionRequests (-) SetToBag({r})

Becomes(r, next) ==
  sessionRequests' =
    (sessionRequests (-) SetToBag({r})) (+) SetToBag({next})

Send(kind, id, query) ==
  /\ BagCardinality(sessionRequests) < MaxUnderWay
  /\ BeginRequest(SessionRequest(kind, id, query))

UnderWayOf(kinds) ==
  {r \in BagToSet(sessionRequests) : r.kind \in kinds}

Updating(id) == \E r \in UnderWayOf({"update"}) : r.id = id

\* Loads of all sessions, and requests for single ones.
Loading == UnderWayOf({"list", "default"}) # {}
Editing == UnderWayOf({"create", "delete"}) # {} \/ closing # {}

----------------------------------------------------------------------------
(* The user. *)

\* Seeded fault: the change of the entry that activateSession makes is
\* stored like one the user makes.
ActivateSessionStores(s) ==
  /\ activeSessionID' = s.id
  /\ searchEntry' = s.query
  /\ IF searchEntry # s.query /\ Online THEN Send("update", s.id, s.query)
     ELSE UNCHANGED sessionRequests

\* activateSession: tabSwitching keeps the change of the entry from being
\* stored.
ActivateSession(s) ==
  /\ activeSessionID' = s.id
  /\ searchEntry' = s.query
  /\ UNCHANGED sessionRequests

\* searchEntry.OnChanged and persistActiveSession: without a tab or a
\* connection nothing is stored.
TypeQuery(t) ==
  /\ t # searchEntry
  /\ searchEntry' = t
  /\ IF activeSessionID > 0 /\ Online
       THEN /\ Send("update", activeSessionID, t)
            /\ lastTyped' = [lastTyped EXCEPT ![activeSessionID] =
                 IF Updating(activeSessionID) THEN Unordered ELSE t]
       ELSE UNCHANGED <<sessionRequests, lastTyped>>
  /\ UNCHANGED <<sessions, activeSessionID, closing, client_sessions,
                 lastSessionID, crossed, connectionVars>>

\* The session OnSelected and OnClosed find for a tab: the first one with
\* its name.
SessionOfTab(i) ==
  sessions[SelectInSeq(sessions, LAMBDA s : s.name = sessions[i].name)]

SelectTab(i) ==
  /\ ActivateSession(SessionOfTab(i))
  /\ UNCHANGED <<sessions, closing, client_sessions, lastSessionID, lastTyped,
                 crossed, connectionVars>>

NewSearchSession ==
  /\ Online
  /\ Send("create", 0, NoQuery)
  /\ crossed' = (crossed \/ Loading)
  /\ UNCHANGED <<sessions, activeSessionID, searchEntry, closing,
                 client_sessions, lastSessionID, lastTyped, connectionVars>>

\* closeSearchSession: the request is sent, the closure queued.
CloseSearchSession(i) ==
  LET s == SessionOfTab(i) IN
  /\ Online /\ s.id \notin closing
  /\ Send("delete", s.id, NoQuery)
  /\ closing' = closing \cup {s.id}
  /\ crossed' = (crossed \/ Loading)
  /\ UNCHANGED <<sessions, activeSessionID, searchEntry, client_sessions,
                 lastSessionID, lastTyped, connectionVars>>

\* The sessions but those with this id, in their order.
Remaining(id) ==
  LET kept == InOrder({i \in DOMAIN sessions : sessions[i].id # id}) IN
  [k \in DOMAIN kept |-> sessions[kept[k]]]

\* The closure: with the last tab closed a new one is asked for.
SessionClosed(id) ==
  LET remaining == Remaining(id) IN
  /\ id \in closing
  /\ closing' = closing \ {id}
  /\ sessions' = remaining
  /\ IF remaining = <<>>
       THEN /\ IF Online THEN Send("create", 0, NoQuery)
               ELSE UNCHANGED sessionRequests
            /\ UNCHANGED <<activeSessionID, searchEntry>>
       ELSE IF activeSessionID = id THEN ActivateSession(remaining[1])
       ELSE UNCHANGED <<activeSessionID, searchEntry, sessionRequests>>
  /\ crossed' = (crossed \/ Loading)
  /\ UNCHANGED <<client_sessions, lastSessionID, lastTyped, connectionVars>>

----------------------------------------------------------------------------
(* The daemon: each request is one transaction. *)

SessionAnswered(r, result) ==
  Becomes(r, [r EXCEPT !.phase = "done", !.result = result])

\* ORDER BY position: rows are created at the end and not moved.
ListSessions(r) ==
  /\ r.kind = "list"
  /\ LET ids == InOrder(DOMAIN client_sessions)
     IN SessionAnswered(r, [i \in DOMAIN ids |->
          Session(ids[i], client_sessions[ids[i]].name,
                  client_sessions[ids[i]].query)])
  /\ UNCHANGED <<client_sessions, lastSessionID>>

CreateSession(r) ==
  LET id   == lastSessionID + 1
      name == IF r.kind = "default" THEN "My Files" ELSE "New Tab"
  IN /\ r.kind \in {"create", "default"}
     /\ id <= MaxSessions
     /\ lastSessionID' = id
     /\ client_sessions' =
          [row \in DOMAIN client_sessions \cup {id} |->
             IF row = id THEN [name |-> name, query |-> NoQuery]
             ELSE client_sessions[row]]
     /\ SessionAnswered(r, <<Session(id, name, NoQuery)>>)

\* The client does nothing with the answers to these two.
UpdateSession(r) ==
  /\ r.kind = "update"
  /\ client_sessions' = IF r.id \notin DOMAIN client_sessions
                          THEN client_sessions
                        ELSE [client_sessions EXCEPT ![r.id].query = r.query]
  /\ EndRequest(r)
  /\ UNCHANGED lastSessionID

DeleteSession(r) ==
  /\ r.kind = "delete"
  /\ client_sessions' =
       [id \in DOMAIN client_sessions \ {r.id} |-> client_sessions[id]]
  /\ EndRequest(r)
  /\ UNCHANGED lastSessionID

SessionHandled(r) ==
  /\ r.phase = "sent"
  /\ \/ ListSessions(r) \/ CreateSession(r)
     \/ UpdateSession(r) \/ DeleteSession(r)
  /\ UNCHANGED <<sessions, activeSessionID, searchEntry, closing, lastTyped,
                 crossed, connectionVars>>

\* A request fails before the daemon handled it, or its answer is lost.
\* loadSearchSessions then asks for a default session.
SessionRequestFails(r) ==
  /\ IF r.kind = "list" THEN Becomes(r, SessionRequest("default", 0, NoQuery))
     ELSE EndRequest(r)
  /\ lastTyped' = IF r.kind # "update" THEN lastTyped
                  ELSE [lastTyped EXCEPT ![r.id] = Unordered]
  /\ crossed' = (crossed \/ r.kind # "update")
  /\ UNCHANGED <<sessions, activeSessionID, searchEntry, closing,
                 client_sessions, lastSessionID, connectionVars>>

----------------------------------------------------------------------------
(* The closures on the UI thread: none asks for the connection. *)

\* The tabs are these, and this one is selected.
Opened(s, opened) ==
  /\ sessions' = opened
  /\ activeSessionID' = s.id /\ searchEntry' = s.query
  /\ UNCHANGED <<closing, client_sessions, lastSessionID, lastTyped, crossed,
                 connectionVars>>

\* loadSearchSessions, and ensureDefaultSession when there are none.
SessionsListed(r) ==
  /\ r.kind = "list" /\ r.phase = "done"
  /\ IF r.result = <<>>
       THEN /\ Becomes(r, SessionRequest("default", 0, NoQuery))
            /\ UNCHANGED <<sessions, activeSessionID, searchEntry, closing,
                           client_sessions, lastSessionID, lastTyped, crossed,
                           connectionVars>>
       ELSE EndRequest(r) /\ Opened(r.result[1], r.result)

DefaultSessionCreated(r) ==
  /\ r.kind = "default" /\ r.phase = "done"
  /\ EndRequest(r)
  /\ Opened(r.result[1], r.result)

SearchSessionCreated(r) ==
  /\ r.kind = "create" /\ r.phase = "done"
  /\ EndRequest(r)
  /\ Opened(r.result[1], sessions \o r.result)

----------------------------------------------------------------------------
(* Connect attempts. *)

TabsAttempt ==
  /\ \/ \E d \in Daemons : BeginConnectAttempt(d)
     \/ \E a \in AttemptIDs : AttemptRequests(a) \/ RestoreConnectedState(a)
  /\ UNCHANGED tabVars

\* The last step of an attempt starts loadSearchSessions.
TabsConnected(a) ==
  /\ InstallConnection(a)
  /\ Send("list", 0, NoQuery)
  /\ crossed' = (Loading \/ Editing)
  /\ UNCHANGED <<sessions, activeSessionID, searchEntry, closing,
                 client_sessions, lastSessionID, lastTyped>>

----------------------------------------------------------------------------
TabsUser ==
  \/ \E t \in SearchTexts : TypeQuery(t)
  \/ \E i \in DOMAIN sessions : SelectTab(i) \/ CloseSearchSession(i)
  \/ NewSearchSession

SessionStep(r) ==
  \/ SessionHandled(r) \/ SessionRequestFails(r)
  \/ SessionsListed(r)
  \/ DefaultSessionCreated(r) \/ SearchSessionCreated(r)

TabsNext ==
  \/ TabsUser
  \/ \E r \in BagToSet(sessionRequests) : SessionStep(r)
  \/ \E id \in closing : SessionClosed(id)
  \/ TabsAttempt \/ \E a \in AttemptIDs : TabsConnected(a)

TabsSpec ==
  ConnectionInit /\ TabsInit /\ [][TabsNext]_<<connectionVars, tabVars>>

----------------------------------------------------------------------------
(* Properties. *)

IdsOf(tabs) == {tabs[i].id : i \in DOMAIN tabs}

\* What comes back after a restart is what was typed last in each tab while
\* connected, however tabs were switched, opened and closed in between, unless
\* another update of the tab was under way when it was typed (nothing orders
\* them) or one failed since.
LastTypedStored ==
  \A id \in DOMAIN client_sessions :
    Updating(id) \/ lastTyped[id] \in {Unordered, client_sessions[id].query}

\* At rest there is one tab for each stored session, and the active one is
\* one of them; unless tabs were opened or closed while a connect loaded the
\* sessions, or a request for one of these failed since that load began.
TabsAreSessions ==
  (connected /\ ~crossed /\ ~Loading /\ ~Editing) =>
    /\ sessions # <<>> => activeSessionID \in IdsOf(sessions)
    /\ Len(sessions) = Cardinality(DOMAIN client_sessions)
    /\ IdsOf(sessions) = DOMAIN client_sessions

\* The tabs and their rows agree, and each row keeps what was typed in its
\* own tab.
TabsSound == LastTypedStored /\ TabsAreSessions

----------------------------------------------------------------------------
(* The inductive invariant. *)

SessionRecords == [id : 1..lastSessionID, name : Names, query : SearchTexts]

SessionRequests ==
  [kind : {"list", "default", "create", "update", "delete"},
   phase : {"sent", "done"}, id : 0..lastSessionID, query : SearchTexts,
   result : Seq(SessionRecords)]

TabTypes ==
  /\ sessions \in Seq(SessionRecords)
  /\ activeSessionID \in 0..lastSessionID /\ searchEntry \in SearchTexts
  /\ closing \subseteq 1..lastSessionID
  /\ crossed \in BOOLEAN

SoundRequest(r) ==
  /\ r \in SessionRequests
  /\ r.kind \in {"update", "delete"} =>
       r.phase = "sent" /\ r.id \in 1..lastSessionID
  /\ r.kind \in {"default", "create"} /\ r.phase = "done" =>
       Len(r.result) = 1

SessionRequestTypes ==
  /\ sessionRequests \in [BagToSet(sessionRequests) -> Nat \ {0}]
  /\ \A r \in BagToSet(sessionRequests) : SoundRequest(r)

SessionRowTypes ==
  /\ lastSessionID \in 0..MaxSessions
  /\ DOMAIN client_sessions \subseteq 1..lastSessionID
  /\ client_sessions \in
       [DOMAIN client_sessions -> [name : Names, query : SearchTexts]]
  /\ lastTyped \in [SessionIDs -> SearchTexts \cup {Unordered}]
  /\ \A id \in SessionIDs : id > lastSessionID => lastTyped[id] = NoQuery

TabsTypes == TabTypes /\ SessionRequestTypes /\ SessionRowTypes

\* An update under way is the last one of its session, or nothing says which
\* is.
UpdateInv ==
  \A r, q \in UnderWayOf({"update"}) :
    r.id = q.id /\ lastTyped[r.id] # Unordered =>
      r = q /\ sessionRequests[r] = 1 /\ lastTyped[r.id] = r.query

ActiveInv == sessions # <<>> => activeSessionID \in IdsOf(sessions)

Distinct(tabs) ==
  \A i, j \in DOMAIN tabs : tabs[i].id = tabs[j].id => i = j

\* The answers to requests for a new tab, and the rows to be deleted.
CreateAnswers == {r \in UnderWayOf({"create"}) : r.phase = "done"}
Created == {r.result[1].id : r \in CreateAnswers}
Deleting == {r.id : r \in UnderWayOf({"delete"})}

\* Every row is answered to one request.
CreatedInv ==
  \A r, q \in CreateAnswers :
    r.result[1].id = q.result[1].id => r = q /\ sessionRequests[r] = 1

\* While a connect loads the sessions, and tabs are left alone, what the load
\* has read is still there.
ListedInv ==
  ~crossed /\ Loading =>
    /\ ~Editing
    /\ \A r, q \in UnderWayOf({"list", "default"}) :
         r = q /\ sessionRequests[r] = 1
    /\ \A r \in UnderWayOf({"list"}) : r.phase = "done" =>
         Distinct(r.result) /\ IdsOf(r.result) = DOMAIN client_sessions
    /\ \A r \in UnderWayOf({"default"}) : DOMAIN client_sessions =
         IF r.phase = "sent" THEN {} ELSE {r.result[1].id}

\* Afterwards tabs and rows differ by the requests under way.
EditedInv ==
  ~crossed /\ ~Loading /\ client # NoDaemon =>
    /\ Distinct(sessions)
    /\ (IdsOf(sessions) \ closing) \cup Created
         = DOMAIN client_sessions \ Deleting
    /\ Created \cap (IdsOf(sessions) \cup closing \cup Deleting) = {}

TabsInv ==
  /\ ConnectionInv /\ TabsTypes /\ UpdateInv /\ LastTypedStored
  /\ ActiveInv /\ CreatedInv /\ ListedInv /\ EditedInv
==============================================================================
