------------------------ MODULE DesktopImportQueue -------------------------
(***************************************************************************)
(* The import queue of the desktop client (app.go, import_queue.go,        *)
(* import_queue_widget.go): the user queues files and folders, and one     *)
(* goroutine, processImportQueue, uploads them one after the other to the  *)
(* daemon of the connection it was started with.  A connect attempt makes  *)
(* that connection outdated at any point; the processor then gives its     *)
(* entry back, stops, and asks the UI thread to start another.             *)
(*                                                                         *)
(* Details, sources and file ids of the entries are display text and are   *)
(* left out; a path is a model value, so filepath.Clean has been applied.  *)
(***************************************************************************)
EXTENDS DesktopConnection

CONSTANTS
  Paths,        \* the regular files the user may choose
  Sources,      \* what the user may choose or drop at once
  Contents,     \* the regular files a source gives, folders in WalkDir's
                \* order; a drop may give a path more than once
  MaxRequests   \* bound on the selections and retries of a behaviour

ASSUME QueueAssumption ==
  /\ Contents \in [Sources -> Seq(Paths)]
  /\ MaxRequests \in Nat

VARIABLES
  importQueue,         \* p.importQueue
  importQueueRunning,  \* p.importQueueRunning
  selectedQueueIndex,  \* p.selectedQueueIndex, 0 for none
  expanding,           \* selections whose goroutine has not queued them yet
  processors,          \* the goroutines in processImportQueue's loop
  pausedClosures,      \* closures of paused processors the UI has to run
  stored,              \* the files each daemon has stored
  requests             \* selections and retries so far (at most MaxRequests)

queueVars ==
  <<importQueue, importQueueRunning, selectedQueueIndex, expanding,
    processors, pausedClosures, stored, requests>>

\* Room for one goroutine more than there should be.
Slots == 1..2
Free(s) == processors[s].at = "none"

QueueInit ==
  /\ importQueue = <<>>
  /\ importQueueRunning = FALSE
  /\ selectedQueueIndex = 0
  /\ expanding = {}
  /\ processors = [s \in Slots |-> [at |-> "none"]]
  /\ pausedClosures = 0
  /\ stored = [d \in Daemons |-> {}]
  /\ requests = 0

----------------------------------------------------------------------------
(* The helpers of import_queue.go. *)

isFinishedImportQueueEntry(entry) ==
  entry.status \in {"Imported", "Already imported", "Failed"}

canRetryImportQueueEntry(entry) == entry.status = "Failed"
canRemoveImportQueueEntry(entry) == entry.status # "Uploading"

retryImportQueueEntry(entry) ==
  IF canRetryImportQueueEntry(entry)
  THEN [entry EXCEPT !.status = "Queued"] ELSE entry

retryFailedImportQueueEntries(entries) ==
  [i \in DOMAIN entries |-> retryImportQueueEntry(entries[i])]

\* What is left of a sequence when it keeps the positions S alone.
Subsequence(seq, S) ==
  [k \in 1..Cardinality(S) |->
     seq[CHOOSE i \in S : Cardinality({j \in S : j <= i}) = k]]

clearFinishedImportQueueEntries(entries) ==
  Subsequence(entries,
    {i \in DOMAIN entries : ~isFinishedImportQueueEntry(entries[i])})

removeImportQueueEntry(entries, index) ==
  Subsequence(entries, DOMAIN entries \ {index})

findImportQueueEntryByPath(entries, path) ==
  LET at == {i \in DOMAIN entries : entries[i].path = path}
  IN IF at = {} THEN 0 ELSE CHOOSE i \in at : \A j \in at : i <= j

normalizeImportQueueSelection(selected, length) ==
  IF selected > length THEN length ELSE selected

selectedImportQueueIndex(entries, path, fallback) ==
  LET found == findImportQueueEntryByPath(entries, path)
  IN IF found > 0 THEN found
     ELSE normalizeImportQueueSelection(fallback, Len(entries))

\* The files of the chosen source, each once and in order.
expandImportSelection(source) ==
  LET all == Contents[source]
  IN Subsequence(all,
       {i \in DOMAIN all : \A j \in 1..i - 1 : all[j] # all[i]})

\* A failed entry is queued again, any other path of the queue is skipped.
QueuedAgain(paths) ==
  [i \in DOMAIN importQueue |->
     IF \E k \in DOMAIN paths :
          findImportQueueEntryByPath(importQueue, paths[k]) = i
     THEN retryImportQueueEntry(importQueue[i]) ELSE importQueue[i]]

appendImportQueueEntries(paths) ==
  LET new == Subsequence(paths,
        {k \in DOMAIN paths :
           findImportQueueEntryByPath(importQueue, paths[k]) = 0})
  IN QueuedAgain(paths) \o
       [k \in DOMAIN new |-> [path |-> new[k], status |-> "Queued"]]

----------------------------------------------------------------------------
(* Starting a processor: the last step of several handlers, which pass the *)
(* queue as they leave it and say whether the client is online by then.    *)

Spawn(connection) ==
  LET s == CHOOSE x \in Slots : Free(x)
  IN processors' = [processors EXCEPT
       ![s] = [at |-> "check", connection |-> connection]]

StartImportQueueProcessor(queue, online, connection) ==
  IF /\ online
     /\ ~importQueueRunning
     /\ \E i \in DOMAIN queue : queue[i].status = "Queued"
     /\ \E s \in Slots : Free(s)
  THEN importQueueRunning' = TRUE /\ Spawn(connection)
  ELSE UNCHANGED <<importQueueRunning, processors>>

\* renderImportQueue normalises the selection.
Render(queue, selected) ==
  selectedQueueIndex' = normalizeImportQueueSelection(selected, Len(queue))

----------------------------------------------------------------------------
(* The user. *)

\* The pickers and drag and drop: the expansion runs in a goroutine.
QueueImportSources(source) ==
  /\ requests < MaxRequests
  /\ requests' = requests + 1
  /\ expanding' = expanding \cup {source}
  /\ UNCHANGED <<importQueue, importQueueRunning, selectedQueueIndex,
                 processors, pausedClosures, stored, connectionVars>>

SelectionExpanded(source) ==
  LET queue == appendImportQueueEntries(expandImportSelection(source))
  IN /\ source \in expanding
     /\ expanding' = expanding \ {source}
     /\ importQueue' = queue
     /\ Render(queue, selectedQueueIndex)
     /\ StartImportQueueProcessor(queue, Online, currentConnection)
     /\ UNCHANGED <<pausedClosures, stored, requests, connectionVars>>

SelectImportQueueEntry(i) ==
  /\ selectedQueueIndex' = i
  /\ UNCHANGED <<importQueue, importQueueRunning, expanding, processors,
                 pausedClosures, stored, requests, connectionVars>>

UnselectImportQueueEntry ==
  /\ selectedQueueIndex > 0
  /\ selectedQueueIndex' = 0
  /\ UNCHANGED <<importQueue, importQueueRunning, expanding, processors,
                 pausedClosures, stored, requests, connectionVars>>

\* Retrying is allowed while the processor runs.
Retry(queue) ==
  /\ queue # importQueue
  /\ requests < MaxRequests
  /\ requests' = requests + 1
  /\ importQueue' = queue
  /\ Render(queue, selectedQueueIndex)
  /\ StartImportQueueProcessor(queue, Online, currentConnection)
  /\ UNCHANGED <<expanding, pausedClosures, stored, connectionVars>>

RetrySelectedQueueEntry ==
  /\ selectedQueueIndex \in DOMAIN importQueue
  /\ Retry([importQueue EXCEPT ![selectedQueueIndex] =
              retryImportQueueEntry(importQueue[selectedQueueIndex])])

RetryFailedQueueEntries == Retry(retryFailedImportQueueEntries(importQueue))

\* Seeded fault: entries are removed while a processor runs.
ShrinkWhileRunning(queue, selected) ==
  /\ queue # importQueue
  /\ importQueue' = queue
  /\ Render(queue, selected)
  /\ UNCHANGED <<importQueueRunning, expanding, processors, pausedClosures,
                 stored, requests, connectionVars>>

\* Entries leave the queue only while no processor holds an index into it.
Shrink(queue, selected) ==
  /\ ~importQueueRunning
  /\ queue # importQueue
  /\ importQueue' = queue
  /\ Render(queue, selected)
  /\ UNCHANGED <<importQueueRunning, expanding, processors, pausedClosures,
                 stored, requests, connectionVars>>

RemoveSelectedQueueEntry ==
  /\ selectedQueueIndex \in DOMAIN importQueue
  /\ canRemoveImportQueueEntry(importQueue[selectedQueueIndex])
  /\ Shrink(removeImportQueueEntry(importQueue, selectedQueueIndex),
            selectedQueueIndex)

ClearFinishedQueueEntries ==
  LET kept == clearFinishedImportQueueEntries(importQueue)
      path == IF selectedQueueIndex = 0 THEN NoDaemon
              ELSE importQueue[selectedQueueIndex].path
  IN Shrink(kept, selectedImportQueueIndex(kept, path, selectedQueueIndex))

ClearImportQueue == Shrink(<<>>, 0)

----------------------------------------------------------------------------
(* The processor. *)

MoveProcessor(s, at) == processors' = [processors EXCEPT ![s].at = at]

\* Back to the loop's head or to its end, with no entry in hand.
LetGo(s, at) == processors' = [processors EXCEPT
  ![s] = [at |-> at, connection |-> processors[s].connection]]
End(s) == processors' = [processors EXCEPT ![s] = [at |-> "none"]]

\* The loop's first test: a connection that is no longer current stops it.
CheckConnection(s) ==
  /\ processors[s].at = "check"
  /\ IF isCurrentOperation(processors[s].connection)
     THEN MoveProcessor(s, "next")
     ELSE MoveProcessor(s, "stopping")
  /\ UNCHANGED <<importQueue, importQueueRunning, selectedQueueIndex,
                 expanding, pausedClosures, stored, requests, connectionVars>>

BeginNextImportQueueEntry(s) ==
  LET queued == {i \in DOMAIN importQueue : importQueue[i].status = "Queued"}
  IN /\ processors[s].at = "next"
     /\ IF queued = {}
        THEN /\ importQueueRunning' = FALSE
             /\ End(s)
             /\ UNCHANGED importQueue
        ELSE LET i == CHOOSE x \in queued : \A y \in queued : x <= y
             IN /\ importQueue' = [importQueue EXCEPT
                                     ![i].status = "Uploading"]
                /\ processors' = [processors EXCEPT
                     ![s] = [at |-> "upload",
                             connection |-> processors[s].connection,
                             index |-> i, path |-> importQueue[i].path]]
                /\ UNCHANGED importQueueRunning
     /\ UNCHANGED <<selectedQueueIndex, expanding, pausedClosures, stored,
                    requests, connectionVars>>

\* UploadFile: the daemon stores the file, or has it, and the answer comes
\* back; or the request fails, before the daemon stored it or after.
UploadFile(s) ==
  LET p == processors[s]
      d == p.connection.client
      Answered(status, at) ==
        processors' = [processors EXCEPT
          ![s] = [at |-> at, connection |-> p.connection, index |-> p.index,
                  path |-> p.path, status |-> status]]
  IN /\ p.at = "upload"
     /\ \/ /\ Answered(IF p.path \in stored[d] THEN "Already imported"
                       ELSE "Imported", "answered")
           /\ stored' = [stored EXCEPT ![d] = @ \cup {p.path}]
        \/ /\ Answered("Failed", "answered")
           /\ stored' \in {stored, [stored EXCEPT ![d] = @ \cup {p.path}]}
     /\ UNCHANGED <<importQueue, importQueueRunning, selectedQueueIndex,
                    expanding, pausedClosures, requests, connectionVars>>

\* The test after the upload, before the outcome is written.
CheckAnswer(s) ==
  /\ processors[s].at = "answered"
  /\ IF isCurrentOperation(processors[s].connection)
     THEN MoveProcessor(s, "finishing")
     ELSE MoveProcessor(s, "requeueing")
  /\ UNCHANGED <<importQueue, importQueueRunning, selectedQueueIndex,
                 expanding, pausedClosures, stored, requests, connectionVars>>

\* finishImportQueueEntry and requeueImportQueueEntry write by index.
SetEntry(s, status, at) ==
  /\ importQueue' =
       IF processors[s].index \in DOMAIN importQueue
       THEN [importQueue EXCEPT ![processors[s].index].status = status]
       ELSE importQueue
  /\ LetGo(s, at)
  /\ UNCHANGED <<importQueueRunning, selectedQueueIndex, expanding,
                 pausedClosures, stored, requests, connectionVars>>

FinishImportQueueEntry(s) ==
  /\ processors[s].at = "finishing"
  /\ SetEntry(s, processors[s].status, "check")

RequeueImportQueueEntry(s) ==
  /\ processors[s].at = "requeueing"
  /\ SetEntry(s, "Queued", "stopping")

\* The goroutine's end when paused: the UI thread is asked to start another.
PauseProcessor(s) ==
  /\ processors[s].at = "stopping"
  /\ importQueueRunning' = FALSE
  /\ End(s)
  /\ pausedClosures' = pausedClosures + 1
  /\ UNCHANGED <<importQueue, selectedQueueIndex, expanding, stored,
                 requests, connectionVars>>

PausedClosure ==
  /\ pausedClosures > 0
  /\ pausedClosures' = pausedClosures - 1
  /\ Render(importQueue, selectedQueueIndex)
  /\ StartImportQueueProcessor(importQueue, Online, currentConnection)
  /\ UNCHANGED <<importQueue, expanding, stored, requests, connectionVars>>

----------------------------------------------------------------------------
(* The connection. *)

QueueConnect(d) == BeginConnectAttempt(d) /\ UNCHANGED queueVars

QueueAttemptRequests(a) == AttemptRequests(a) /\ UNCHANGED queueVars

\* Seeded fault: a failed attempt does not start the queue again.
QueueConnectFailsSilently(a) ==
  RestoreConnectedState(a) /\ UNCHANGED queueVars

\* A failed attempt of a client that was online starts the queue again.
QueueConnectFails(a) ==
  /\ RestoreConnectedState(a)
  /\ StartImportQueueProcessor(importQueue,
       attempts[a].was /\ client # NoDaemon, currentConnection)
  /\ UNCHANGED <<importQueue, selectedQueueIndex, expanding, pausedClosures,
                 stored, requests>>

QueueConnects(a) ==
  /\ InstallConnection(a)
  /\ StartImportQueueProcessor(importQueue, TRUE,
       [client |-> attempts[a].daemon, generation |-> connectionGen + 1,
        attemptID |-> connectAttemptID])
  /\ UNCHANGED <<importQueue, selectedQueueIndex, expanding, pausedClosures,
                 stored, requests>>

----------------------------------------------------------------------------
ProcessorStep(s) ==
  \/ CheckConnection(s)
  \/ BeginNextImportQueueEntry(s)
  \/ UploadFile(s)
  \/ CheckAnswer(s)
  \/ FinishImportQueueEntry(s)
  \/ RequeueImportQueueEntry(s)
  \/ PauseProcessor(s)

UserStep ==
  \/ \E source \in Sources : QueueImportSources(source)
  \/ \E i \in DOMAIN importQueue : SelectImportQueueEntry(i)
  \/ UnselectImportQueueEntry
  \/ RetrySelectedQueueEntry
  \/ RetryFailedQueueEntries
  \/ RemoveSelectedQueueEntry
  \/ ClearFinishedQueueEntries
  \/ ClearImportQueue
  \/ \E d \in Daemons : QueueConnect(d)

QueueNext ==
  \/ UserStep
  \/ \E source \in expanding : SelectionExpanded(source)
  \/ \E s \in Slots : ProcessorStep(s)
  \/ PausedClosure
  \/ \E a \in AttemptIDs : \/ QueueAttemptRequests(a)
                           \/ QueueConnectFails(a)
                           \/ QueueConnects(a)

\* Goroutines run, an upload ends by its five minutes, and the UI thread
\* gets to the closures it is given.
QueueFairness ==
  /\ \A s \in Slots : WF_<<queueVars, connectionVars>>(ProcessorStep(s))
  /\ WF_<<queueVars, connectionVars>>(PausedClosure)

QueueSpec ==
  /\ ConnectionInit /\ QueueInit
  /\ [][QueueNext]_<<queueVars, connectionVars>>

----------------------------------------------------------------------------
(* Properties. *)

Uploading(s) == processors[s].at \in
                  {"upload", "answered", "finishing", "requeueing"}

\* Whatever the user clears, removes or retries and whenever a connection is
\* replaced: one goroutine at most is in the loop, exactly while the queue
\* is marked as running; the entry it uploads is still at the index it
\* holds, no other entry is marked as uploading, and an entry is shown as
\* imported only when some daemon stores the file.
OneProcessor ==
  /\ Cardinality({s \in Slots : ~Free(s)}) =
       (IF importQueueRunning THEN 1 ELSE 0)
  /\ \A s \in Slots : Uploading(s) =>
       /\ processors[s].index \in DOMAIN importQueue
       /\ importQueue[processors[s].index].path = processors[s].path
  /\ \A i \in DOMAIN importQueue :
       /\ importQueue[i].status = "Uploading" <=>
            \E s \in Slots : Uploading(s) /\ processors[s].index = i
       /\ importQueue[i].status \in {"Imported", "Already imported"} =>
            \E d \in Daemons : importQueue[i].path \in stored[d]

Waiting(path) ==
  \E i \in DOMAIN importQueue : /\ importQueue[i].path = path
                                /\ importQueue[i].status = "Queued"

\* "The queue survives reconnect and resumes": once the client stays online,
\* no file waits in the queue for ever, however attempts and uploads
\* overlapped before.
QueueDrains ==
  \A path \in Paths : <>[]connected => [](Waiting(path) => <>~Waiting(path))

----------------------------------------------------------------------------
(* The inductive invariant. *)

Statuses == {"Queued", "Uploading", "Imported", "Already imported", "Failed"}

Entries == [path : Paths, status : Statuses]

Processors ==
  {[at |-> "none"]}
    \cup [at : {"check", "next", "stopping"}, connection : Connections]
    \cup [at : {"upload"}, connection : Connections, index : Nat,
          path : Paths]
    \cup [at : {"answered", "finishing", "requeueing"},
          connection : Connections, index : Nat, path : Paths,
          status : {"Imported", "Already imported", "Failed"}]

\* The selection stays inside the queue.
QueueTypes ==
  /\ importQueue \in Seq(Entries)
  /\ importQueueRunning \in BOOLEAN
  /\ selectedQueueIndex \in 0..Len(importQueue)
  /\ expanding \subseteq Sources
  /\ processors \in [Slots -> Processors]
  /\ stored \in [Daemons -> SUBSET Paths]

\* The outcome a processor has in hand is already true of its daemon.
AnswerInv ==
  \A s \in Slots :
    /\ processors[s].at \in {"answered", "finishing", "requeueing"}
    /\ processors[s].status # "Failed"
    => processors[s].path \in stored[processors[s].connection.client]

QueueInv == ConnectionInv /\ QueueTypes /\ AnswerInv /\ OneProcessor
=============================================================================
