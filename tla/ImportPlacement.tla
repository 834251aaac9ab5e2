--------------------------- MODULE ImportPlacement ---------------------------
(***************************************************************************)
(* Importing files: a request places its file in managed storage           *)
(* (internal/storage/clientfiles/place.go), records it in the database     *)
(* (hydrusdb.RecordPreparedLocalImport) and, when the record fails,        *)
(* removes the file it placed (internal/importing/importer.go).  Requests  *)
(* for the same file run concurrently; write transactions are serialised   *)
(* by the bundle's write gate, but the lookups on the bundle's connection  *)
(* are not, and see the rows of a transaction that is still open.          *)
(***************************************************************************)
EXTENDS Naturals

CONSTANTS
  Hash,       \* file contents, named by their SHA-256
  Mime,       \* types detection may give a file: they choose the extension
  Time,       \* modification times; 0 is an upload that gives none
  PerSecond,  \* units of Time in a second
  Importer,   \* concurrent requests
  KnownHash   \* hashes with a row in external_master.hashes from elsewhere

ASSUME ImportAssumption ==
  Time \subseteq Nat /\ 0 \in Time /\ PerSecond \in Nat \ {0}
    /\ KnownHash \subseteq Hash /\ Hash # {} /\ Mime # {}

VARIABLES
  files,     \* managed files
  rows,      \* files_info, with the membership and timestamp rows
  dirty,     \* the rows the open write transaction has inserted
  req,       \* req[p]: a request
  answered,  \* history: hashes a request was told are imported
  shared,    \* history: hashes two requests were working on at once
  failing,   \* history: hashes a record of which failed without a conflict
  abandoned, \* history: hashes whose cleanup was cut short
  kept       \* history: files a cleanup kept for the row of another type

vars == <<files, rows, dirty, req, answered, shared, failing, abandoned, kept>>
history == <<answered, shared, failing, abandoned, kept>>

File == [hash : Hash, mime : Mime, time : Time]
Row == [hash : Hash, mime : Mime, time : Time, trashed : BOOLEAN]
Step == {"idle", "urls", "check", "link", "recheck", "record", "commit",
         "lookup", "remove"}

(* present: the placement found the file there (AlreadyPresent).           *)
Request == [pc : Step, file : File, present : BOOLEAN]

At(f) == {g \in files : g.hash = f.hash /\ g.mime = f.mime}
Recorded(h) == \E r \in rows : r.hash = h
RecordedAs(f) == \E r \in rows : r.hash = f.hash /\ r.mime = f.mime
Busy(h) == \E p \in Importer : req[p].pc # "idle" /\ req[p].file.hash = h
GateFree == \A p \in Importer : req[p].pc # "commit"

(* One file per name, one row per hash, one writer at a time.              *)
TypeOK ==
  /\ files \subseteq File /\ rows \subseteq Row /\ dirty \subseteq Row
  /\ req \in [Importer -> Request]
  /\ answered \cup shared \cup failing \cup abandoned \subseteq Hash
  /\ kept \subseteq File
  /\ \A f, g \in files : f.hash = g.hash /\ f.mime = g.mime => f = g
  /\ \A r, s \in rows \cup dirty : r.hash = s.hash => r = s
  /\ \A p, q \in Importer :
       req[p].pc = "commit" /\ req[q].pc = "commit" => p = q
  /\ dirty # {} => ~GateFree

NoRequest == CHOOSE r \in Request : r.pc = "idle" /\ ~r.present

Init ==
  /\ files = {} /\ rows = {} /\ dirty = {}
  /\ req = [p \in Importer |-> NoRequest]
  /\ answered = {} /\ shared = {} /\ failing = {} /\ abandoned = {}
  /\ kept = {}

Goto(p, step) == req' = [req EXCEPT ![p].pc = step]
Finish(p) == req' = [req EXCEPT ![p] = NoRequest]

-----------------------------------------------------------------------------
(* Accepting a request.                                                    *)

Accept(p, f, step) ==
  /\ req[p].pc = "idle"
  /\ req' = [req EXCEPT ![p] = [pc |-> step, file |-> f, present |-> FALSE]]
  /\ shared' = IF Busy(f.hash) THEN shared \cup {f.hash} ELSE shared
  /\ UNCHANGED <<files, rows, dirty, answered, failing, abandoned, kept>>

(* ImportLocalPath: hash and type come from the file, and so does its      *)
(* modification time.                                                      *)
ImportLocalPath(p, f) == f.time # 0 /\ Accept(p, f, "check")

(* ImportUpload: the staged file is given the time the request names, or   *)
(* the epoch.                                                              *)
ImportUpload(p, f) == Accept(p, f, "check")

(* LookupImportedFileIDByHash, outside the write gate.                     *)
LookupImported(h) == \E r \in rows \cup dirty : r.hash = h

(* Seeded fault: any hash the database knows counts as an imported file.   *)
LookupHashRow(h) == h \in KnownHash \/ \E r \in rows \cup dirty : r.hash = h

(* Seeded fault: the lookup before the download is imported is the one of  *)
(* the hash table.                                                         *)
ImportURLByHashRow(p, f) ==
  /\ f.time = 0
  /\ Accept(p, f, IF LookupHashRow(f.hash) THEN "urls" ELSE "check")

(* ImportURL: a download that is imported already only gets its URLs       *)
(* recorded; any other is an upload without a modification time.           *)
ImportURL(p, f) ==
  /\ f.time = 0
  /\ Accept(p, f, IF LookupImported(f.hash) THEN "urls" ELSE "check")

(* AddKnownURLsByHash: the hash must have a row, the file need not; the    *)
(* transaction may also fail.                                              *)
AddKnownURLsByHash(p) ==
  LET h == req[p].file.hash IN
  /\ req[p].pc = "urls" /\ GateFree
  /\ \/ /\ h \in KnownHash \/ Recorded(h)
        /\ answered' = answered \cup {h}
     \/ UNCHANGED answered
  /\ Finish(p)
  /\ UNCHANGED <<files, rows, dirty, shared, failing, abandoned, kept>>

-----------------------------------------------------------------------------
(* placePath.                                                              *)

(* sameFilePlacement: the contents are those of the hash; the times agree  *)
(* to the second.                                                          *)
SamePlacement(f, g) == f.time \div PerSecond = g.time \div PerSecond

(* existingPlacementResult, before the copy ("check") and after a link     *)
(* that found the destination taken ("recheck").                           *)
ExistingPlacement(p) ==
  LET f == req[p].file IN
  /\ req[p].pc \in {"check", "recheck"}
  /\ \/ /\ At(f) = {}
        /\ IF req[p].pc = "check" THEN Goto(p, "link") ELSE Finish(p)
     \/ /\ \E g \in At(f) : SamePlacement(f, g)
        /\ req' = [req EXCEPT ![p] = [pc |-> "record", file |-> f,
                                      present |-> TRUE]]
     \/ /\ \E g \in At(f) : ~SamePlacement(f, g)
        /\ Finish(p)
  /\ UNCHANGED <<files, rows, dirty, history>>

(* Seeded fault: the temporary file is renamed over the destination.       *)
RenameIntoPlace(p) ==
  LET f == req[p].file IN
  /\ req[p].pc = "link"
  /\ files' = (files \ At(f)) \cup {f}
  /\ Goto(p, "record")
  /\ UNCHANGED <<rows, dirty, history>>

(* linkTempFileIntoPlace: the copied file is published unless another one  *)
(* is there.                                                               *)
LinkTempFileIntoPlace(p) ==
  LET f == req[p].file IN
  /\ req[p].pc = "link"
  /\ IF At(f) = {} THEN files' = files \cup {f} /\ Goto(p, "record")
                   ELSE Goto(p, "recheck") /\ UNCHANGED files
  /\ UNCHANGED <<rows, dirty, history>>

(* An I/O error ends the request; when it is the removal of the temporary  *)
(* file that fails, the managed file stays behind.                         *)
PlacementFails(p) ==
  LET f == req[p].file IN
  /\ req[p].pc \in {"check", "link", "recheck"}
  /\ \/ UNCHANGED <<files, abandoned>>
     \/ /\ req[p].pc = "link" /\ At(f) = {}
        /\ files' = files \cup {f}
        /\ abandoned' = abandoned \cup {f.hash}
  /\ Finish(p)
  /\ UNCHANGED <<rows, dirty, answered, shared, failing, kept>>

-----------------------------------------------------------------------------
(* RecordPreparedLocalImport.                                              *)

RowOf(f) == [hash |-> f.hash, mime |-> f.mime, time |-> f.time,
             trashed |-> FALSE]

(* Seeded fault: a failed record never cleans up.                          *)
NoCleanup(p) == Finish(p)

(* What a request does after its record failed.                            *)
AfterRecordError(p) ==
  IF req[p].present THEN Finish(p) ELSE Goto(p, "lookup")

(* The transaction up to its COMMIT.  A row that is there must match the   *)
(* request in every field, its memberships included: a trashed file does   *)
(* not.                                                                    *)
RecordPreparedLocalImport(p) ==
  LET f == req[p].file IN
  /\ req[p].pc = "record" /\ GateFree
  /\ IF Recorded(f.hash)
     THEN /\ IF RowOf(f) \in rows THEN Goto(p, "commit")
                                  ELSE AfterRecordError(p)
          /\ UNCHANGED dirty
     ELSE dirty' = {RowOf(f)} /\ Goto(p, "commit")
  /\ UNCHANGED <<files, rows, history>>

Commit(p) ==
  /\ req[p].pc = "commit"
  /\ rows' = rows \cup dirty /\ dirty' = {}
  /\ answered' = answered \cup {req[p].file.hash}
  /\ Finish(p)
  /\ UNCHANGED <<files, shared, failing, abandoned, kept>>

(* COMMIT takes effect but its caller, cancelled meanwhile, sees an error. *)
CommitUnacknowledged(p) ==
  /\ req[p].pc = "commit"
  /\ rows' = rows \cup dirty /\ dirty' = {}
  /\ AfterRecordError(p)
  /\ UNCHANGED <<files, history>>

(* The service key names no local file domain, the request is cancelled,   *)
(* or SQLite reports an error: nothing is recorded.                        *)
RecordFails(p) ==
  /\ req[p].pc \in {"record", "commit"}
  /\ dirty' = IF req[p].pc = "commit" THEN {} ELSE dirty
  /\ failing' = failing \cup {req[p].file.hash}
  /\ AfterRecordError(p)
  /\ UNCHANGED <<files, rows, answered, shared, abandoned, kept>>

-----------------------------------------------------------------------------
(* cleanupFailedPlacement: a lookup, then a removal.                       *)

(* Seeded fault: the file is removed whatever the database says.           *)
CleanupUnchecked(p) ==
  /\ req[p].pc = "lookup"
  /\ Goto(p, "remove")
  /\ UNCHANGED <<files, rows, dirty, history>>

(* The lookup goes by the hash: a row that names the contents keeps the    *)
(* file, the row of another type with another path too.                    *)
CleanupLookup(p) ==
  LET f == req[p].file IN
  /\ req[p].pc = "lookup"
  /\ \/ LookupImported(f.hash) /\ Finish(p)
     \/ ~LookupImported(f.hash) /\ Goto(p, "remove")
  /\ kept' = IF Recorded(f.hash) /\ ~RecordedAs(f) THEN kept \cup At(f)
                                                   ELSE kept
  /\ UNCHANGED <<files, rows, dirty, answered, shared, failing, abandoned>>

CleanupRemove(p) ==
  /\ req[p].pc = "remove"
  /\ files' = files \ At(req[p].file)
  /\ Finish(p)
  /\ UNCHANGED <<rows, dirty, history>>

CleanupFails(p) ==
  /\ req[p].pc \in {"lookup", "remove"}
  /\ abandoned' = abandoned \cup {req[p].file.hash}
  /\ Finish(p)
  /\ UNCHANGED <<files, rows, dirty, answered, shared, failing, kept>>

-----------------------------------------------------------------------------
(* TrashFile: the memberships move to the trash, the managed file stays.   *)
TrashFile(r) ==
  /\ GateFree /\ ~r.trashed
  /\ rows' = (rows \ {r}) \cup {[r EXCEPT !.trashed = TRUE]}
  /\ UNCHANGED <<files, dirty, req, history>>

(* The daemon stops; the open transaction is rolled back.                  *)
Crash ==
  /\ req' = [p \in Importer |-> NoRequest]
  /\ dirty' = {}
  /\ abandoned' = abandoned \cup {h \in Hash : Busy(h)}
  /\ UNCHANGED <<files, rows, answered, shared, failing, kept>>

Next ==
  \/ \E p \in Importer :
       \/ \E f \in File :
            ImportLocalPath(p, f) \/ ImportUpload(p, f) \/ ImportURL(p, f)
       \/ AddKnownURLsByHash(p)
       \/ ExistingPlacement(p)
       \/ LinkTempFileIntoPlace(p)
       \/ PlacementFails(p)
       \/ RecordPreparedLocalImport(p)
       \/ Commit(p)
       \/ CommitUnacknowledged(p)
       \/ RecordFails(p)
       \/ CleanupLookup(p)
       \/ CleanupRemove(p)
       \/ CleanupFails(p)
  \/ \E r \in rows : TrashFile(r)
  \/ Crash

Spec == Init /\ [][Next]_vars

-----------------------------------------------------------------------------
(* Properties.                                                             *)

(* A recorded file is in managed storage, whatever crashes, lost answers,  *)
(* conflicts and retries it went through, unless a record of it failed     *)
(* while another request for it was in flight (cleanupFailedPlacement).    *)
RecordedPresent ==
  \A r \in rows : r.hash \notin shared \cap failing => At(r) # {}

(* A failed import leaves no managed file behind: a file at a path that no *)
(* row names and nobody is working on was left by a cleanup cut short, by  *)
(* concurrent requests for its contents, or by a cleanup that kept it for  *)
(* the row of the same contents under another type (kept).                 *)
FailedLeavesNothing ==
  \A f \in files :
    \/ RecordedAs(f) \/ Busy(f.hash)
    \/ f.hash \in shared \cup abandoned \/ f \in kept

(* "removes a newly placed managed file when DB recording fails"           *)
(* (internal/importing/importer_test.go:226): without a second request and *)
(* without a cleanup cut short, a file at a path that no row names is      *)
(* gone.                                                                   *)
FailedRecordLeavesNoFile ==
  \A f \in files :
    RecordedAs(f) \/ Busy(f.hash) \/ f.hash \in shared \cup abandoned

(* "publishing without overwriting conflicting existing files"             *)
(* (docs/DECISIONS.md): no step puts a file where another one was.         *)
NoOverwrite ==
  [][\A f \in files : f \in files' \/ \A g \in files' :
       g.hash # f.hash \/ g.mime # f.mime]_vars

(* A request that reports an imported file reports one the database keeps, *)
(* unless a record of it failed while the request was looking.             *)
AnswerDurable == \A h \in answered \ (shared \cap failing) : Recorded(h)

(* "skips managed cleanup once the DB already records the file"            *)
(* (internal/importing/importer_test.go): a recorded file is never         *)
(* removed.                                                                *)
RecordedHasFile == \A r \in rows : At(r) # {}

-----------------------------------------------------------------------------
(* The inductive invariant.                                                *)

(* A record failed while another request was working on the content.       *)
Excepted == shared \cap failing

(* Two requests for one content are known to be two.                       *)
SharedInv ==
  \A p, q \in Importer :
    /\ p # q /\ req[p].pc # "idle" /\ req[q].pc # "idle"
    /\ req[p].file.hash = req[q].file.hash
    => req[p].file.hash \in shared

(* Only a request whose placement found the file there goes on with        *)
(* present, and it never cleans up.                                        *)
PresentInv ==
  \A p \in Importer : req[p].present => req[p].pc \in {"record", "commit"}

(* The open transaction is the committing request's: its row is in it, or  *)
(* was there.                                                              *)
DirtyInv ==
  \A p \in Importer :
    req[p].pc = "commit" =>
      \/ dirty = {} /\ RowOf(req[p].file) \in rows
      \/ dirty = {RowOf(req[p].file)}

(* What each request relies on where it is.                                *)
Placed(p) ==
  LET f == req[p].file IN
  /\ req[p].pc \in {"record", "commit"} =>
       At(f) # {} \/ f.hash \in Excepted
  /\ req[p].pc = "lookup" => Recorded(f.hash) \/ f.hash \in failing
  /\ req[p].pc = "remove" =>
       f.hash \in failing /\ (Recorded(f.hash) => f.hash \in shared)
  /\ req[p].pc = "urls" =>
       \/ Recorded(f.hash) \/ f.hash \in Excepted
       \/ f.hash \in shared /\ \E r \in dirty : r.hash = f.hash

PlacedInv == \A p \in Importer : Placed(p)

(* p placed f and has neither recorded nor removed it.                     *)
Owns(p, f) ==
  /\ req[p].pc \in {"record", "commit", "lookup", "remove"}
  /\ ~req[p].present
  /\ req[p].file.hash = f.hash /\ req[p].file.mime = f.mime

(* The file needs no cleanup, or is excepted from it.                      *)
Settled(f) == RecordedAs(f) \/ f.hash \in shared \cup abandoned \/ f \in kept

OwnerInv ==
  \A f \in files :
    \/ Settled(f)
    \/ \E p \in Importer : Owns(p, f)

ImportInv ==
  /\ TypeOK /\ SharedInv /\ PresentInv /\ DirtyInv /\ PlacedInv /\ OwnerInv
  /\ RecordedPresent /\ AnswerDurable

=============================================================================
