------------------------------- MODULE Library -------------------------------
(***************************************************************************)
(* The rows of one bundle that are not the PTR's: files, their file        *)
(* services, tags of the local tag service, notes, times and URLs; the     *)
(* mutations of internal/db/hydrusdb (clientapi_mutations.go, trash.go,    *)
(* import.go, metadata_create_ids.go), each one a transaction under the    *)
(* write gate, and the reads (metadata*.go, browse.go), each one a         *)
(* sequence of queries without a snapshot.                                 *)
(*                                                                         *)
(* A bundle made by hydrus-go has no specific mapping caches and no        *)
(* mapping or note tables until a request needs them; one made by Hydrus   *)
(* has all of them.  Read bundles cache the table names they see first     *)
(* (schemaTableNamesCache) and never read them again.                      *)
(***************************************************************************)
EXTENDS Naturals, Sequences, FiniteSets

CONSTANTS Files, Tags,
          Ideal,      \* [Tags -> Tags]: the actual tag siblings lookup
          Ancestors,  \* [Tags -> SUBSET Tags]: the actual tag parents lookup
          MaxWrites   \* bound: committed mutations

ASSUME LibraryAssumption ==
  /\ Files # {} /\ IsFiniteSet(Files) /\ MaxWrites \in Nat
  /\ Ideal \in [Tags -> Tags] /\ Ancestors \in [Tags -> SUBSET Tags]

(* The file services a local file can be in, in the order of their ids     *)
(* (BootstrapCatalog), which is the order in which reads query them.       *)
FileServices == <<"local", "storage", "combinedLocal", "combinedFile", "trash">>
ServiceNames == {FileServices[i] : i \in DOMAIN FileServices}

SupportsSpecificMappingCache(s) == s # "combinedFile"

CacheServices == {s \in ServiceNames : SupportsSpecificMappingCache(s)}

Statuses == {"current", "deleted", "pending", "petitioned"}

Pairs == Files \X Tags

VARIABLES
  hydrusBundle, \* the bundle was made by Hydrus: all tables, and caches
  hashes,       \* files with a row in hashes, hence a file id
  info,         \* files with a row in files_info
  current,      \* current[s]: files in current_files_s
  deleted,      \* files in deleted_files of combined local file domains
  inbox,        \* file_inbox
  urls,         \* files associated with a URL
  times,        \* times[f][d]: modified time for domain d, 0 if none
  notes,        \* files with a note
  mappings,     \* mappings[status]: the rows of the local tag service
  storageCache, \* storageCache[s][status]: specific mapping caches of s
  displayCache, \* displayCache[s][status]: specific display caches of s
  tables,       \* optional tables that exist: "mappings", "notes"
  moved,        \* files hydrus-go moved between services
  writes,       \* committed mutations so far
  names,        \* names[bundle][t]: the cached names lack or have table t
  read,         \* a GetMetadata on the metadata read bundle
  search        \* a SearchByTags on the read bundle

fileVars == <<hashes, info, current, deleted, inbox, moved>>
detailVars == <<urls, times, notes>>
tagVars == <<mappings, storageCache, displayCache>>
readVars == <<names, read, search>>
libraryVars == <<hydrusBundle, fileVars, detailVars, tagVars, tables, writes,
                 readVars>>

Domains == {"file", "site"}
NoTime == [d \in Domains |-> 0]

CachedStatuses == {"current", "deleted", "pending"}
DisplayStatuses == {"current", "pending"}

RowsOf(F, pairs) == {p \in pairs : p[1] \in F}

-----------------------------------------------------------------------------
(* Tags: siblings, parents, status sets and caches.                        *)

(* lookupDisplayImplicationTagIDs: the ideal sibling, then its ancestors;  *)
(* a bundle without the lookup tables knows neither.                       *)
Implied(t) ==
  IF hydrusBundle THEN {Ideal[t]} \cup Ancestors[Ideal[t]] ELSE {t}

(* addDisplayImplicationsFromStorage.                                      *)
DisplayOf(pairs) == UNION {{p[1]} \X Implied(p[2]) : p \in pairs}

(* setCurrentTagMappingTx.                                                 *)
SetCurrentTagMapping(F, t) ==
  mappings' = [status \in Statuses |->
    IF status = "current" THEN mappings[status] \cup (F \X {t})
    ELSE mappings[status] \ (F \X {t})]

(* Seeded fault: only the current caches are written.                      *)
SetCurrentTagCachesOnly(F, t) ==
  /\ storageCache' = [s \in CacheServices |->
       [storageCache[s] EXCEPT
         !["current"] = @ \cup ((F \cap current[s]) \X {t})]]
  /\ displayCache' = [s \in CacheServices |->
       [displayCache[s] EXCEPT
         !["current"] = @ \cup ((F \cap current[s]) \X Implied(t))]]

(* setSpecificCurrentTagCachesTx, for the services that contain the file   *)
(* (lookupSpecificCacheFileServiceIDsTx).  The deleted cache is not        *)
(* touched.                                                                *)
SetSpecificCurrentTagCaches(F, t) ==
  LET in(s) == F \cap current[s] IN
  /\ storageCache' = [s \in CacheServices |->
       [storageCache[s] EXCEPT
         !["current"] = @ \cup (in(s) \X {t}),
         !["pending"] = @ \ (in(s) \X {t})]]
  /\ displayCache' = [s \in CacheServices |->
       [displayCache[s] EXCEPT
         !["current"] = @ \cup (in(s) \X Implied(t)),
         !["pending"] = @ \ (in(s) \X Implied(t))]]

-----------------------------------------------------------------------------
(* Initial states: one file was imported before, with any one mapping.     *)

CacheOf(s, rows) == RowsOf(current[s], rows)

LibraryInit ==
  /\ hydrusBundle \in BOOLEAN
  /\ \E t \in Tags, status \in Statuses \cup {"none"} :
       LET old == CHOOSE f \in Files : TRUE IN
       /\ ~hydrusBundle => status = "none"
       /\ hashes = {old} /\ info = {old}
       /\ current = [s \in ServiceNames |-> IF s = "trash" THEN {} ELSE {old}]
       /\ inbox = {old}
       /\ mappings = [st \in Statuses |->
            IF st = status \/ (st = "current" /\ status = "petitioned")
            THEN {<<old, t>>} ELSE {}]
       /\ times = [f \in Files |-> NoTime]
  /\ deleted = {} /\ urls = {} /\ notes = {} /\ moved = {} /\ writes = 0
  /\ storageCache = [s \in CacheServices |-> [st \in CachedStatuses |->
       IF hydrusBundle THEN CacheOf(s, mappings[st]) ELSE {}]]
  /\ displayCache = [s \in CacheServices |-> [st \in DisplayStatuses |->
       IF hydrusBundle THEN CacheOf(s, DisplayOf(mappings[st])) ELSE {}]]
  /\ tables = IF hydrusBundle THEN {"mappings", "notes"} ELSE {}
  /\ names = [b \in {"metadata", "browse"} |->
               [t \in {"mappings", "notes"} |-> "unread"]]
  /\ read = [step |-> 0] /\ search = [step |-> "idle"]

-----------------------------------------------------------------------------
(* Mutations.  A read that is under way when one commits is not calm any   *)
(* more.  Bound: one mutation commits during a read.                       *)
Commit ==
  /\ writes < MaxWrites /\ writes' = writes + 1
  /\ read.step # 0 => read.calm
  /\ read' = IF read.step = 0 THEN read ELSE [read EXCEPT !.calm = FALSE]
  /\ search' = IF search.step = "idle" THEN search
               ELSE [search EXCEPT !.calm = FALSE]
  /\ UNCHANGED <<hydrusBundle, names>>

(* resolveExistingClientAPIHashIDsTx: a request for any file without a     *)
(* files_info row is refused as a whole.                                   *)
Targets == (SUBSET info) \ {{}}

(* resolvePreparedLocalImportPlan and the inserts of a new file.  A file   *)
(* that has a row already is left as it is: its import succeeds or         *)
(* conflicts (module ImportPlacement).                                     *)
RecordImport(f, time) ==
  /\ f \notin info
  /\ Commit
  /\ hashes' = hashes \cup {f} /\ info' = info \cup {f}
  /\ current' = [s \in ServiceNames |->
       IF s = "trash" THEN current[s] ELSE current[s] \cup {f}]
  /\ inbox' = inbox \cup {f} /\ moved' = moved \cup {f}
  /\ times' = [times EXCEPT ![f]["file"] = time]
  /\ UNCHANGED <<deleted, urls, notes, tagVars, tables>>

(* EnsureHashIDs: create_new_file_ids gives a hash an id and nothing else. *)
EnsureHashIDs(F) ==
  /\ ~(F \subseteq hashes)
  /\ Commit
  /\ hashes' = hashes \cup F
  /\ UNCHANGED <<info, current, deleted, inbox, moved, detailVars, tagVars,
                 tables>>

(* collectTrashCurrentRemovals: every file domain but the trash itself.    *)
TrashCurrentRemovals == ServiceNames \ {"trash"}

(* TrashFile and resolveTrashFilePlan: nothing to do for a trashed file,   *)
(* an error for one that is in no service; caches and inbox are untouched. *)
TrashFile(f) ==
  /\ f \in info /\ f \notin current["trash"]
  /\ \E s \in TrashCurrentRemovals : f \in current[s]
  /\ Commit
  /\ current' = [s \in ServiceNames |->
       IF s = "trash" THEN current[s] \cup {f}
       ELSE IF s \in TrashCurrentRemovals THEN current[s] \ {f}
       ELSE current[s]]
  /\ deleted' = deleted \cup {f} /\ moved' = moved \cup {f}
  /\ UNCHANGED <<hashes, info, inbox, detailVars, tagVars, tables>>

(* AddTags, one tag of it; the mapping tables are created if need be.      *)
AddTags(F, t) ==
  /\ F \in Targets
  /\ Commit
  /\ SetCurrentTagMapping(F, t)
  /\ IF hydrusBundle THEN SetSpecificCurrentTagCaches(F, t)
     ELSE UNCHANGED <<storageCache, displayCache>>
  /\ tables' = tables \cup {"mappings"}
  /\ UNCHANGED <<fileVars, detailVars>>

(* SetNotes: exactly one file; the note tables are created if need be.     *)
SetNotes(f) ==
  /\ f \in info
  /\ Commit
  /\ notes' = notes \cup {f} /\ tables' = tables \cup {"notes"}
  /\ UNCHANGED <<fileVars, urls, times, tagVars>>

(* SetTime, for the file itself (also called domain "local") or a domain.  *)
SetTime(F, d, time) ==
  /\ F \in Targets
  /\ Commit
  /\ times' = [f \in Files |->
       IF f \in F THEN [times[f] EXCEPT ![d] = time] ELSE times[f]]
  /\ UNCHANGED <<fileVars, urls, notes, tagVars, tables>>

AssociateURLs(F) ==
  /\ F \in Targets
  /\ Commit
  /\ urls' = urls \cup F
  /\ UNCHANGED <<fileVars, times, notes, tagVars, tables>>

-----------------------------------------------------------------------------
(* Reads.  lookupSchemaTableNames: the first look at a schema is kept.     *)
NamesOf(b, t) ==
  IF names[b][t] # "unread" THEN names[b][t]
  ELSE IF t \in tables THEN "present" ELSE "absent"

CacheNames(b, t) == names' = [names EXCEPT ![b][t] = NamesOf(b, t)]

(* groupHashIDsByTagCachedFileServiceID: a file is read from the caches of *)
(* the service that holds most files of the request, then of the lowest    *)
(* id; a file in no such service is read from the mapping tables.          *)
GroupServiceOf(f, memberships) ==
  LET in == {i \in DOMAIN FileServices :
               /\ SupportsSpecificMappingCache(FileServices[i])
               /\ f \in memberships[FileServices[i]]}
      size(i) == Cardinality(memberships[FileServices[i]])
      Before(i, j) == size(i) > size(j) \/ (size(i) = size(j) /\ i < j)
  IN  IF in = {} THEN "combinedFile"
      ELSE FileServices[CHOOSE i \in in : \A j \in in \ {i} : Before(i, j)]

(* lookupStorageTagServiceMappingsConn: from the cache if the group's      *)
(* service has one, else from the mapping table if its name is known;      *)
(* petitioned rows always from the mapping table.                          *)
StorageRows(f, status, memberships) ==
  LET s == GroupServiceOf(f, memberships)
      table == IF names["metadata"]["mappings"] = "present"
               THEN mappings[status] ELSE {}
  IN  RowsOf({f}, IF hydrusBundle /\ s \in CacheServices
                     /\ status \in CachedStatuses
                  THEN storageCache[s][status] ELSE table)

(* lookupDisplayTagServiceMappingsConn: the display caches, or else the    *)
(* implications of the storage rows read before.                           *)
DisplayRows(f, status, memberships, storage) ==
  LET s == GroupServiceOf(f, memberships) IN
  IF hydrusBundle /\ s \in CacheServices
  THEN RowsOf({f}, displayCache[s][status])
  ELSE DisplayOf(RowsOf({f}, storage))

(* Seeded fault: the trash is queried before the other file services.      *)
QueriesTrashFirst ==
  <<"hashes", "info", "inbox", "fileTime", "siteTime", "urls", "trash",
    "local", "storage", "combinedLocal", "deletedFrom", "combinedFile",
    "notes", "current", "deleted", "pending", "petitioned",
    "displayCurrent", "displayPending">>

(* The queries of fullMetadataRowsWithConn, in order.                      *)
Queries ==
  <<"hashes", "info", "inbox", "fileTime", "siteTime", "urls",
    "local", "storage", "combinedLocal", "deletedFrom", "combinedFile",
    "trash", "notes", "current", "deleted", "pending", "petitioned",
    "displayCurrent", "displayPending">>

Answered == Len(Queries) + 1

(* The lookups, for the files F of a request.                              *)
resolveHashes(F) == F \cap hashes
lookupBasicRecords(F) == F \cap info
lookupInbox(F) == F \cap inbox
lookupFileModifiedTimestamps(F) == [f \in F |-> times[f]["file"]]
lookupDomainModifiedTimestamps(F) == [f \in F |-> times[f]["site"]]
lookupKnownURLs(F) == F \cap urls
lookupCurrentMemberships(F, s) == F \cap current[s]
lookupDeletedMemberships(F) == F \cap deleted
lookupFileNotes(F) ==
  IF NamesOf("metadata", "notes") = "present" THEN F \cap notes ELSE {}

(* lookupFileTags, one status at a time, from the memberships read before. *)
Memberships(row) == [s \in ServiceNames |-> row[s]]

lookupStorageTags(F, status, row) ==
  UNION {StorageRows(f, status, Memberships(row)) : f \in F}

lookupDisplayTags(F, status, row) ==
  UNION {DisplayRows(f, status, Memberships(row), row[status]) : f \in F}

Answer(q, F, row) ==
  CASE q = "hashes" -> resolveHashes(F)
    [] q = "info" -> lookupBasicRecords(F)
    [] q = "inbox" -> lookupInbox(F)
    [] q = "fileTime" -> lookupFileModifiedTimestamps(F)
    [] q = "siteTime" -> lookupDomainModifiedTimestamps(F)
    [] q = "urls" -> lookupKnownURLs(F)
    [] q = "deletedFrom" -> lookupDeletedMemberships(F)
    [] q = "notes" -> lookupFileNotes(F)
    [] q = "displayCurrent" -> lookupDisplayTags(F, "current", row)
    [] q = "displayPending" -> lookupDisplayTags(F, "pending", row)
    [] q \in Statuses -> lookupStorageTags(F, q, row)
    [] OTHER -> lookupCurrentMemberships(F, q)

(* aggregateModifiedTimestamp: the earliest of the times there are, or 0.  *)
aggregateModifiedTimestamp(stamps) ==
  IF stamps \subseteq {0} THEN 0
  ELSE CHOOSE t \in stamps \ {0} : \A u \in stamps \ {0} : t <= u

(* buildFullMetadataRow: what the row says of the file besides its tags.   *)
buildFullMetadataRow(f, row) ==
  [is_local      |-> f \in row["storage"],
   is_trashed    |-> f \in row["trash"],
   is_deleted    |-> f \in row["trash"] \cup row["deletedFrom"],
   time_modified |-> aggregateModifiedTimestamp(
                       {row["fileTime"][f], row["siteTime"][f]})]

(* What the tables say now about the files F, whatever the caches hold.    *)
Facts(F) ==
  [hashes |-> F \cap hashes, info |-> F \cap info, urls |-> F \cap urls,
   inbox |-> F \cap inbox, notes |-> F \cap notes,
   time |-> [f \in F |-> times[f]],
   services |-> [s \in ServiceNames |-> F \cap current[s]],
   tags |-> [st \in Statuses |-> RowsOf(F, mappings[st])]]

(* GetMetadata; with create_new_file_ids metadataStoreRouter runs          *)
(* EnsureHashIDs on the write bundle first.  Bound: one request at a time. *)
GetMetadataBegins(F) ==
  /\ read.step = 0 /\ search.step = "idle"
  /\ read' = [step |-> 1, files |-> F, row |-> <<>>, calm |-> TRUE,
              before |-> Facts(F)]
  /\ UNCHANGED <<hydrusBundle, fileVars, detailVars, tagVars, tables, writes,
                 names, search>>

(* One query.  The membership queries look at the names of main's tables,  *)
(* the first tag query at those of the mapping tables.                     *)
GetMetadataQuery ==
  /\ read.step \in 1..Len(Queries)
  /\ LET q == Queries[read.step] IN
     /\ CASE q = "local" -> CacheNames("metadata", "notes")
          [] q = "notes" -> CacheNames("metadata", "mappings")
          [] OTHER -> UNCHANGED names
     /\ read' = [read EXCEPT
          !.step = @ + 1,
          !.row = [k \in DOMAIN @ \cup {q} |->
                     IF k = q THEN Answer(q, read.files, read.row) ELSE @[k]]]
  /\ UNCHANGED <<hydrusBundle, fileVars, detailVars, tagVars, tables, writes,
                 search>>

GetMetadataReturns ==
  /\ read.step = Answered
  /\ read' = [step |-> 0]
  /\ UNCHANGED <<hydrusBundle, fileVars, detailVars, tagVars, tables, writes,
                 names, search>>

(* SearchByTags on the read bundle: table names, tag ids, then the query.  *)
SearchByTagsBegins(T) ==
  /\ search.step = "idle" /\ read.step = 0
  /\ CacheNames("browse", "mappings")
  /\ search' = [step |-> "query", tags |-> T, calm |-> TRUE, found |-> {}]
  /\ UNCHANGED <<hydrusBundle, fileVars, detailVars, tagVars, tables, writes,
                 read>>

(* resolveRecentBrowseTable.                                               *)
RecentBrowseTable == "combinedLocal"

(* Seeded fault: a file that has any of the tags is found.                 *)
AnyTagFound(T) ==
  IF names["browse"]["mappings"] = "absent" THEN {}
  ELSE {f \in current[RecentBrowseTable] :
          \E t \in T : <<f, t>> \in mappings["current"]}

(* searchByTagsWithConn: no mapping tables, no files; else the files of    *)
(* the browse table that have every tag.                                   *)
Found(T) ==
  IF names["browse"]["mappings"] = "absent" THEN {}
  ELSE {f \in current[RecentBrowseTable] :
          \A t \in T : <<f, t>> \in mappings["current"]}

SearchByTagsQuery ==
  /\ search.step = "query"
  /\ search' = [search EXCEPT !.step = "answered", !.found = Found(search.tags)]
  /\ UNCHANGED <<hydrusBundle, fileVars, detailVars, tagVars, tables, writes,
                 names, read>>

SearchByTagsReturns ==
  /\ search.step = "answered"
  /\ search' = [step |-> "idle"]
  /\ UNCHANGED <<hydrusBundle, fileVars, detailVars, tagVars, tables, writes,
                 names, read>>

Mutation ==
  \/ \E f \in Files : RecordImport(f, 1)
  \/ \E F \in SUBSET Files : EnsureHashIDs(F)
  \/ \E f \in Files : TrashFile(f) \/ SetNotes(f)
  \/ \E F \in Targets, t \in Tags : AddTags(F, t)
  \/ \E F \in Targets, d \in Domains : SetTime(F, d, 2)
  \/ \E F \in Targets : AssociateURLs(F)

Reading ==
  \/ \E F \in (SUBSET Files) \ {{}} : GetMetadataBegins(F)
  \/ GetMetadataQuery \/ GetMetadataReturns
  \/ \E T \in (SUBSET Tags) \ {{}} : SearchByTagsBegins(T)
  \/ SearchByTagsQuery \/ SearchByTagsReturns

LibraryNext == Mutation \/ Reading

LibrarySpec == LibraryInit /\ [][LibraryNext]_libraryVars

-----------------------------------------------------------------------------
Stale(b, t) == names[b][t] = "absent" /\ t \in tables

RowTypes ==
  /\ info \subseteq hashes /\ hashes \subseteq Files
  /\ current \in [ServiceNames -> SUBSET info]
  /\ inbox \subseteq info /\ urls \subseteq info /\ notes \subseteq info
  /\ times \in [Files -> [Domains -> 0..2]]
  /\ mappings \in [Statuses -> SUBSET Pairs]
  /\ tables \subseteq {"mappings", "notes"} /\ writes \in 0..MaxWrites

(* A file is in all of its file services, or in the trash alone: TrashFile *)
(* against an import.                                                      *)
MembershipInv ==
  \A f \in info, s \in ServiceNames :
    f \in current[s] <=> (f \in deleted <=> s = "trash")

(* A tag added by AddTags has no other status.                             *)
StatusInv ==
  /\ mappings["current"] \cap mappings["deleted"] = {}
  /\ mappings["current"] \cap mappings["pending"] = {}
  /\ mappings["petitioned"] \subseteq mappings["current"]

(* There are no rows without their table.                                  *)
TablesInv ==
  /\ notes # {} => "notes" \in tables
  /\ (\E st \in Statuses : mappings[st] # {}) => "mappings" \in tables

(* The specific caches of a service agree with the mapping tables on one   *)
(* of its files, apart from deleted rows, which AddTags leaves in the      *)
(* cache, and display rows of pending tags that another tag implies too.   *)
CachesAgree(s, f) ==
  /\ \A st \in {"current", "pending"} :
       RowsOf({f}, storageCache[s][st]) = RowsOf({f}, mappings[st])
  /\ RowsOf({f}, mappings["deleted"])
       \subseteq RowsOf({f}, storageCache[s]["deleted"])
  /\ RowsOf({f}, displayCache[s]["current"])
       = DisplayOf(RowsOf({f}, mappings["current"]))
  /\ RowsOf({f}, displayCache[s]["pending"])
       \subseteq DisplayOf(RowsOf({f}, mappings["pending"]))

CachesInv ==
  hydrusBundle => \A s \in CacheServices : \A f \in current[s] \ moved :
    CachesAgree(s, f)

(* What the tables of one file say together, whatever mutations it went    *)
(* through: memberships, tags and their statuses, optional tables, and the *)
(* caches of the services it has always been in.                           *)
LibraryInv ==
  RowTypes /\ MembershipInv /\ StatusInv /\ TablesInv /\ CachesInv

(* Files whose tags a read finds: the caches of a bundle made by Hydrus    *)
(* know nothing of the services hydrus-go moved a file to.                 *)
Cacheless == {f \in read.files : ~(hydrusBundle /\ f \in moved)}

(* The rows a read owes to its caller.                                     *)
ReadBack(rows) ==
  IF Stale("metadata", "mappings") THEN {} ELSE RowsOf(Cacheless, rows)

(* The row a metadata request returns, although its queries see different  *)
(* moments: what was recorded before the request is in it (tags, their     *)
(* siblings and parents, notes, URLs), nothing is in it that is not        *)
(* recorded, a file with a row is somewhere (its storage is queried before *)
(* the trash), and if nothing was written meanwhile the row is exact.      *)
(* Two cases in which tags or notes are missing are stated: the bundle     *)
(* cached its table names before the table was created, and hydrus-go      *)
(* moved the file between services of a bundle with specific caches.       *)
RowsFaithful ==
  read.step = Answered =>
    LET F == read.files
        row == read.row
        before == read.before
        now == Facts(F)
    IN
    /\ \A q \in {"hashes", "info", "inbox", "urls"} :
         before[q] \subseteq row[q] /\ row[q] \subseteq now[q]
    /\ row["notes"] \subseteq now.notes
    /\ Stale("metadata", "notes") \/ before.notes \subseteq row["notes"]
    /\ ReadBack(before.tags["current"]) \subseteq row["current"]
    /\ row["current"] \subseteq now.tags["current"]
    /\ DisplayOf(ReadBack(before.tags["current"]))
         \subseteq row["displayCurrent"]
    /\ row["displayCurrent"] \subseteq DisplayOf(now.tags["current"])
    /\ \A f \in row["info"] :
         LET built == buildFullMetadataRow(f, row) IN
         /\ built.is_local \/ (built.is_trashed /\ built.is_deleted)
         /\ read.calm => /\ built.is_deleted = (f \in now.services["trash"])
                        /\ \A d \in Domains : now.time[f][d] # 0 =>
                             built.time_modified \in 1..now.time[f][d]
    /\ read.calm =>
         /\ \A s \in ServiceNames : row[s] = now.services[s]
         /\ ReadBack(now.tags["pending"]) = ReadBack(row["pending"])
         /\ ReadBack(now.tags["petitioned"]) = ReadBack(row["petitioned"])
         /\ ReadBack(now.tags["deleted"]) \subseteq row["deleted"]

(* A search finds the files of the library, not those in the trash, that   *)
(* have every tag asked for: no file that lacks one, and, if nothing was   *)
(* written meanwhile, all of them, unless the bundle cached its table      *)
(* names before the first tag was ever added.                              *)
SearchFindsTagged ==
  search.step = "answered" =>
    LET tagged(f) == \A t \in search.tags : <<f, t>> \in mappings["current"] IN
    /\ \A f \in search.found : f \in info /\ tagged(f)
    /\ search.calm /\ ~Stale("browse", "mappings") =>
         search.found = {f \in info \ deleted : tagged(f)}

-----------------------------------------------------------------------------
(* The inductive invariant.                                                *)

LibraryTypes ==
  /\ hydrusBundle \in BOOLEAN /\ deleted \subseteq info /\ moved \subseteq info
  /\ storageCache \in [CacheServices -> [CachedStatuses -> SUBSET Pairs]]
  /\ displayCache \in [CacheServices -> [DisplayStatuses -> SUBSET Pairs]]
  /\ names \in [{"metadata", "browse"} ->
               [{"mappings", "notes"} -> {"unread", "absent", "present"}]]

Searches ==
  [step : {"query", "answered"}, tags : (SUBSET Tags) \ {{}}, calm : BOOLEAN,
   found : SUBSET Files]

LibraryStrongInv ==
  /\ LibraryInv /\ LibraryTypes
  /\ search = [step |-> "idle"] \/ search \in Searches
  /\ SearchFindsTagged

-----------------------------------------------------------------------------
(* What a metadata read has gathered so far, query by query.               *)

Asked(q) == q \in DOMAIN read.row

ReadTypes ==
  \/ read = [step |-> 0]
  \/ /\ read = [step |-> read.step, files |-> read.files, row |-> read.row,
                calm |-> read.calm, before |-> read.before]
     /\ read.step \in 1..Answered /\ read.files \subseteq Files
     /\ read.calm \in BOOLEAN
     /\ DOMAIN read.row = {Queries[i] : i \in 1..(read.step - 1)}

(* What is in no table is in no cache.                                     *)
CacheSound ==
  hydrusBundle => \A s \in CacheServices :
    /\ storageCache[s]["current"] \subseteq mappings["current"]
    /\ displayCache[s]["current"] \subseteq DisplayOf(mappings["current"])

(* What was recorded when it began still is.                               *)
BeforeInv ==
  LET now == Facts(read.files) IN
  /\ \A q \in {"hashes", "info", "inbox", "urls", "notes"} :
       read.before[q] \subseteq now[q]
  /\ read.before.tags["current"] \subseteq now.tags["current"]

(* The lookups of files.                                                   *)
LookupsInv ==
  LET row == read.row
      now == Facts(read.files) IN
  /\ \A q \in {"hashes", "info", "inbox", "urls"} :
       Asked(q) => read.before[q] \subseteq row[q] /\ row[q] \subseteq now[q]
  /\ Asked("local") => names["metadata"]["notes"] # "unread"
  /\ Asked("notes") =>
       /\ names["metadata"]["mappings"] # "unread"
       /\ row["notes"] \subseteq now.notes
       /\ Stale("metadata", "notes") \/ read.before.notes \subseteq row["notes"]

(* A file seen in a service is still there, or was moved; one that was not *)
(* seen in the storage has been trashed.                                   *)
PlacesInv ==
  LET row == read.row IN
  /\ \A s \in ServiceNames : Asked(s) =>
       row[s] \subseteq read.files /\ row[s] \subseteq current[s] \cup moved
  /\ Asked("storage") => row["info"] \ row["storage"] \subseteq deleted
  /\ Asked("trash") => row["info"] \subseteq row["storage"] \cup row["trash"]

(* Current tags and what they imply.                                       *)
TagsInv ==
  LET row == read.row
      now == RowsOf(read.files, mappings["current"])
      owed == ReadBack(read.before.tags["current"]) IN
  /\ Asked("current") =>
       owed \subseteq row["current"] /\ row["current"] \subseteq now
  /\ Asked("displayCurrent") =>
       /\ DisplayOf(owed) \subseteq row["displayCurrent"]
       /\ row["displayCurrent"] \subseteq DisplayOf(now)

(* What a read that nobody disturbed has is what is recorded.              *)
CalmInv ==
  LET row == read.row
      now == Facts(read.files) IN
  read.calm =>
    /\ \A s \in ServiceNames : Asked(s) => row[s] = now.services[s]
    /\ Asked("deletedFrom") => row["deletedFrom"] = read.files \cap deleted
    /\ Asked("fileTime") =>
         row["fileTime"] = [f \in read.files |-> times[f]["file"]]
    /\ Asked("siteTime") =>
         row["siteTime"] = [f \in read.files |-> times[f]["site"]]
    /\ \A st \in {"pending", "petitioned"} : Asked(st) =>
         ReadBack(now.tags[st]) = ReadBack(row[st])
    /\ Asked("deleted") =>
         ReadBack(now.tags["deleted"]) \subseteq row["deleted"]

ReadInv ==
  /\ ReadTypes /\ CacheSound
  /\ read.step # 0 =>
       BeforeInv /\ LookupsInv /\ PlacesInv /\ TagsInv /\ CalmInv
=============================================================================
