----------------------------- MODULE FreshBundle -----------------------------
(***************************************************************************)
(* What internal/bootstrap/nativebundle.go writes into a fresh client      *)
(* bundle, what its own verification asks of one, and the storage layout   *)
(* that a bundle read from it resolves (internal/db/hydrusdb/storage.go,   *)
(* internal/storage/clientfiles/layout.go).  Only definitions: the module  *)
(* Bootstrap has the processes.                                            *)
(***************************************************************************)
EXTENDS Naturals, Sequences, FiniteSets

CONSTANTS Digits,        \* 16 hexadecimal digits in the code
          PrefixLength   \* DefaultPrefixLength, 2 in the code

ASSUME FreshAssumption ==
  /\ Digits # {} /\ IsFiniteSet(Digits)
  /\ PrefixLength \in Nat \ {0}

ReferenceHydrusVersion == 668

Kinds == {"f", "t"}   \* KindFile, KindThumbnail

Hashes == [1..PrefixLength -> Digits]   \* the digits a prefix is made of

(* Locations as portableStorageLocation stores them: client_files is in    *)
(* the bundle's directory, thumbnails beside it.                           *)
ClientFiles == [relative |-> TRUE, path |-> "client_files"]
Thumbnails  == [relative |-> FALSE, path |-> "thumbnails"]

-----------------------------------------------------------------------------
(* Services.                                                               *)

Service(name, type) ==
  [name |-> name, type |-> type,
   dictionary |-> IF name = "favourites" THEN "fat star" ELSE "empty"]

DefaultCatalog ==
  << Service("my tags", "localTag"), Service("downloader tags", "localTag"),
     Service("my files", "localFileDomain"),
     Service("repository updates", "localFileUpdateDomain"),
     Service("hydrus local file storage", "hydrusLocalFileStorage"),
     Service("combined local file domains", "combinedLocalFileDomains"),
     Service("all known files", "combinedFile"),
     Service("all known tags", "combinedTag"),
     Service("favourites", "localRatingLike"),
     Service("trash", "localFileTrashDomain") >>

BootstrapCatalog ==
  DefaultCatalog \o
  << Service("deleted from anywhere", "combinedDeletedFile"),
     Service("local notes", "localNotes"),
     Service("client api", "clientAPIService") >>

(* DiscoveryTypes: the types List returns the services of.                 *)
DiscoveryTypes ==
  {"localTag", "tagRepository", "localFileDomain", "localFileUpdateDomain",
   "fileRepository", "hydrusLocalFileStorage", "combinedLocalFileDomains",
   "combinedFile", "combinedTag", "localRatingLike", "localRatingNumerical",
   "localRatingIncDec", "localFileTrashDomain"}

(* shouldCreateCurrentMembershipTable, shouldCreateDeletedMembershipTable. *)
CurrentMembershipTypes ==
  {"localFileDomain", "hydrusLocalFileStorage", "combinedLocalFileDomains",
   "combinedFile", "combinedDeletedFile", "localFileTrashDomain"}
DeletedMembershipTypes == {"combinedLocalFileDomains", "combinedFile"}

MembershipTables(catalog) ==
  {<<"current_files", id>> :
     id \in {i \in DOMAIN catalog : catalog[i].type \in CurrentMembershipTypes}}
  \cup
  {<<"deleted_files", id>> :
     id \in {i \in DOMAIN catalog : catalog[i].type \in DeletedMembershipTypes}}

-----------------------------------------------------------------------------
(* The databases that are created, before they are moved into place.       *)

StorageTables ==
  {"current_client_files_locations", "client_files_subfolders",
   "ideal_client_files_locations", "ideal_thumbnail_override_location",
   "current_storage_granularity"}

(* The tables of createMainBootstrapDB that the reads and writes of the    *)
(* other modules and the verification need.                                *)
MainSchema ==
  {"version", "services", "service_info", "files_info", "file_inbox",
   "file_modified_timestamps", "file_domain_modified_timestamps", "url_map"}
  \cup StorageTables

MasterSchema ==
  {"hashes", "blurhashes", "namespaces", "subtags", "tags", "url_domains",
   "urls"}

(* storagePrefixes.                                                        *)
StoragePrefixes(kind) == {[kind |-> kind, digits |-> h] : h \in Hashes}

Subfolders(kind, location) ==
  {[prefix |-> p, location |-> location] : p \in StoragePrefixes(kind)}

(* Seeded fault: thumbnails get no subfolder rows.                         *)
SeededStorageWithoutThumbnails ==
  [granularity |-> PrefixLength,
   locations |-> {ClientFiles, Thumbnails},
   subfolders |-> Subfolders("f", ClientFiles),
   ideal |-> {ClientFiles}, thumbnailOverride |-> {Thumbnails}]

(* seedBootstrapStorage.                                                   *)
SeededStorage ==
  [granularity |-> PrefixLength,
   locations |-> {ClientFiles, Thumbnails},
   subfolders |-> Subfolders("f", ClientFiles) \cup Subfolders("t", Thumbnails),
   ideal |-> {ClientFiles}, thumbnailOverride |-> {Thumbnails}]

(* createMainBootstrapDB; seedBootstrapServices numbers the services in    *)
(* catalog order.                                                          *)
MainDB ==
  [version |-> ReferenceHydrusVersion, services |-> BootstrapCatalog,
   tables |-> MainSchema, memberships |-> MembershipTables(BootstrapCatalog),
   storage |-> SeededStorage]

MasterDB ==
  [tables |-> MasterSchema, namespaces |-> {<<1, "">>},
   indexes |-> {"tags_namespace_subtag_idx"}]

-----------------------------------------------------------------------------
(* defaultVerifyFreshClientBundle.                                         *)

(* Bundle.List: the ids of the services of the discovery types.            *)
Listed(main) ==
  {i \in DOMAIN main.services : main.services[i].type \in DiscoveryTypes}

SetOf(seq) == {seq[i] : i \in DOMAIN seq}

IdsOfType(main, type) ==
  {i \in DOMAIN main.services : main.services[i].type = type}

(* verifyFavouritesService: the dictionary the seed carries.               *)
FavouritesVerified(listed) ==
  \E s \in listed : s.name = "favourites" /\ s.dictionary = "fat star"

(* verifySeededRuntimeServices.                                            *)
ServicesVerified(main) ==
  LET catalog == {main.services[i] : i \in Listed(main)} IN
  /\ Len(main.services) = Len(BootstrapCatalog)
  /\ SetOf(BootstrapCatalog) \subseteq SetOf(main.services)
  /\ \A type \in CurrentMembershipTypes :
       /\ Cardinality(IdsOfType(main, type)) = 1
       /\ \A id \in IdsOfType(main, type) :
            <<"current_files", id>> \in main.memberships
  /\ \A type \in DeletedMembershipTypes :
       \A id \in IdsOfType(main, type) :
         <<"deleted_files", id>> \in main.memberships
  /\ Cardinality(Listed(main)) = Len(DefaultCatalog)
  /\ catalog = SetOf(DefaultCatalog)
  /\ FavouritesVerified(catalog)

(* verifySeededBootstrapTables.                                            *)
TablesVerified(main) ==
  {"version", "service_info"} \cup StorageTables \subseteq main.tables

(* verifySeededMasterBootstrapTables.                                      *)
MasterVerified(master) ==
  /\ MasterSchema \subseteq master.tables
  /\ \E n \in master.namespaces : n = <<1, "">>
  /\ "tags_namespace_subtag_idx" \in master.indexes

(* verifySeededBootstrapStorage: counts, and the location of each prefix.  *)
StorageVerified(storage) ==
  LET expected == Cardinality(Hashes)
      ofKind(k) == {r \in storage.subfolders : r.prefix.kind = k} IN
  /\ storage.granularity = PrefixLength
  /\ Cardinality(storage.locations) = 2
  /\ Cardinality(storage.ideal) = 1
  /\ storage.thumbnailOverride = {Thumbnails}
  /\ Cardinality(storage.subfolders) = 2 * expected
  /\ Cardinality(ofKind("f")) = expected /\ Cardinality(ofKind("t")) = expected
  /\ \A r \in ofKind("f") : r.location = ClientFiles
  /\ \A r \in ofKind("t") : r.location = Thumbnails

(* verifySeededBootstrapVersion.                                           *)
VersionVerified(main) == main.version = ReferenceHydrusVersion

Verified(main, master) ==
  /\ ServicesVerified(main) /\ TablesVerified(main)
  /\ MasterVerified(master) /\ StorageVerified(main.storage)
  /\ VersionVerified(main)

-----------------------------------------------------------------------------
(* ManagedLayout: prefix to root, the first row of a prefix wins, relative *)
(* locations are joined to the directory of client.db.                     *)

ResolvedLocation(dir, location) ==
  IF location.relative THEN <<dir, location.path>> ELSE <<location.path>>

ManagedLayout(dir, storage) ==
  [prefixLength |-> storage.granularity,
   roots |-> [p \in {r.prefix : r \in storage.subfolders} |->
     ResolvedLocation(dir,
       (CHOOSE r \in storage.subfolders : r.prefix = p).location)]]

(* Layout.rootForHash: a prefix with no root is an error.                  *)
HasRoot(layout, kind, hash) ==
  [kind |-> kind, digits |-> SubSeq(hash, 1, layout.prefixLength)]
    \in DOMAIN layout.roots

(* Layout.rootForPrefix.                                                   *)
RootOf(layout, kind, hash) ==
  layout.roots[[kind |-> kind,
                digits |-> SubSeq(hash, 1, layout.prefixLength)]]
=============================================================================
