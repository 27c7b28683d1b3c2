------------------------------- MODULE Server -------------------------------
(***************************************************************************)
(* The parts of the web server that share no state: Bundles, Accounts,      *)
(* Admin, Lists, Import, Backup and the cache of pages (and Search, which   *)
(* is added by MCServer).  A behaviour is of the part that its first state  *)
(* names.  The variables of the others hold Elsewhere, those of Accounts,   *)
(* whose own properties are checked, one of its first states.               *)
(***************************************************************************)
EXTENDS Accounts

CONSTANTS Elsewhere
CONSTANTS Owner, Editor, Orders, Positions, MaxBundles                                             \* of Bundles
CONSTANTS User, AdminBookmark, Tag, Asset, AdminItem, Fresh, Owned, Staff, May, MaxRequests, Null  \* of Admin
CONSTANTS Guest, Total, First, RowKinds, Policies, Readers, Limit, FeedLimit, Date, Guests, MaxChanges  \* of Lists
CONSTANTS URL, Norm, TagName, ImportFiles, MaxBookmarks, MaxTags, MaxOthers, MaxErrors             \* of Import
CONSTANTS Stored, FolderOf, Present                                                                \* of Backup
CONSTANTS Page, Capacity, MaxLoads                                                                 \* of MetadataCache

VARIABLES part
VARIABLES bundle, lastBundle, bundleCall, given
VARIABLES db, files, adminCall, left
VARIABLES row, policy, stored, guest, reader, submitted, param, pc, filter, page, pages,
          total, ids, changes, seen, constant, readable, slipped, replaced
VARIABLES bookmark, tag, link, lastId, import, otherChanges, errors
VARIABLES stage, backup, deleted
VARIABLES entries, loading, loads, answers

bundleVars == <<bundle, lastBundle, bundleCall, given>>
adminVars == <<db, files, adminCall, left>>
listVars == <<row, policy, stored, guest, reader, submitted, param, pc, filter, page, pages,
              total, ids, changes, seen, constant, readable, slipped, replaced>>
importVars == <<bookmark, tag, link, lastId, import, otherChanges, errors>>
backupVars == <<stage, backup, deleted>>
cacheVars == <<entries, loading, loads, answers>>
serverVars == <<part, bundleVars, vars, adminVars, listVars, importVars, backupVars, cacheVars>>

B == INSTANCE Bundles WITH Request <- Editor, last <- lastBundle, call <- bundleCall
D == INSTANCE Admin WITH
  Bookmark <- AdminBookmark, Item <- AdminItem, call <- adminCall
L == INSTANCE Lists WITH Kinds <- RowKinds
I == INSTANCE Import WITH
  Name <- TagName, Files <- ImportFiles, MaxChanges <- MaxOthers, last <- lastId, call <- import,
  changes <- otherChanges
K == INSTANCE Backup WITH Item <- Stored
M == INSTANCE MetadataCache WITH
  URL <- Page, Limit <- Capacity, call <- loading, given <- answers

ASSUME ServerAssumption ==
  /\ B!BundlesAssumption /\ D!AdminAssumption /\ L!ListsAssumption
  /\ I!ImportAssumption /\ K!BackupAssumption /\ M!CacheAssumption

-----------------------------------------------------------------------------
\* The variables of a part that is not checked.
BundlesOff == bundle = Elsewhere /\ lastBundle = Elsewhere /\ bundleCall = Elsewhere /\ given = Elsewhere
AccountsOff == Init /\ mode = {"proxy", "page"} /\ \A n \in DOMAIN account : account[n].email
AdminOff == db = Elsewhere /\ files = Elsewhere /\ adminCall = Elsewhere /\ left = Elsewhere
ListsOff ==
  /\ row = Elsewhere /\ policy = Elsewhere /\ stored = Elsewhere /\ guest = Elsewhere /\ reader = Elsewhere
  /\ submitted = Elsewhere /\ param = Elsewhere /\ pc = Elsewhere /\ filter = Elsewhere /\ page = Elsewhere
  /\ pages = Elsewhere /\ total = Elsewhere /\ ids = Elsewhere /\ changes = Elsewhere /\ seen = Elsewhere
  /\ constant = Elsewhere /\ readable = Elsewhere /\ slipped = Elsewhere /\ replaced = Elsewhere
ImportOff ==
  /\ bookmark = Elsewhere /\ tag = Elsewhere /\ link = Elsewhere /\ lastId = Elsewhere /\ import = Elsewhere
  /\ otherChanges = Elsewhere /\ errors = Elsewhere
BackupOff == stage = Elsewhere /\ backup = Elsewhere /\ deleted = Elsewhere
CacheOff == entries = Elsewhere /\ loading = Elsewhere /\ loads = Elsewhere /\ answers = Elsewhere

ServerInit ==
  /\ part \in {"bundles", "accounts", "admin", "search", "lists", "import", "backup", "cache"}
  /\ IF part = "bundles" THEN B!Init ELSE BundlesOff
  /\ IF part = "accounts" THEN Init ELSE AccountsOff
  /\ IF part = "admin" THEN D!Init ELSE AdminOff
  /\ IF part = "lists" THEN L!Init ELSE ListsOff
  /\ IF part = "import" THEN I!Init ELSE ImportOff
  /\ IF part = "backup" THEN K!Init ELSE BackupOff
  /\ IF part = "cache" THEN M!Init ELSE CacheOff

ServerNext ==
  /\ UNCHANGED part
  /\ \/ part = "bundles" /\ B!Next
          /\ UNCHANGED <<vars, adminVars, listVars, importVars, backupVars, cacheVars>>
     \/ part = "accounts" /\ Next
          /\ UNCHANGED <<bundleVars, adminVars, listVars, importVars, backupVars, cacheVars>>
     \/ part = "admin" /\ D!Next
          /\ UNCHANGED <<bundleVars, vars, listVars, importVars, backupVars, cacheVars>>
     \/ part = "lists" /\ L!Next
          /\ UNCHANGED <<bundleVars, vars, adminVars, importVars, backupVars, cacheVars>>
     \/ part = "import" /\ I!Next
          /\ UNCHANGED <<bundleVars, vars, adminVars, listVars, backupVars, cacheVars>>
     \/ part = "backup" /\ K!Next
          /\ UNCHANGED <<bundleVars, vars, adminVars, listVars, importVars, cacheVars>>
     \/ part = "cache" /\ M!Next
          /\ UNCHANGED <<bundleVars, vars, adminVars, listVars, importVars, backupVars>>

ServerSpec == ServerInit /\ [][ServerNext]_serverVars

-----------------------------------------------------------------------------
\* The variables of each part have their types.
PartsTypeOK ==
  /\ TypeOK
  /\ part = "bundles" => B!TypeOK
  /\ part = "admin" => D!TypeOK
  /\ part = "lists" => L!TypeOK
  /\ part = "backup" => K!TypeOK

\* Bundles: places collide only where a request put them.
PlacesDistinct == part = "bundles" => B!PlacesDistinct
\* Bundles: a move numbers one list from 0 and keeps the order of the others.
MovePlaces == [][part = "bundles" => B!MoveStep]_bundleVars

\* Admin: a deletion is whole.  It leaves no reference to a missing row, a row
\* whose deletion is logged does not exist, and files go with their rows,
\* neither before nor never.
DeletionsAreWhole ==
  part = "admin" => D!References /\ D!LoggedDeletionIsReal /\ D!FilesFollowRows
\* Admin: the confirmation page counts what the deletion of users removes.
GraphIsDeletion == part = "admin" => D!GraphIsDeletion

\* Lists: a walk from page to page shows what stayed on the list, a feed the
\* newest of it, and nothing that its reader may not see.
WalkShowsAll == part = "lists" => L!WalkShowsAll
\* Lists: the page applies the submitted form.
SubmittedIsApplied == part = "lists" => L!SubmittedIsApplied
\* Import: a file that is imported without an error is there as a whole.
ImportIsWhole == part = "import" => I!ImportIsWhole
\* Backup: a published backup has the files that its rows name.
BackupIsWhole == part = "backup" => K!BackupIsWhole
\* Metadata cache: callers of a cached page got one answer.
OneValueWhileCached == part = "cache" => M!OneValueWhileCached
=============================================================================
