---------------------------- MODULE Server_proofs ----------------------------
(***************************************************************************)
(* What Server promises, for all values of its constants, from the theorems *)
(* about its parts.  A behaviour stays with the part that it begins with,   *)
(* so it is a behaviour of that part's own specification, and the others    *)
(* make no step.                                                            *)
(***************************************************************************)
EXTENDS Accounts_proofs, Admin_proofs, Parts_proofs

\* The part of a behaviour never changes.
LEMMA OnePart == ASSUME NEW p, [ServerNext]_serverVars PROVE (part = p)' <=> part = p
BY DEF ServerNext, serverVars

-----------------------------------------------------------------------------
(* A behaviour of a part is one of its specification. *)

\* Accounts begins as its specification says in every behaviour.
LEMMA AccountsRun == ServerSpec => Spec
  <1>1. ServerInit => Init
    BY DEF ServerInit, AccountsOff
  <1>2. [ServerNext]_serverVars => [Next]_vars
    BY DEF ServerNext, serverVars
  <1> QED BY <1>1, <1>2, PTL DEF ServerSpec, Spec

LEMMA BundlesRun == ServerSpec => ([](part = "bundles") /\ B!Spec) \/ [](~(part = "bundles"))
  <1>1. ServerInit /\ part = "bundles" => B!Init
    BY DEF ServerInit
  <1>2. part = "bundles" /\ [ServerNext]_serverVars => (part = "bundles")' /\ [B!Next]_B!vars
    BY OnePart DEF ServerNext, serverVars, bundleVars, B!vars
  <1>3. ~(part = "bundles") /\ [ServerNext]_serverVars => (~(part = "bundles"))'
    BY OnePart
  <1> QED BY <1>1, <1>2, <1>3, PTL DEF ServerSpec, B!Spec

LEMMA AdminRun == ServerSpec => ([](part = "admin") /\ D!Spec) \/ [](~(part = "admin"))
  <1>1. ServerInit /\ part = "admin" => D!Init
    BY DEF ServerInit
  <1>2. part = "admin" /\ [ServerNext]_serverVars => (part = "admin")' /\ [D!Next]_D!vars
    BY OnePart DEF ServerNext, serverVars, adminVars, D!vars
  <1>3. ~(part = "admin") /\ [ServerNext]_serverVars => (~(part = "admin"))'
    BY OnePart
  <1> QED BY <1>1, <1>2, <1>3, PTL DEF ServerSpec, D!Spec

LEMMA ListsRun == ServerSpec => ([](part = "lists") /\ L!Spec) \/ [](~(part = "lists"))
  <1>1. ServerInit /\ part = "lists" => L!Init
    BY DEF ServerInit
  <1>2. part = "lists" /\ [ServerNext]_serverVars => (part = "lists")' /\ [L!Next]_L!vars
    BY OnePart DEF ServerNext, serverVars, listVars, L!vars, L!data, L!request, L!history
  <1>3. ~(part = "lists") /\ [ServerNext]_serverVars => (~(part = "lists"))'
    BY OnePart
  <1> QED BY <1>1, <1>2, <1>3, PTL DEF ServerSpec, L!Spec

LEMMA ImportRun == ServerSpec => ([](part = "import") /\ I!Spec) \/ [](~(part = "import"))
  <1>1. ServerInit /\ part = "import" => I!Init
    BY DEF ServerInit
  <1>2. part = "import" /\ [ServerNext]_serverVars => (part = "import")' /\ [I!Next]_I!vars
    BY OnePart DEF ServerNext, serverVars, importVars, I!vars
  <1>3. ~(part = "import") /\ [ServerNext]_serverVars => (~(part = "import"))'
    BY OnePart
  <1> QED BY <1>1, <1>2, <1>3, PTL DEF ServerSpec, I!Spec

LEMMA BackupRun == ServerSpec => ([](part = "backup") /\ K!Spec) \/ [](~(part = "backup"))
  <1>1. ServerInit /\ part = "backup" => K!Init
    BY DEF ServerInit
  <1>2. part = "backup" /\ [ServerNext]_serverVars => (part = "backup")' /\ [K!Next]_K!vars
    BY OnePart DEF ServerNext, serverVars, backupVars, K!vars
  <1>3. ~(part = "backup") /\ [ServerNext]_serverVars => (~(part = "backup"))'
    BY OnePart
  <1> QED BY <1>1, <1>2, <1>3, PTL DEF ServerSpec, K!Spec

LEMMA CacheRun == ServerSpec => ([](part = "cache") /\ M!Spec) \/ [](~(part = "cache"))
  <1>1. ServerInit /\ part = "cache" => M!Init
    BY DEF ServerInit
  <1>2. part = "cache" /\ [ServerNext]_serverVars => (part = "cache")' /\ [M!Next]_M!vars
    BY OnePart DEF ServerNext, serverVars, cacheVars, M!vars
  <1>3. ~(part = "cache") /\ [ServerNext]_serverVars => (~(part = "cache"))'
    BY OnePart
  <1> QED BY <1>1, <1>2, <1>3, PTL DEF ServerSpec, M!Spec

-----------------------------------------------------------------------------
\* The variables of each part have their types.
THEOREM PartsHaveTypes == ServerSpec => []PartsTypeOK
  <1>1. Spec => []TypeOK
    BY TypesHold
  <1>2. B!Spec => []B!TypeOK
    BY ServerAssumption, BundleTypesHold
  <1>3. D!Spec => []D!TypeOK
    BY ServerAssumption, AdminTypesHold
  <1>4. L!Spec => []L!TypeOK
    BY ServerAssumption, ListTypesHold
  <1>5. K!Spec => []K!TypeOK
    BY ServerAssumption, BackupTypesHold
  <1> QED BY <1>1, <1>2, <1>3, <1>4, <1>5, AccountsRun, BundlesRun, AdminRun, ListsRun, BackupRun,
             PTL DEF PartsTypeOK

\* Two bundles of an owner share a place only if a request put one of them there
\* (bundles_api.go createBundle and deleteBundle, bundles_ui.go moveBundleUI).
THEOREM PlacesStayDistinct == ServerSpec => []PlacesDistinct
  <1>1. B!Spec => []B!PlacesDistinct
    BY ServerAssumption, PlacesDistinctHolds
  <1> QED BY <1>1, BundlesRun, PTL DEF PlacesDistinct

\* A move numbers one owner's list from 0, keeps the order of the others and leaves
\* the other owners' lists alone (bundles_ui.go moveBundleUI).
THEOREM MovesPlace == ServerSpec => MovePlaces
  <1>1. B!Spec => [][B!MoveStep]_bundleVars
    BY ServerAssumption, MovePlacesHolds DEF B!MovePlaces, B!vars, bundleVars
  <1>2. [B!MoveStep]_bundleVars => [part = "bundles" => B!MoveStep]_bundleVars
    OBVIOUS
  <1>3. ~(part = "bundles") => [part = "bundles" => B!MoveStep]_bundleVars
    OBVIOUS
  <1> QED BY <1>1, <1>2, <1>3, BundlesRun, PTL DEF MovePlaces

\* A deletion in the admin site leaves no reference to a missing row, a row whose
\* deletion is logged does not exist, and files go with their rows (admin_models.go,
\* admin_user.go).
THEOREM DeletionsStayWhole == ServerSpec => []DeletionsAreWhole
  <1>1. D!Spec => []D!References
    BY ServerAssumption, ReferencesHold
  <1>2. D!Spec => []D!LoggedDeletionIsReal
    BY ServerAssumption, LogIsTrue
  <1>3. D!Spec => []D!FilesFollowRows
    BY ServerAssumption, FilesAreFollowed
  <1> QED BY <1>1, <1>2, <1>3, AdminRun, PTL DEF DeletionsAreWhole

\* The confirmation page counts what the deletion of users removes, every relation
\* once (admin_user_deletion_graph.go).
THEOREM GraphsAreDeletions == ServerSpec => []GraphIsDeletion
  <1>1. D!Spec => []D!GraphIsDeletion
    BY ServerAssumption, GraphIsTheDeletion
  <1> QED BY <1>1, AdminRun, PTL DEF GraphIsDeletion

\* A walk from page to page shows what stayed on the list, a feed the newest of it,
\* unless the list moved or a page tore a date, and nothing that its reader was never
\* entitled to see (bookmark_list_page.go, bookmarks_api.go, feeds.go).
THEOREM WalksShow == ServerSpec => []WalkShowsAll
  <1>1. L!Spec => []L!WalkShowsAll
    BY ServerAssumption, WalksShowAll
  <1> QED BY <1>1, ListsRun, PTL DEF WalkShowsAll

\* The page applies the submitted form (bookmark_list_page.go).
THEOREM FormsApply == ServerSpec => []SubmittedIsApplied
  <1>1. L!Spec => []L!SubmittedIsApplied
    BY ServerAssumption, SubmittedApplies
  <1> QED BY <1>1, ListsRun, PTL DEF SubmittedIsApplied

\* A file that is imported without an error is there as a whole, except what others
\* changed since (importexport/importer.go).
THEOREM ImportsAreWhole == ServerSpec => []ImportIsWhole
  <1>1. I!Spec => []I!ImportIsWhole
    BY ServerAssumption, ImportIsWholeHolds
  <1> QED BY <1>1, ImportRun, PTL DEF ImportIsWhole

\* A published backup has the file of every row in its database, save what was
\* deleted while it was made (backup.go Full).
THEOREM BackupsAreWhole == ServerSpec => []BackupIsWhole
  <1>1. K!Spec => []K!BackupIsWhole
    BY ServerAssumption, BackupIsWholeHolds
  <1> QED BY <1>1, BackupRun, PTL DEF BackupIsWhole

\* All callers of a page got one answer while it was cached (metadata/cache.go).
THEOREM OneAnswerWhileCached == ServerSpec => []OneValueWhileCached
  <1>1. M!Spec => []M!OneValueWhileCached
    BY ServerAssumption, OneValueWhileCachedHolds
  <1> QED BY <1>1, CacheRun, PTL DEF OneValueWhileCached
=============================================================================
