CONSTANTS
  Elsewhere = Elsewhere
  r1 = r1
  r2 = r2
  Owner = {o1, o2}
  Editor = {e1}
  Orders = {0, 1}
  Positions = {0, 1, 3}
  MaxBundles = 3
  Name = {n1, n2}
  Browser = {w1}
  Request = {r1, r2}
  Modes <- ServerModes
  MaxSessions = 2
  MaxHashes = 3
  MaxTokens = 1
  MaxFlows = 2
  MaxFaults = 1
  NoFeed = NoFeed
  a1 = a1
  a2 = a2
  b1 = b1
  b2 = b2
  t1 = t1
  t2 = t2
  s1 = s1
  i1 = i1
  User = {a1, a2}
  AdminBookmark = {b1, b2}
  Tag = {t1, t2}
  Asset = {s1}
  AdminItem = {i1}
  Fresh = {t2}
  Owned <- SmallOwned
  Staff = {a1}
  May <- Everything
  MaxRequests = 2
  Null = Null
  Guest = Guest
  Total = 4
  First = {1, 2, 3}
  RowKinds <- SmallKinds
  Policies <- SmallPolicies
  Readers <- SmallReaders
  Limit = 1
  FeedLimit = 2
  Date <- SmallDates
  Guests = {a2, Null}
  MaxChanges = 1
  URL = {"a", "a/", "c"}
  Norm <- SmallNorm
  TagName = {"x", "y"}
  ImportFiles <- SmallFiles
  MaxBookmarks = 3
  MaxTags = 3
  MaxOthers = 1
  MaxErrors = 1
  Stored = {"asset", "image"}
  FolderOf <- SmallFolders
  Present = {"asset"}
  Page = {"a", "b", "c"}
  Capacity = 2
  MaxLoads = 5
SPECIFICATION MCSpec
INVARIANTS PartsTypeOK PlacesDistinct ChangeEndsSessions TokensShown OneSessionPerLogin DeletionsAreWhole GraphIsDeletion GrammarHolds TagLinksNarrow WalkShowsAll SubmittedIsApplied ImportIsWhole BackupIsWhole OneValueWhileCached
PROPERTIES MovePlaces ProxySignsIn
SYMMETRY Symmetry
CHECK_DEADLOCK FALSE
