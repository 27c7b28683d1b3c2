CONSTANTS
  s1 = s1
  s2 = s2
  r1 = r1
  r2 = r2
  b1 = b1
  b2 = b2
  Asset <- MCAsset
  Bookmark = {b1}
  BookmarkOf <- OneBookmark
  NameOf <- DistinctNames
  Server = {s1, s2}
  Request = {}
  MaxAttempts = 2
  RetryDelay <- MCRetryDelay
  LockLease = 2
  CaptureLimit = 1
  Copies = 1
  MaxCrashes = 1
  MaxStalls = 1
  MaxErrors = 0
SPECIFICATION Spec
INVARIANT SerialCapture
PROPERTY SettledOnce
CHECK_DEADLOCK FALSE
