CONSTANTS
  s1 = s1
  s2 = s2
  r1 = r1
  r2 = r2
  b1 = b1
  b2 = b2
  Asset <- MCAsset
  Bookmark = {b1}
  BookmarkOf <- OneBookmark
  NameOf <- SameNames
  Server = {s1}
  Request = {r1}
  MaxAttempts = 2
  RetryDelay <- MCRetryDelay
  LockLease = 2
  CaptureLimit = 1
  Copies = 1
  MaxCrashes = 0
  MaxStalls = 0
  MaxErrors = 0
SPECIFICATION Spec
INVARIANT CompleteHasFile
CHECK_DEADLOCK FALSE
