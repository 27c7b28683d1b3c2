CONSTANTS
  b1 = b1
  u1 = u1
  u2 = u2
  h1 = h1
  h2 = h2
  URL = {u1, u2}
  HostOf <- MCHostOf
  NormOf <- MCNormOf
  Bookmark = {b1}
  URLsOf <- OneURLsOf
  i1 = i1
  w2 = w2
  Worker = {w1, w2}
  Request = {}
  Importer = {i1}
  Admin = {a1}
  Profiles <- OneAtATime
  Copies = 2
  MaxFaults = 1
SPECIFICATION PartSpec
VIEW View
INVARIANT ShowsItsPage
CHECK_DEADLOCK FALSE
