CONSTANTS
  b1 = b1
  b2 = b2
  u1 = u1
  u2 = u2
  h1 = h1
  URL = {u1, u2}
  HostOf <- OneHost
  NormOf <- SameNorm
  Bookmark = {b1, b2}
  URLsOf <- TwoURLsOf
  Worker = {w1}
  Request = {r1}
  Importer = {i1}
  Admin = {a1}
  Profiles <- Images
  Copies = 2
  MaxFaults = 1
SYMMETRY Swap
VIEW View
SPECIFICATION PartSpec
INVARIANTS NamedFilesExist EnabledMeansAsked
CHECK_DEADLOCK FALSE
