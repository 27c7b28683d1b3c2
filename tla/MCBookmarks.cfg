CONSTANTS
  Bookmark = {1, 2}
  Tag = {1, 2}
  URL = {"a.b", "a.b/", "c.d"}
  Norm <- Normalized
  Name = {"x", "x,"}
  Parts <- Splits
  AutoTags <- OneRule
  Request = {r1, r2}
  Engine = "sqlite"
  Kinds = {"create", "form", "rest", "delete", "tag", "merge", "newtag"}
  RestFields <- NoFields
SPECIFICATION Spec
INVARIANT OneBookmarkPerURL
PROPERTIES RequestsAreWhole JobsWithRows NoTagTwice KeepsTags MergeKeepsTaggings
SYMMETRY Symmetry
CHECK_DEADLOCK FALSE
