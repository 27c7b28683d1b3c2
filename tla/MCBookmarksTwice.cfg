CONSTANTS
  Bookmark = {1, 2}
  Tag = {1}
  URL = {"a.b", "a.b/"}
  Norm <- Normalized
  Name = {}
  Parts <- Splits
  AutoTags <- NoRules
  Request = {r1, r2}
  Engine = "postgres"
  Kinds = {"create"}
  RestFields <- NoFields
SPECIFICATION Spec
INVARIANT OneBookmarkPerURL
CHECK_DEADLOCK FALSE
