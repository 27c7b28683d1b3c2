CONSTANTS
  Bookmark = {1}
  Tag = {1, 2}
  URL = {"a.b", "c.d"}
  Norm <- Normalized
  Name = {"x", "y"}
  Parts <- Splits
  AutoTags <- NoRules
  Request = {r1, r2}
  Engine = "postgres"
  Kinds = {"create", "rest", "tag", "untag", "state", "enhance", "delete", "newtag", "droptag", "rename"}
  RestFields <- Changes
SPECIFICATION Spec
PROPERTY NoLostUpdate
SYMMETRY Symmetry
CHECK_DEADLOCK FALSE
