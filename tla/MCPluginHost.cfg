\* The update and decoder threads calling one plugin without serialization.
CONSTANTS
  p1 = p1
  p2 = p2
  NoPath = NoPath
  Paths <- MCPaths
  Plugins = {"sacdiso"}
  WithMetabase = TRUE
SPECIFICATION Spec
INVARIANT ReadsOwnContainer
