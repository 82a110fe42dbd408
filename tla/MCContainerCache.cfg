\* The handle cache of each plugin under every sequence of opens, failed
\* opens and shutdowns of three containers.
CONSTANTS
  p1 = p1
  p2 = p2
  p3 = p3
  NoPath = NoPath
  Paths <- MCPaths
  Plugins <- MCPlugins
  WithMetabase = TRUE

SYMMETRY MCSymmetry

SPECIFICATION Spec

INVARIANT SuccessMeansOpen
INVARIANT StoreMatchesContainer
