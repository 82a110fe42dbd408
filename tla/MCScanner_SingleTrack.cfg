CONSTANTS
  Families = {"sacdiso", "dsdiff", "dvdaiso"}
  MaxTracks <- MCMaxTracks
  UIntMax <- MCUIntMax
  TagTypes <- MCTagTypes
  EmbeddedTypes <- MCEmbeddedTypes
  SidecarNodes <- MCSidecarNodes
  SidecarArt <- MCSidecarArt
  SidecarStores <- MCSidecarStores
  MaxStores <- MCMaxStores
SPECIFICATION Spec
INVARIANT SingleTrackSuppressed
CHECK_DEADLOCK FALSE
