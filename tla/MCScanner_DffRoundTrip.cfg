CONSTANTS
  Families = {"dsdiff"}
  MaxTracks <- MCMaxTracks
  UIntMax <- MCUIntMax
  TagTypes <- MCTagTypes
  EmbeddedTypes <- MCEmbeddedTypes
  SidecarNodes <- MCSidecarNodes
  SidecarArt <- MCSidecarArt
  SidecarStores <- MCSidecarStores
  MaxStores <- MCMaxStores
SPECIFICATION Spec
INVARIANT RoundTrip
CHECK_DEADLOCK FALSE
