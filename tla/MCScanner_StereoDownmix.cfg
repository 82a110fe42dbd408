CONSTANTS
  Families = {"dvdaiso"}
  MaxTracks <- MCMaxTracks
  UIntMax <- MCUIntMax
  TagTypes <- MCTagTypes
  EmbeddedTypes <- MCEmbeddedTypes
  SidecarNodes <- MCSidecarNodes
  SidecarArt <- MCSidecarArt
  SidecarStores <- MCSidecarStores
  MaxStores <- MCMaxStores
SPECIFICATION Spec
INVARIANT DownmixOnlyOfMultichannel
CHECK_DEADLOCK FALSE
