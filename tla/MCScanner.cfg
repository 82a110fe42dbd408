CONSTANTS
  Families = {"sacdiso", "dvdaiso"}
  MaxTracks <- MCMaxTracks
  UIntMax <- MCUIntMax
  TagTypes <- MCTagTypes
  EmbeddedTypes <- MCEmbeddedTypes
  SidecarNodes <- MCSidecarNodesTitle
  SidecarArt <- MCSidecarArt
  SidecarStores <- MCSidecarStores
  MaxStores <- MCMaxStores
SPECIFICATION Spec
INVARIANT RoundTrip
INVARIANT ScanTagsAgree
INVARIANT DecodePlaysListedTrack
INVARIANT ContainerExposedOnce
INVARIANT SidecarOfListedTrack
\* A scan lists one container once; after it only lookups remain, and an
\* empty listing has none.
CHECK_DEADLOCK FALSE
