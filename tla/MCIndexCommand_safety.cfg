SPECIFICATION Spec
CONSTANTS
  n1 = n1  v1 = v1  v2 = v2  amd64 = amd64  arm64 = arm64
  b1 = b1  b2 = b2
  NoTar = NoTar  NoVersion = NoVersion
  Names <- OneName
  Versions <- TwoVersions
  Arches <- BothArches
  Builds <- TwoBuilds
  MaxAt = 2
SYMMETRY BuildSymmetry
INVARIANTS BlobsServe RepeatChangesNothing
PROPERTIES PublishedStays OnlyRetireDrops
CHECK_DEADLOCK FALSE
