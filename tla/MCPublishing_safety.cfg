SPECIFICATION Spec
CONSTANTS
  n1 = n1  n2 = n2  v1 = v1  v2 = v2  amd64 = amd64
  b1 = b1  b2 = b2
  NoTar = NoTar  NoVersion = NoVersion  None = None  Skipped = Skipped
  Names <- TwoNames
  Versions <- TwoVersions
  Arches <- OneArch
  Builds <- TwoBuilds
  Native <- NoNames
  MaxTriggers = 3
INVARIANTS GhcrComplete SiteBehind WholeIsListed
PROPERTIES NothingUnpublished CommandSpec
SYMMETRY NameSymmetry
CHECK_DEADLOCK FALSE
