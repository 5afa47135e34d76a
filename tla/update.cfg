SPECIFICATION Spec
CONSTANTS
  Hub = Hub
  Ctls = {c1}
  NoOne = NoOne
  NoManifest = NoManifest
  Soak = "wait"
  MaxTag = 4
  VersionOf <- OutOfOrder
  MaxFaults = 1
INVARIANT OnlyVerified
INVARIANT PairMatches
PROPERTY OnlyNewer
PROPERTY SoakHonoured
PROPERTY LatestInstalled
