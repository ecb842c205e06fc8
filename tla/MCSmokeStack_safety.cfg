SPECIFICATION RetrySpec
CONSTANTS
  p1 = p1  p2 = p2
  Proxy = Proxy
  Pkgs <- TwoPkgs
INVARIANTS DownNilStopsAll Recorded
PROPERTY CleanupHappens
