\* Two loaders, Redis pulls, a zone too small for the feed.
CONSTANTS
  k1 = k1
  k2 = k2
  k3 = k3
  Keys = {k1, k2, k3}
  Workers = {w1, w2}
  Actions = {"ban", "captcha"}
  Malformed = Malformed
  Feeds <- SmallFeeds
  Pulled <- MCPulled
  DefaultTtl = 2
  StaleAfter = 2
  Capacity = 2
  Batch = 1
  SidecarPeriod = 1
  MaxWrites = 2
  MaxCrashes = 0
  MaxPulls = 1
  MaxTime = 2
SPECIFICATION Spec
INVARIANTS ZoneConsistent
PROPERTIES LoadTerminates
