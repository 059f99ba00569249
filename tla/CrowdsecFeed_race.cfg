\* Two loaders and room for every decision.
CONSTANTS
  k1 = k1
  k2 = k2
  k3 = k3
  Keys = {k1, k2, k3}
  Workers = {w1, w2}
  Actions = {"ban", "captcha"}
  Malformed = Malformed
  Feeds <- SmallFeeds
  Pulled = {}
  DefaultTtl = 2
  StaleAfter = 2
  Capacity = 3
  Batch = 2
  SidecarPeriod = 1
  MaxWrites = 1
  MaxCrashes = 0
  MaxPulls = 0
  MaxTime = 2
SPECIFICATION Spec
INVARIANTS LoadedFeedServed
