\* One loading worker that may die, room for every decision.
CONSTANTS
  k1 = k1
  k2 = k2
  k3 = k3
  Keys = {k1, k2, k3}
  Workers = {w1}
  Actions = {"ban", "captcha"}
  Malformed = Malformed
  Feeds <- MCFeeds
  Pulled = {}
  DefaultTtl = 2
  StaleAfter = 2
  Capacity = 3
  Batch = 2
  SidecarPeriod = 1
  MaxWrites = 2
  MaxCrashes = 1
  MaxPulls = 0
  MaxTime = 4
SPECIFICATION Spec
INVARIANTS TypeOK LoadedFeedServed
PROPERTIES SweptAreAbsent FreshFeedLoaded
