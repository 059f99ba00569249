\* One browser with two addresses, two files that load and one that does not.
CONSTANTS
  None = None
  Bad = Bad
  Locs <- MCLocs
  Tree <- MCTree
  FeedTimers = 2
  Capacity <- MCCapacity
  Files <- MCFiles
  Drafts <- MCDrafts
  Browsers = {b}
  Addrs <- MCAddrs
  Shapes <- MCShapes
  Knowledge <- MCKnowledge
  Routes <- MCRoutes
  MaxSolve = 1
  Epoch = 100
  MaxTime = 104
  MaxReloads = 2
SPECIFICATION Spec
INVARIANTS TypeOK AdmissionEarned SecondTrySucceeds  BoundZonesLive TimersArmed
