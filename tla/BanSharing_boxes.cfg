\* Two boxes.
CONSTANTS
  ScoreMax = 100000
  Weight <- MCWeight
  Threshold <- MCThreshold
  Boxes = {b1, b2}
  Clients = {c1}
  Local <- MCLocal
  WindowThreshold = 2
  BlockTime = 1
  MaxOpen = 1
  BlockTtl = 1
  RedisTtl = 2
  RingSize = 1
  MaxTime = 2
SPECIFICATION Spec
INVARIANTS TypeOK BansHaveOrigin PulledBanBlocks BansRunOut
