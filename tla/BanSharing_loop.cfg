\* A soft-ban that outlives the pulled ban which caused it.
CONSTANTS
  ScoreMax = 100000
  Weight <- MCWeight
  Threshold <- MCThreshold
  Boxes = {b1, b2}
  Clients = {c1}
  Local <- MCLocal
  WindowThreshold = 2
  BlockTime = 1
  MaxOpen = 1
  BlockTtl = 3
  RedisTtl = 1
  RingSize = 1
  MaxTime = 3
SPECIFICATION Spec
INVARIANTS OnlyLocalPublished
