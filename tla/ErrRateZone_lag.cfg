\* Two workers whose cached clocks may disagree by a second.
CONSTANTS
  Keys = {k1, k2, k3}
  Workers = {w1, w2}
  Threshold = 3
  Interval = 3
  Block = 2
  Ttls = {1, 3}
  Capacity = 2
  MaxLag = 1
  MaxTime = 6
SPECIFICATION Spec
SYMMETRY Symmetry
INVARIANT Inv
PROPERTIES BanHonoured NoEventLostEarly ImplementsLimiter
