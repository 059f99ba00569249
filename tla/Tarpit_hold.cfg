\* Two workers racing for one slot, a kill and a reload.
CONSTANTS
  Conns = {x1}
  NWorkers = 2
  MaxConns = 1
  Delay <- MCDelay
  Lifetime <- MCLifetime
  Bytes = 2
  MaxCycles = 2
SPECIFICATION Spec
INVARIANTS TypeOK OvershootBounded SlotsExact LifetimeBounded
PROPERTIES EveryoneReleased
