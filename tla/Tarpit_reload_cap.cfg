\* One worker, a reload while a connection is held.
CONSTANTS
  Conns = {x1, x2}
  NWorkers = 1
  MaxConns = 1
  Delay <- MCDelay
  Lifetime <- MCLifetime
  Bytes = 1
  MaxCycles = 2
SPECIFICATION Spec
INVARIANTS CapSurvivesReload
