\* Three clients, a ring and a table of two, a fault and two reloads.  A sink
\* whose owner got no memory rests when nothing happens around it any more.
CONSTANTS
  Clients = {c1, c2, c3}
  Free = Free
  Ttl = 1
  Cap = 2
  MaxBans = 3
  MaxFaults = 1
  MaxReloads = 2
  MaxTime = 2
SPECIFICATION Spec
CHECK_DEADLOCK FALSE
INVARIANTS TypeOK FileWhole
PROPERTIES DecisionsExported RingDrained
