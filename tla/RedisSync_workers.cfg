\* Two workers, one of which leaves; the key is on the second SCAN page; with a
\* password.
CONSTANTS
  k1 = k1
  k2 = k2
  Keys = {k1}
  Workers = {w1, w2}
  Leavers = {w1}
  Page <- MCPage
  Pages = 2
  Password = TRUE
  Ttl = 1
  RingSize = 1
  BackoffMin = 1
  BackoffMax = 3
  MaxBans = 1
  MaxFaults = 1
  MaxTime = 1
SPECIFICATION Spec
INVARIANTS TypeOK LinkSound AtMostOnce BanLifetimes
PROPERTIES PullDelivers RingDrained ExitsGracefully
