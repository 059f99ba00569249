\* A crawler and another client, two locations that share the cache.
CONSTANTS
  g = g
  x = x
  bot = bot
  isp = isp
  strict = strict
  lax = lax
  None = None
  Ips = {g, x}
  Names = {bot, isp}
  Worlds <- MCWorlds
  Locs = {strict, lax}
  Accepts <- MCAccepts
  Ttl <- MCTtl
  Interval = 1
  Timeout = 1
  Capacity = 1
  Workers = {w1, w2}
  MaxLookups = 1
  MaxChanges = 1
  MaxTime = 4
SPECIFICATION Spec
INVARIANTS TypeOK VerdictBacked
PROPERTIES VerdictKept EveryLookupEnds
