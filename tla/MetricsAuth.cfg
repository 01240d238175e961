SPECIFICATION LiveSpec
CONSTANTS
  Conns = {c1, c2}
  Tokens = {t1, t2}
  cacheTTL = 2
  cacheMax = 1
  MaxTime = 3
  MaxChange = 1
  None = None
INVARIANT CacheBounded
PROPERTIES RevokedRefused CacheNeverBlocked
