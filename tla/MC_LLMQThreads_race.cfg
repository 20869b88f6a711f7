CONSTANTS
  DkgInterval <- MCDkgInterval
  DkgMiningWindowStart <- MCDkgMiningWindowStart
  DkgMiningWindowEnd <- MCDkgMiningWindowEnd
  MnCounts <- MCMnCounts
  NetworkID = "main"
  MaxHeight = 5
  t1 = t1
  t2 = t2
  Threads = {t1, t2}
  MaxCalls = 3

SPECIFICATION ThreadsSpec
CHECK_DEADLOCK FALSE
INVARIANTS
  QuiescentCatalogFollowsLastCheck
