CONSTANTS
  DkgInterval <- MCDkgInterval
  DkgMiningWindowStart <- MCDkgMiningWindowStart
  DkgMiningWindowEnd <- MCDkgMiningWindowEnd
  MnCounts <- MCMnCounts
  NetworkID = "main"
  MaxHeight = 11

SPECIFICATION Spec

PROPERTIES
  NoTierChangeInMiningPhase
