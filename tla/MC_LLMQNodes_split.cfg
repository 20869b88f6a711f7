CONSTANTS
  DkgInterval <- MCDkgInterval
  DkgMiningWindowStart <- MCDkgMiningWindowStart
  DkgMiningWindowEnd <- MCDkgMiningWindowEnd
  MnCounts <- MCMnCounts
  NetworkID = "main"
  MaxHeight = 7
  MaxRestarts = 1
  StableWindow = 4

SPECIFICATION Spec
\* The chain stops at MaxHeight only because the model bounds it.
CHECK_DEADLOCK FALSE
INVARIANTS
  SettledNodesAgree
