CONSTANTS
  DkgInterval <- MCDkgInterval
  DkgMiningWindowStart <- MCDkgMiningWindowStart
  DkgMiningWindowEnd <- MCDkgMiningWindowEnd
  Chains <- MCChains
  TypeArgs <- MCTypeArgs
  SizeArgs <- MCSizeArgs
  SpacingArgs <- MCSpacingArgs
  HeightArgs <- MCHeightArgs
  SubsidyArgs <- MCSubsidyArgs
  Junk = Junk
  NotSet = NotSet
  Unread = Unread
  Default = Default

SPECIFICATION Spec
CHECK_DEADLOCK FALSE
INVARIANTS
  ConfigErrorsAbortStartup
