CONSTANTS
  NetworkID = "regtest"
  NoTimeout = 2147483647
  Junk = Junk
  Names <- MCNames
  StartValues <- MCStartValues
  TimeoutValues <- MCTimeoutValues
  WindowValues <- MCWindowValues
  ThresholdValues <- MCThresholdValues
  UseEHFValues <- MCUseEHFValues
  MaxArgs = 2
  QueryBits <- MCQueryBits
  QueryTimes <- MCQueryTimes

SPECIFICATION Spec
\* Startup ends: the -vbparams values are handled once, then the table is fixed.
CHECK_DEADLOCK FALSE
INVARIANTS
  TypeOK
  ActivationInWindowAgreesWithSpec
PROPERTIES
  OverrideKeepsOmittedFields
