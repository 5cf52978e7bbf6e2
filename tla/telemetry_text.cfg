SPECIFICATION Spec
CONSTANTS
  Value <- MCValue
  Plane = {"country", "master"}
  CountryCode <- MCCountryCode
  MaxMetrics = 1
  MaxBatches = 2
  Mock = FALSE
INVARIANT NoFreeText
CHECK_DEADLOCK FALSE
