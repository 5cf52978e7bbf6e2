SPECIFICATION Spec
CONSTANTS
  Null = Null
  Entity <- Customs
  Plain <- MCPlain
  Pool <- MCPool
  SaltStart <- MCSaltStart
  Honorifics <- MCHonorifics
  Verbatim <- MCVerbatim
  MaxSegments = 2
  MaxSize = 3
INVARIANT RoundTrip
CHECK_DEADLOCK FALSE
