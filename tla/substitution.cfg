SPECIFICATION Spec
CONSTANTS
  Null = Null
  Entity <- MCEntity
  Plain <- MCPlain
  Pool <- MCPool
  SaltStart <- MCSaltStart
  Honorifics <- MCHonorifics
  Verbatim <- MCVerbatim
  MaxSegments = 3
  MaxSize = 4
INVARIANTS ForwardSplices RoundTripApart MentionsRestored NovelAreForeign
CHECK_DEADLOCK FALSE
