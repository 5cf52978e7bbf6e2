SPECIFICATION FairSpec
CONSTANTS
  r1 = r1
  r2 = r2
  s1 = s1
  None = None
  Request <- MCRequest
  Synthetic <- MCSynthetic
  Timeout = 2
  MaxClock = 4
INVARIANTS TypeOK NoResurrection ClosedIsPurged NoOrphan RecentlyUsedSurvive
PROPERTIES DueIsSwept
