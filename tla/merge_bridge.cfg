SPECIFICATION Spec
CONSTANTS
  MaxItems = 3
  MaxOdd = 2
  Input <- MCInput
  Threshold <- MCThreshold
  Null = Null
INVARIANT SurvivorsTouched
CHECK_DEADLOCK FALSE
