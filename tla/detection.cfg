SPECIFICATION Spec
CONSTANTS
  MaxItems = 3
  MaxOdd = 2
  Input <- MCInput
  Threshold <- MCThreshold
  Null = Null
INVARIANTS
  OnlyQuotes ItemsNeverFail NeighboursSurvive NerKeepsPlaces MistypedRibIsNone SyntheticsValidate
  AcceptedDisjoint ClustersAreComponents OrderIndependent DroppedHaveNoSay
CHECK_DEADLOCK FALSE
