CONSTANTS
  r1 = r1
  r2 = r2
  r3 = r3
  r4 = r4
  ViewReplicas <- FourReplicas
  MaxDown = 1
  LastView = 4
  CalmViews = 1
  Operator = FALSE
SPECIFICATION ViewSpec
PROPERTY StallEnds
CHECK_DEADLOCK FALSE
