SPECIFICATION TraversalSpec
CONSTANTS
  Guards = {g1, g2}
  gc = g1
  Depth = 2
  MaxFlag = 5
INVARIANT AbortMeansPanic
CHECK_DEADLOCK FALSE
