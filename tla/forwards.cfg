SPECIFICATION ForwardsFairSpec
CONSTANTS
  MaxForwards = 3
  MaxResolving = 1
INVARIANTS NoStray ActiveForwards BrokenSurfaces
PROPERTIES StopSettles
CHECK_DEADLOCK FALSE
