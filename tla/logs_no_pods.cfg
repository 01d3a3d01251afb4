SPECIFICATION Spec
CONSTANTS
  Groupings = {TRUE}
  Cap = 1
  MaxShown = 1
  MaxLines = 1
  MaxSources = 1
  MaxStreams = 1
  MaxPages = 1
  MaxGroupPages = 1
  EmptyGroups = TRUE
INVARIANTS UpdateReturns
CHECK_DEADLOCK FALSE
