SPECIFICATION FairSpec
CONSTANTS
  Groupings = {TRUE, FALSE}
  Cap = 1
  MaxShown = 1
  MaxLines = 1
  MaxSources = 2
  MaxStreams = 2
  MaxPages = 2
  MaxGroupPages = 1
  EmptyGroups = FALSE
INVARIANTS LinesAccounted StreamsBelong
PROPERTIES GoroutinesEnd AllDelivered
CHECK_DEADLOCK FALSE
