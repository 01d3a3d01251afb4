SPECIFICATION FairSpec
CONSTANTS
  MaxVer = 1
  MaxPending = 1
  MaxViews = 1
  HeartbeatTicks = 1
  ScreenScoped = TRUE
  Faults = {"terminal"}
  CanBury = FALSE
  CanPause = FALSE
PROPERTIES TerminalSurfaces
CHECK_DEADLOCK FALSE
