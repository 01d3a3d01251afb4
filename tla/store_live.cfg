SPECIFICATION FairSpec
CONSTANTS
  MaxVer = 1
  MaxPending = 1
  MaxViews = 1
  HeartbeatTicks = 1
  ScreenScoped = TRUE
  Faults = {"terminal"}
  CanBury = TRUE
  CanPause = FALSE
PROPERTIES Converges StopHalts LoadingEnds
CHECK_DEADLOCK FALSE
