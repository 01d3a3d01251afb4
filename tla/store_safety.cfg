SPECIFICATION Spec
CONSTANTS
  MaxVer = 1
  MaxPending = 1
  MaxViews = 2
  HeartbeatTicks = 1
  ScreenScoped = FALSE
  Faults = {"transient", "terminal"}
  CanBury = FALSE
  CanPause = TRUE
INVARIANTS TypeOK NoLostUpdate FreshSinceEntry ErrMatchesPhase NoZombie
CHECK_DEADLOCK FALSE
