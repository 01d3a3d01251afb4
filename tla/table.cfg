SPECIFICATION Spec
CONSTANTS
  Names = {1, 2}
  MaxUid = 2
  MaxUsage = 1
  Heights = {1}
INVARIANTS ScreenHonest CursorVisible
PROPERTIES RefreshKeepsCursor
CHECK_DEADLOCK FALSE
