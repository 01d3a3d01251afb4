SPECIFICATION HandoffFairSpec
CONSTANTS
  Shells = {"shell"}
  Edits = {"edit"}
  NodeDebugs = {"debug"}
  Stores = {"pods", "events"}
  Users = {"patient", "hasty"}
INVARIANTS OneHolder NoStuckPause 
PROPERTIES TerminalReturns
CHECK_DEADLOCK FALSE
