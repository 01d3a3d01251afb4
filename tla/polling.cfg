SPECIFICATION FairSpec
CONSTANTS
  Scenes <- MCScenes
  MaxPages = 3
  MaxDepth = 3
  MaxTokens = 3
  MaxFlight = 2
  MaxTrouble = 1
  MaxSessions = 2
  MaxToasts = 2
  
PROPERTIES  PollerFollows
CHECK_DEADLOCK FALSE
