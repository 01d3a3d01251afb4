SPECIFICATION FairSpec
CONSTANTS
  Contexts = {"c1", "c2"}
  Kinds = {"pods", "replicasets"}
  Warm = {"pods"}
  Workloads = {"replicasets"}
  Namespaces = {"all", "a"}
  MaxSessions = 2
  MaxStores = 3
  MaxViews = 4
  MaxDepth = 3
  MaxFlight = 2
  Users = {"patient", "hasty"}
INVARIANTS InformersBelong SnapshotOwnership RightPage
PROPERTIES EntriesSettle
CHECK_DEADLOCK FALSE
