CONSTANTS
  Threads = 2
  MaxConns = 3
SPECIFICATION MCFairSpec
INVARIANTS
  StatefulRoutesHaveState
  StopsOnlyForCulprits
PROPERTIES
  ImplementsServer
  NobodyStarves
