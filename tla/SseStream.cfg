CONSTANTS
  MaxStreams = 2
  MaxEvents = 2
  MaxRequests = 2
SPECIFICATION FairSpec
INVARIANTS
  StreamInOrder
  CloseFlushes
  NewStreamIsClean
PROPERTIES
  Delivered
  CloseEnds
  WorkersEnd
