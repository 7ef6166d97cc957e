CONSTANTS
  MaxRequests = 2
  Settings <- BodySettings
SPECIFICATION Spec
INVARIANTS
  BrokenOffIsLast
