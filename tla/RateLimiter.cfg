CONSTANTS
  Workers = {w1, w2}
  Addresses = {a, b}
  NoAddress = none
  Limit = 3
  Timeout = 2
  MaxDelay = 1
SPECIFICATION FairSpec
INVARIANTS
  OvershootBounded
PROPERTIES
  OwnResetsApart
  Recovers
