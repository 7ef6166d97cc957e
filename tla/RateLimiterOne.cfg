CONSTANTS
  Workers = {w1}
  Addresses = {a}
  NoAddress = none
  Limit = 1
  Timeout = 2
  MaxDelay = 1
SPECIFICATION FairSpec
PROPERTIES
  OneEveryPeriod
