CONSTANTS
  NMiddle = 1
  HookErrors = {}
  MaxRequests = 2
  Settings <- OneOrAll
SPECIFICATION FairHandleSpec
INVARIANTS
  InOrder
  NoRequestLost
  ErrorsAreDeserved
  DeathsHaveCauses
  EndHooksFollowReplies
PROPERTIES
  ImplementsConnection
  Released
