SPECIFICATION SubCrashSpec
CONSTANTS
  Events = {e1, e2}
  Subscribers = {s1}
  Contents = {page1, page2}
  NoResults = NoResults
  MaxRetries = 2
INVARIANTS
  NoRequestLost
  StaleCacheIsInHand
PROPERTIES
  CrashRecovery
