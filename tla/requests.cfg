SPECIFICATION ReqSpec
CONSTANTS
  Requests = {r1, r2}
  Urls <- MCUrls
  MaxKeys = 2
  MaxAnalyses = 2
  MaxBurst = 1
INVARIANTS
  OneLoadPerExpiry
  VersionsContiguous
  OneSpellingPerPage
PROPERTIES
  ImplementsSerial
  AcceptedIsStored
  CachedKeyAdvances
  EveryRequestAnswered
