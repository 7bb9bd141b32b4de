SPECIFICATION SubSpec
CONSTANTS
  Events = {e1}
  Subscribers = {s1}
  Contents = {page}
  NoResults = NoResults
  MaxRetries = 1
INVARIANTS
  NoRequestLost
