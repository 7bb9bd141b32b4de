SPECIFICATION SubSpec
CONSTANTS
  Events = {e1}
  Subscribers = {s1, s2}
  Contents = {page}
  NoResults = NoResults
  MaxRetries = 1
INVARIANTS
  CompletedHasResults
