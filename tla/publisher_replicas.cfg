SPECIFICATION PubSpec
CONSTANTS
  Events = {e1}
  Publishers = {p1, p2}
  MaxRetries = 2
  BatchSize = 1
INVARIANTS
  ExclusiveClaim
  RetriesBounded
