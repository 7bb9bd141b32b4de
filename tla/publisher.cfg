SPECIFICATION PubSpec
CONSTANTS
  Events = {e1, e2}
  Publishers = {p1}
  MaxRetries = 2
  BatchSize = 1
INVARIANTS
  PublishedWasSent
  AttemptsBounded
PROPERTIES
  BackoffRespected
