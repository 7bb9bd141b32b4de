SPECIFICATION ReliableSpec
CONSTANTS
  Events = {e1}
  Publishers = {p1}
  Subscribers = {s1}
  Clients = {c1}
  Contents = {page}
  NoResults = NoResults
  MaxRetries = 2
  BatchSize = 1
INVARIANTS
  StampsInOrder
  ProcessedAheadOfMark
PROPERTIES
  AnalysisFinishes
  ReopenedOnlyByDuplicate
  ImplementsLifecycle
  EventSettles
