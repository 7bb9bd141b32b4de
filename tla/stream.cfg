SPECIFICATION StreamSpec
CONSTANTS
  EventsCap = 3
CHECK_DEADLOCK FALSE
INVARIANTS
  FinalIsLast
PROPERTIES
  LeaveEndsStream
  StreamDelivers
