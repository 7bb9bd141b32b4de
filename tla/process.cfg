SPECIFICATION ProcSpec
CONSTANTS
  Keys = {k1, k2}
  MaxVersion = 2
  MaxFailures = 1
CHECK_DEADLOCK FALSE
PROPERTIES
  SignalsAreHandled
  ClosedOnlyAfterCancel
  ShutdownEnds
  ConfigurationStands
  ReloadsAreHeard
