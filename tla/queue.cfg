SPECIFICATION QueueSpec
CONSTANTS
  m1 = m1
  m2 = m2
  m3 = m3
  Messages <- MCMessages
  Poison <- MCPoison
  MaxRetryCount = 1
CHECK_DEADLOCK FALSE
INVARIANTS
  NeverLost
  OneCopy
PROPERTIES
  ImplementsMessages
  CloseEndsDeliveries
  CancelEndsConsumer
