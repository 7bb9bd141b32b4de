SPECIFICATION PubCrashSpec
CONSTANTS
  Events = {e1}
  Publishers = {p1}
  MaxRetries = 1
  BatchSize = 1
PROPERTIES
  GuaranteedDelivery
