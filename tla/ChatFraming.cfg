SPECIFICATION FramingSpec
CONSTANTS
  HeaderLength = 2
  MaxBody = 2
  Pad = 2
  Bytes <- MCBytes
  Inputs <- MCInputs
INVARIANTS
  DeliveredAsSent
  ClientInStep
CHECK_DEADLOCK FALSE
