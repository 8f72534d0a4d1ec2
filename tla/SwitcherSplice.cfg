CONSTANTS
  SrtCap = 1
  BridgeCap = 1
  Timeout = 2
  MaxStale = 1
  PollerOn = FALSE
SPECIFICATION Spec
PROPERTY PassthroughStartsOnKeyframe
