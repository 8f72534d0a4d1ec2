CONSTANTS
  SrtCap = 1
  BridgeCap = 1
  Timeout = 2
  MaxStale = 2
  PollerOn = FALSE
SPECIFICATION Spec
PROPERTY OldReadersHarmless
