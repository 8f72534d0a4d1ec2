\* Without a statistics URL: what must eventually happen.
CONSTANTS
  SrtCap = 1
  BridgeCap = 1
  Timeout = 2
  MaxStale = 1
  PollerOn = FALSE
SPECIFICATION FairSpec
PROPERTIES
  SilenceFallsBack
  KeyframesGoLive
  ShutdownCompletes
  Refines
