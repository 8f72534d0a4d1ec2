CONSTANTS
  Wrap = 8
  Scale = 2
  Frame = 1
  PcrFrame = 2
  Jump = 2
  Lag = 1
SPECIFICATION RemapperSpec
INVARIANT ClockAlwaysFollows
