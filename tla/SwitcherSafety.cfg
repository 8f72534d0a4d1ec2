\* Everything that can interleave with Run, the statistics poller included.
CONSTANTS
  SrtCap = 1
  BridgeCap = 1
  Timeout = 2
  MaxStale = 2
  PollerOn = TRUE
SPECIFICATION Spec
INVARIANTS
  TypeOK
  BridgeConfined
  EpisodeConsistent
  Watched
