CONSTANTS
  \* the remapper
  Wrap = 8
  Scale = 2
  Frame = 1
  PcrFrame = 2
  Jump = 2
  Lag = 1
  \* the broadcaster: two loops under one id, one under another
  old = old
  new = new
  other = other
  recorder = recorder
  preview = preview
  NoLoop = NoLoop
  Loops <- MCLoops
  Ids <- MCIds
  IdOf <- MCIdOf
  Cap = 2
  MaxPackets = 4
  \* the aligner and the parser
  PacketSize = 3
  Bytes = {sync, data}
  Sync = sync
  MaxRead = 4
  MaxStream = 13
  PacketLength = 40
  MaxEntries = 2
  MaxNals = 1
  Pointers = {0, 12, 22}
  Programs <- MCPrograms
  PmtPIDs = {256, 4097}
  Infos = {0, 3}
  StreamKinds <- MCStreamKinds
  VideoPIDs = {300, 257}
  PesHeaders = {0, 5}
  FirstNals <- MCFirstNals
  Nals <- MCNals
SPECIFICATION Spec
INVARIANTS
  PathTypeOK
  ClockFollows
  NeverSendsOnClosed
  OneFeedPerId
  Aligned
  TablesFound
  KeyframesFound
PROPERTIES
  KeyframeJoinSeamless
  NeverRewinds
  SlowNeverBlocks
  Delivers
\* A stream of bytes comes to its end.
CHECK_DEADLOCK FALSE
