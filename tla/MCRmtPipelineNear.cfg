CONSTANTS
  MaxPkts = 2
  MinBeats = 2
  MaxBeats = 4
  MinGap = 10
  Depth = 8
  LightLoad = TRUE
  Pauses = FALSE
  Sends = {"udp"}
  PayloadLooks = {"udp"}
  AlwaysReady = TRUE
SPECIFICATION PipeSpec
INVARIANT Rebuilt
