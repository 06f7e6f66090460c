CONSTANTS
  MaxPkts = 4
  MinBeats = 2
  MaxBeats = 4
  MinGap = 22
  Depth = 8
  LightLoad = TRUE
  Pauses = FALSE
  Sends = {"udp"}
  PayloadLooks = {"udp"}
  AlwaysReady = TRUE
SPECIFICATION PipeSpec
INVARIANT Rebuilt
PROPERTY AllDelivered
