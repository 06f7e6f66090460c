CONSTANTS
  MaxPkts = 3
  MinBeats = 2
  MaxBeats = 3
  MinGap = 3
  Depth = 8
  LightLoad = TRUE
  Pauses = FALSE
  Sends = {"udp"}
  PayloadLooks = {"udp"}
  AlwaysReady = FALSE
SPECIFICATION PipeSpec
INVARIANT PipeTypeOK PhvOfOnePacket PhvInOrder
PROPERTY EveryPacketHasPhv
