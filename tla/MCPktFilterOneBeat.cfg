CONSTANTS
  MaxPkts = 2
  MinBeats = 1
  MaxBeats = 2
  MinGap = 1
  Depth = 5
  LightLoad = TRUE
  Pauses = TRUE
  Sends = {"udp", "ctl", "other"}
  PayloadLooks = {"udp", "ctl", "other"}
SPECIFICATION Spec
INVARIANT OnlyUdpPasses
