CONSTANTS
  MaxPkts = 2
  MinBeats = 2
  MaxBeats = 3
  MinGap = 1
  Depth = 2
  LightLoad = FALSE
  Pauses = TRUE
  Sends = {"udp", "ctl"}
  PayloadLooks = {"other"}
SPECIFICATION Spec
PROPERTY CtlTaken
