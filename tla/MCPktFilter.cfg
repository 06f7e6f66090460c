CONSTANTS
  MaxPkts = 3
  MinBeats = 2
  MaxBeats = 3
  MinGap = 1
  Depth = 7
  LightLoad = TRUE
  Pauses = TRUE
  Sends = {"udp", "ctl", "other"}
  PayloadLooks = {"udp", "ctl", "other"}
SPECIFICATION Spec
INVARIANT TypeOK Separation ExactlyOnce
PROPERTY Steers CtlTravels
