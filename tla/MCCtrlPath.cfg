CONSTANTS
  Stages = 2
  Rows = 2
  IndexMod = 4
  MaxCtl = 2
  MaxPayload = 4
  MinIdle = 1
  Pauses = TRUE
  Headers <- AllHeaders
  Lookalikes <- NoLookalikes
SPECIFICATION CtlSpec
INVARIANT CtlTypeOK OnlyNamedRows TablesAsAsked
PROPERTY AllWritten
