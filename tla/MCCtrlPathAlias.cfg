CONSTANTS
  Stages = 2
  Rows = 2
  IndexMod = 4
  MaxCtl = 1
  MaxPayload = 4
  MinIdle = 1
  Pauses = TRUE
  Headers <- LastHeader
  Lookalikes <- FirstLookalike
SPECIFICATION CtlSpec
INVARIANT PayloadNotObeyed
