SPECIFICATION XferSpec
CONSTANTS
  Dw = 4
  Rcb = 8
  Page = 32
  Width = 2
  Tags = 4
  MaxCredits = 2
  MaxLate = 1
  MsiAddr = 96
  MsiBase = 32
  Memory0 <- MCMemory0
  Plans <- MCPlans
INVARIANTS XferTypeOK ReadsRight FramesWhole DataBeforeMsi XferNeverRaises
PROPERTY AllAnswered
CHECK_DEADLOCK FALSE
