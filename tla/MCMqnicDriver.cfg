SPECIFICATION NicSpec
CONSTANTS
  Size = 4
  EvSize = 4
  PtrMod = 16
  OpTable = 2
  RefillAt = 2
  MaxTx = 2
  MaxRx = 2
  NoBuf = NoBuf
INVARIANTS
  NicTypeOK
  BuffersApart
  WireInOrder
  GotAsArrived
  NoCompletionLost
  NeverRaises
PROPERTIES
  TxReturned
  RxReturned
CHECK_DEADLOCK FALSE
