CONSTANTS
  Trees <- SomeTrees
  LastDev = 2
  LastFn = 1
  LastBus = 9
  Granule = 4
  Word = 512
  Vectors = 2
  Base <- Bases
  Sizes = {1, 3, 6}
  Early <- Before
  Late <- Altogether
  MsiSize = 4
SPECIFICATION EnumSpec
INVARIANT EnumTypeOK IdsKeepTheirFunction OwnersAnswer CompletionsReturn FoundOnce MessagesApart RegionsApart CapabilitiesReached
PROPERTY AllFound
CHECK_DEADLOCK FALSE
