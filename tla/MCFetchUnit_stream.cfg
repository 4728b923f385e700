SPECIFICATION FairSpec
CONSTANTS
  Configs <- Sound
  NAddr = 12
  Size <- Sizes
  Target <- Targets
  FlushTargets = {0, 3, 5, 9}
  MaxPending = 2
  Window = 2
INVARIANTS
  TypeOK
  StreamIsTheProgram
  SpaceIsExact
  PredictionsAreOfPending
PROPERTY
  KeepsDelivering
