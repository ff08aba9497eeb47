SPECIFICATION FairSpec
CONSTANTS
  NW = 2
  N = 3
  MinSamples = 1
  Num = 2
  Den = 3
  MaxErrors = 2
  Settings <- Setups
  Depths = {1, 3}
  MaxUpsets = 2
INVARIANTS
  TypeOK
  BankedAreSure
  LaunchesFitTheBook
PROPERTIES
  CutWastesOne
  LandsAsSerial
  PhaseEnds
CHECK_DEADLOCK FALSE
