SPECIFICATION Spec
CONSTANTS
  Bars <- MCBars
  Configs <- MCConfigs
  BprConfigs <- MCBprConfigs
  RdrbConfigs <- MCRdrbConfigs
  CisdConfigs <- MCCisdConfigs
  Duration = 2
  OpenTimes = {0, 2, 4, 6, 8, 11}
  MaxBars = 6
INVARIANTS
  TrackersAgree
  InvertedAreMitigated
  BalancedAreTraded
  DeliveryChain
  ZonesKnowable
CHECK_DEADLOCK FALSE
