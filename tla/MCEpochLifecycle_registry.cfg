CONSTANTS
  o1 = o1
  o2 = o2
  Operators = {o1, o2}
  NoEpoch = NoEpoch
  InitialTreasury = 2
  SlashAmount = 1
  Durations = {1}
  Retunes = {}
  FirstIndices = {}
  ReceiptChoices = {FALSE}
  DisableDelay = 1
  LeavePeriod = 0
  GoneEpochs = 1
  RetentionGap = 1
  ObserverLimit = 2
  MaxConsecutiveFailures = 2
  RateScale = 4
  MaxRewardRate = 4
  MinRewardRate = 2
  DecayStart = 0
  DecayLast = 1
  GatewayRatio = 2
  PenaltyRate = 1
  Switches = {TRUE}
  MaxTime = 2
  MaxEpochs = 2
SPECIFICATION Spec
SYMMETRY MCSymmetry
INVARIANTS
  LatestOnlyOpen
  RegistryIndexed
  NeverClobbered
  PaidWithinPool
  ReportsCounted
  TreasuryCovers
PROPERTIES
  PositionsFrozen
