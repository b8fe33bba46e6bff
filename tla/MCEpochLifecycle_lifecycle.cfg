CONSTANTS
  o1 = o1
  Operators = {o1}
  NoEpoch = NoEpoch
  InitialTreasury = 4
  SlashAmount = 1
  Durations = {1}
  Retunes = {1}
  FirstIndices = {1}
  ReceiptChoices = {TRUE}
  DisableDelay = 1
  LeavePeriod = 0
  GoneEpochs = 1
  RetentionGap = 1
  ObserverLimit = 1
  MaxConsecutiveFailures = 1
  RateScale = 4
  MaxRewardRate = 0
  MinRewardRate = 0
  DecayStart = 0
  DecayLast = 1
  GatewayRatio = 2
  PenaltyRate = 1
  Switches = {TRUE, FALSE}
  MaxTime = 3
  MaxEpochs = 2
SPECIFICATION FairSpec
INVARIANTS
  ReceiptKept
PROPERTIES
  CloseStrandsNothing
  StreakNeedsEvidence
  EpochsFinish
  EpochsAdvance
