CONSTANTS
  o1 = o1
  Operators = {o1}
  NoEpoch = NoEpoch
  InitialTreasury = 4
  SlashAmount = 1
  Durations = {1}
  Retunes = {}
  FirstIndices = {}
  ReceiptChoices = {FALSE}
  DisableDelay = 1
  LeavePeriod = 0
  GoneEpochs = 1
  RetentionGap = 1
  ObserverLimit = 1
  MaxConsecutiveFailures = 1
  RateScale = 4
  MaxRewardRate = 4
  MinRewardRate = 2
  DecayStart = 0
  DecayLast = 1
  GatewayRatio = 2
  PenaltyRate = 1
  Switches = {TRUE, FALSE}
  MaxTime = 2
  MaxEpochs = 2
SPECIFICATION FairSpec
PROPERTIES
  DisableTakesEffect
