CONSTANTS
  o1 = o1
  o2 = o2
  d1 = d1
  Accounts = {o1, o2, d1}
  Operators = {o1, o2}
  NoVault = NoVault
  InitialWallet <- MCWallet
  OperatorTokens = 2
  DelegatorTokens = 2
  InitialTreasury = 2
  MinOperatorStake = 2
  MinDelegations = {1}
  Periods = {2}
  LeavePeriod = 2
  EpochWindow = 0
  RateScale = 10
  RewardPrecision = 3
  ShareScale = 2
  MaxPenalty = 5
  MinPenalty = 1
  MinExpedited = 1
  FeeStep = 50
  FeeCap = 60
  FeeResetInterval = 2
  MaxConsecutiveFailures = 1
  Amounts = {2}
  Outcomes <- MCShared
  Plans <- NoPlans
  PlanAmounts = {1}
  PlanWidth = 2
  AllowlistChoices = {}
  MaxTime = 1
  MaxVaults = 1
  MaxRounds = 1
SPECIFICATION Spec
SYMMETRY MCSymmetry
PROPERTIES
  OnlyRewardsEnrich
  DistributionCovered
  DisabledOnlyDrains
