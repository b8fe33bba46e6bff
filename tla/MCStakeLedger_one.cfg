CONSTANTS
  o1 = o1
  d1 = d1
  Accounts = {o1, d1}
  Operators = {o1}
  NoVault = NoVault
  InitialWallet <- MCWallet
  OperatorTokens = 2
  DelegatorTokens = 2
  InitialTreasury = 1
  MinOperatorStake = 1
  MinDelegations = {2}
  Periods = {1}
  LeavePeriod = 1
  EpochWindow = 0
  RateScale = 10
  RewardPrecision = 3
  ShareScale = 2
  MaxPenalty = 5
  MinPenalty = 1
  MinExpedited = 1
  FeeStep = 50
  FeeCap = 60
  FeeResetInterval = 2
  MaxConsecutiveFailures = 1
  Amounts = {1, 2}
  Outcomes <- MCOutcomes
  Plans <- NoPlans
  PlanAmounts = {1}
  PlanWidth = 2
  AllowlistChoices = {TRUE, FALSE}
  MaxTime = 1
  MaxVaults = 2
  MaxRounds = 1
SPECIFICATION Spec
INVARIANTS
  TypeOK
  SupplyCounters
  PoolSolvent
PROPERTIES
  AllowlistKeepsOut
