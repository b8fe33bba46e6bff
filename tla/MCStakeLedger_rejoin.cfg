CONSTANTS
  o1 = o1
  d1 = d1
  Accounts = {o1, d1}
  Operators = {o1}
  NoVault = NoVault
  InitialWallet <- MCWallet
  OperatorTokens = 3
  DelegatorTokens = 2
  InitialTreasury = 2
  MinOperatorStake = 1
  MinDelegations = {2}
  Periods = {1}
  LeavePeriod = 2
  EpochWindow = 0
  RateScale = 10
  RewardPrecision = 3
  ShareScale = 2
  MaxPenalty = 5
  MinPenalty = 1
  MinExpedited = 1
  FeeStep = 50
  FeeCap = 60
  FeeResetInterval = 2
  MaxConsecutiveFailures = 1
  Amounts = {2}
  Outcomes <- MCOutcomes
  Plans <- FewPlans
  PlanAmounts = {1}
  PlanWidth = 2
  AllowlistChoices = {}
  MaxTime = 2
  MaxVaults = 2
  MaxRounds = 1
SPECIFICATION Spec
INVARIANTS
  GatewayCounters
  NextIdFree
  NoStrandedDelegation
  DebtNotAhead
PROPERTIES
  ProtectedUntilUnlock
  NoDustLeft
